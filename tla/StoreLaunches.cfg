CONSTANTS
    c1 = c1
    c2 = c2
    h = h
    None = None
    Clients = {c1, c2}
    Handler = h
    MaxReportCount = 1
    IDsPerSecond = 2
    SecondsPerSpan = 4
    Instants <- YearEnd
SPECIFICATION FairSpec
INVARIANTS
    OpensNewFile
    OwnReports
PROPERTIES
    IDsAscend
    PruneTakesOldest
    PruneSuffices
    ReadsSettled
    CaptureEnds
    LockReleased
CHECK_DEADLOCK FALSE
