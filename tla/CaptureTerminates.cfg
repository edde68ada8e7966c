CONSTANTS
    AppThreads = {a, b, c}
    LateThreads = {}
    Primary = P
    Secondary = S
    None = None
    Installed <- AllMonitors
    ReportKinds <- QuietReports
    LongElements = FALSE
    Budget <- OneOfEach
SPECIFICATION FairSpec
PROPERTIES
    CrashTerminates
    ReportsKept
CHECK_DEADLOCK FALSE
