CONSTANTS
    AppThreads = {a, b}
    LateThreads = {}
    Primary = P
    Secondary = S
    None = None
    Installed <- AllMonitors
    ReportKinds <- QuietReports
    LongElements = TRUE
    Budget <- TwoCrashes
SPECIFICATION FairSpec
PROPERTIES
    CrashTerminates
CHECK_DEADLOCK FALSE
