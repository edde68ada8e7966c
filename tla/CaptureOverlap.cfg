CONSTANTS
    AppThreads = {a, b, c}
    LateThreads = {c}
    Primary = P
    Secondary = S
    None = None
    Installed <- AllMonitors
    ReportKinds <- SafeReports
    LongElements = TRUE
    Budget <- TwoCrashes
SPECIFICATION Spec
INVARIANTS
    SuspendsBalance
    EnvironmentFrozen
    OwnContext
    DeathRecorded
    HandlersRestored
PROPERTIES
    ImplementsLock
CHECK_DEADLOCK FALSE
