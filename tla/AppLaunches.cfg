CONSTANTS
    Main = main
    Handler = handler
    Events <- Suspending
    MaxTime = 1
    MaxLaunches = 3
    MaxSessions = 1
    Gap = gap
SPECIFICATION Spec
INVARIANTS
    NotedOnDisk
PROPERTIES
    NoFalseAlarm
CHECK_DEADLOCK FALSE
