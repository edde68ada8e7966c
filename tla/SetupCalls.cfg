CONSTANTS
    SignalCount = 3
    Masks <- SomeMasks
    Calls = 2
SPECIFICATION Spec
INVARIANTS
    HandlersPutBack
    ActiveInstalled
    NestedFaultFound
    CapturedOnce
CHECK_DEADLOCK FALSE
