CONSTANTS
    BufferLength = 3
    Limit = 4
    Files <- SomeFiles
    Growth = 1
SPECIFICATION Spec
INVARIANTS
    NothingLost
    LineEnds
    AllRead
CHECK_DEADLOCK FALSE
