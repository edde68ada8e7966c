CONSTANTS
    WriterLength = 3
    Lengths <- SomeLengths
    Bytes = 9
    Failures = 2
SPECIFICATION WriterSpec
INVARIANTS
    InOrder
    FlushedIsOut
CHECK_DEADLOCK FALSE
