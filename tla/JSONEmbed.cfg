CONSTANTS
    Portion = 2
    Indent = 1
    Texts <- Reports
    Documents <- Whole
    Uses = {"file", "element", "fix"}
    BufferSize = 40
    NameSize = 4
    StringSize = 8
    MaxDepth = 3
SPECIFICATION Spec
INVARIANTS
    ReportStaysWhole
    SameContent
    FixedReadable
CHECK_DEADLOCK FALSE
