SPECIFICATION Spec
CONSTANTS
    Heap <- MCHeap
    Tagged <- MCTagged
    FrameMemory <- MCFrameMemory
    Images <- MCImages
    Threshold = 4
    Crashes <- MCCrashes
    SearchDepth = 4
    MaxIvars = 2
    BufferLength = 3
    Introspect = TRUE
    CPU = "arm64"
    UserTexts = {"NULL", "object", "scalar", "broken"}
    Nesting = 2
    Breaks = {"os_version", "contents"}
    ClassLists <- MCClassLists
    Sets = 1
INVARIANTS
    SectionsFound
    IntrospectionBounded
    MachReportsDecode
PROPERTIES
    FlushedKept
CHECK_DEADLOCK FALSE
