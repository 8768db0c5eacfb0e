SPECIFICATION Spec
CONSTANTS
    SuperblockCount = 2
    LeafCapacity = 4
    PtrsPerInterior = 4
    MaxDepth = 1
    OpPages = 4
    MaxPage = 7
    MaxCand = 1
    MaxSavepoints = 1
INVARIANT FileCoversCommitted
CHECK_DEADLOCK FALSE
