SPECIFICATION FairSpec
CONSTANTS
    SuperblockCount = 2
    LeafCapacity = 4
    PtrsPerInterior = 4
    MaxDepth = 1
    OpPages = 5
    MaxPage = 7
    MaxCand = 2
    MaxSavepoints = 2
INVARIANTS OneOwner SnapshotsSpared NoPageLost EditsUnshared NoFreeBelowHint
 
CHECK_DEADLOCK FALSE
