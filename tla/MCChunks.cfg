SPECIFICATION Spec
CONSTANTS
    small = small
    chained = chained
    x = x
    y = y
    Values <- MCValues
    Size <- MCSize
    Parts <- MCParts
    PageIds <- MCPageIds
    Ratios <- MCRatios
    Batches <- MCBatches
    NamedHandles = {1}
    PageSpace = 4
    Tags = {1}
    Bytes = {1}
    RootNames = {x, y}
    MaxNextHandle = 3
    MaxRoots = 1
    Caps = {0, 1}
    MaxCalls = 4
    MaxRoom = 5
    MaxSavepoints = 1
    Blank = Blank
    Absent = Absent
INVARIANTS  DerivedExact StorageAccounted DefragEmptiesSparse
 
CHECK_DEADLOCK FALSE
