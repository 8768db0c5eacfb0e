SPECIFICATION Spec
CONSTANTS
    PageIds <- MCPageIds
    MaxKey = 7
    EntriesPerLeaf = 1
    PtrsPerInterior = 2
    SlotsPerPage = 2
    MaxDepth = 3
    InnerRootBits = 5
    Tags = {3}
    MaxHandle = 4
    MaxCalls = 3
    MaxRoom = 16
    MaxSavepoints = 2
    Blank = Blank
INVARIANTS RootsReadBack PagesAccounted
