\* A poisoned handle over a file that open refuses (FileSizeMismatch) stops.
CHECK_DEADLOCK FALSE
SPECIFICATION FairSpec
CONSTANTS
    PageCount = 3
    FirstPages = 1
    Values = {v1}
    Blank = Blank
    Absent = Absent
    CacheSizes = {1, 2}
    SpillSizes = {0, 2}
    MaxSlots = 2
INVARIANT CountExact
PROPERTIES WorkHidden ImplementsPageStore CallsReturn
