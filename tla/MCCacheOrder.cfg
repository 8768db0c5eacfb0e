SPECIFICATION Spec
CONSTANTS
    MaxPage = 5
    FirstPages = 2
    CacheSizes = {1, 3}
    SpillSizes = {0, 2}
    MaxRefused = 2
INVARIANTS IndexIsQueue CapHolds
PROPERTY VictimOldest
