SPECIFICATION FairSpec
CONSTANTS
    p = p
    q = q
    None = None
    Threads <- MCThreads
    Limits <- MCLimits
    Names = {"a", "b"}
    Writes = {}
    MaxTxn = 2
    MaxMarks = 2
INVARIANTS NoOrphanTransaction ScopeFreesName ClosedIsDropped
PROPERTIES OwnTransaction CallsReturn
