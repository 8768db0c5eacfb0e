SPECIFICATION FairSpec
CONSTANTS
    Names = {"a", "b"}
    Writes = {1, 2}
    MaxTxn = 3
    MaxMarks = 3
    MaxCalls = 3
INVARIANTS ScopesMatchMarks ThrownWorkUndone
PROPERTIES EscapedRefused EveryCallResumed
CHECK_DEADLOCK FALSE
