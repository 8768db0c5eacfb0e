SPECIFICATION Spec
CONSTANTS
    Pages = {p1, p2}
    Content = {a, b}
    Absent = Absent
    Garbage = Garbage
    NoState = NoState
    N = 3
    MaxTxnCounter = 4
SYMMETRY Symmetry
INVARIANTS  AckedCommitDurable
 
