SPECIFICATION Spec
CONSTANTS
    Keys = {k1, k2}
    NoKey = NoKey
    N = 3
    KeySlotCount = 2
    MaxTxnCounter = 5
    MaxWraps = 3
    MaxBody = 1
SYMMETRY Symmetry
INVARIANTS CredentialLeft RevokedGone
 
