SPECIFICATION Spec
CONSTANTS
    Creators = {c1, c2}
    CaFiles = {f1, f2}
    NoThread = none
    MaxMtime = 2
    MaxNew = 2
    MaxChain = 2
    VerifyDepths <- MCDepths
    Duplex = FALSE
CHECK_DEADLOCK FALSE
INVARIANTS
    TrustedPeer
    
    
