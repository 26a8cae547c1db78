SPECIFICATION FairSpec
CONSTANTS
    Writers = {w1}
    Loop = loop
    Lengths = {0, 2, 3}
    buf_threshold = 3
    Burst = 2
    ImmedFlush = TRUE
    ChildResults = {"normal", "again", "error"}
    MayShutdown = TRUE
    MaxBytes = 5
    MaxPackets = 3
INVARIANTS
    InOrder
PROPERTIES
    ErrorPropagated
    Drained
