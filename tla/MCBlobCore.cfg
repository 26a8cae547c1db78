SPECIFICATION Spec
CONSTANTS
    Clients = {c1, c2}
    Blobs = {b1, b2}
    MemMax = 2
    DiskMax = 2
    LoWat = 1
    HiWat = 2
    WORD = 1000
    InitialSizes = {0}
    WriteSizes = {2}
    TruncSizes = {1}
    Ops = {"truncate", "write", "ref", "stream", "ptr", "storage_lock"}
    MaxQueue = 1
    MaxDrift = 6
SYMMETRY Symmetry
CHECK_DEADLOCK FALSE
INVARIANTS
    MemWithinLimit
    
    RequestKeptOnce
    NoUseAfterFree

    
