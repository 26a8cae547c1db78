SPECIFICATION FairSpec
CONSTANTS
    Clients = {c1, c2}
    Blobs = {b1, b2}
    MemMax = 2
    DiskMax = 1
    LoWat = 1
    HiWat = 2
    WORD = 1000
    InitialSizes = {0}
    WriteSizes = {2}
    TruncSizes = {}
    Ops = {"write", "shutdown", "file", "app_write", "read"}
    MaxQueue = 1
    MaxDrift = 1
CHECK_DEADLOCK FALSE
PROPERTIES
    
    TeardownEnds
