SPECIFICATION LineSpec
CONSTANTS
    MaxChunk = 3
    Cases <- MCCases
    BufSizes = {3}
    CopySizes = {2}
    PeekSizes = {0, 3}
    Settable = {"POLL_PARTIAL"}
    MaxSent = 2
INVARIANTS
    InputDelivered
    NoSleepOnLine
CHECK_DEADLOCK FALSE
