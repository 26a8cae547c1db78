SPECIFICATION Spec
CONSTANTS
    Inputs <- MCInputs
    BufSizes = {256}
    LineLens = {0, 1, 2}
    MaxPiece = 2
    Junk = {32, 42}
    MaxOdd = 1
    MaxBack = 1
INVARIANTS
    RoundTrip
CHECK_DEADLOCK FALSE
