SPECIFICATION Spec
CONSTANTS
    Depth = 3
    MaxData = 2
    DestroyDepth = 2
    BothDetach = FALSE
INVARIANTS
    RefsSound
    CallbackOnWholeStack
PROPERTIES
    AllFreed
CHECK_DEADLOCK FALSE
