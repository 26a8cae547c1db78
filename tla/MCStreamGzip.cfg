SPECIFICATION GzipSpec
CONSTANTS
    MaxData = 4
    buffer_length = 3
    MaxHeld = 2
    MaxCount = 2
    ShortWrites = FALSE
INVARIANTS
    Transparent
PROPERTIES
    Delivered
CHECK_DEADLOCK FALSE
