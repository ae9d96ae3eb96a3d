SPECIFICATION Spec
CONSTANTS
    BitsPerPage = 3
    LowFrames = 2
    IntFrames = 16
    MaxNest = 1
    MemMaps <- HighMaps
INVARIANT
    BitmapBaseKept
CHECK_DEADLOCK FALSE
