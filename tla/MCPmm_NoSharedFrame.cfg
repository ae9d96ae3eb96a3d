SPECIFICATION Spec
CONSTANTS
    BitsPerPage = 3
    LowFrames = 2
    IntFrames = 16
    MaxNest = 1
    MemMaps <- SmallMaps
INVARIANT
    NoSharedFrame
CHECK_DEADLOCK FALSE
