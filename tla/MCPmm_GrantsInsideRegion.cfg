SPECIFICATION Spec
CONSTANTS
    BitsPerPage = 3
    LowFrames = 2
    IntFrames = 16
    MaxNest = 0
    MemMaps <- SmallMaps
INVARIANT
    GrantsInsideRegion
CHECK_DEADLOCK FALSE
