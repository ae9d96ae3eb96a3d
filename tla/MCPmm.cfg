SPECIFICATION Spec
CONSTANTS
    BitsPerPage = 3
    LowFrames = 2
    IntFrames = 16
    MaxNest = 1
    MemMaps <- SmallMaps
INVARIANTS
    TypeOK
    PicksLargestRegion
    OnlyTheWindowShares
    BitmapNeverGranted
    HaltsOnlyWhenFull
PROPERTY
    ImplementsFrameAllocator
CHECK_DEADLOCK FALSE
