SPECIFICATION Spec
CONSTANTS
    Slots = 2
    LastFunction = 2
    StackRoom = 4
    Buses <- SmallBuses
    TscMod = 3
    Huge = 8
    Period = 3
    Rounds = 2
    Tries = 1
    Frames <- SmallFrames
    DescSizes <- SmallSizes
    TdRoom = 10
    MaxCommands = 1
    MaxPlugs = 1
INVARIANTS
    TypeOK
    FindsFirst
    ListingSound
    QuietController
    ChainSound
PROPERTIES
    ScheduleKept
    InitEnds
CHECK_DEADLOCK FALSE
