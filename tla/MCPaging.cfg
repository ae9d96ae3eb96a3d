SPECIFICATION Spec
CONSTANTS
    Fanout = 16
    Levels = 2
    Hhdm = 384
    StackReach = 1
    MaxEarly = 2
    Layouts <- SmallLayouts
    MapPages <- SmallPages
    MaxMaps = 17
INVARIANTS
    TypeOK
    TableTree
    RootReachable
    LowWindow
    FaultOnlyBeyondWindow
PROPERTY
    ImplementsAddressSpace
CHECK_DEADLOCK FALSE
