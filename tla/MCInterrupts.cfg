SPECIFICATION Spec
CONSTANTS
    Period = 2
    ResetWaits = 1
    Commands = {"run", "usb reset", "exit", "panic"}
    MaxKeys = 4
    MaxDepth = 3
    EarlyKeys = FALSE
    QuietRemap = TRUE
INVARIANTS
    TypeOK
    NoStuckLine
    GateReady
    TimerNotReentered
PROPERTIES
    BootCompletes
    TickAdvances
    KeysServed
CHECK_DEADLOCK FALSE
