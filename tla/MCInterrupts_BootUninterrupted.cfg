SPECIFICATION Spec
CONSTANTS
    Period = 2
    ResetWaits = 1
    Commands = {"run"}
    MaxKeys = 1
    MaxDepth = 3
    EarlyKeys = FALSE
    QuietRemap = FALSE
INVARIANT
    BootUninterrupted
CHECK_DEADLOCK FALSE
