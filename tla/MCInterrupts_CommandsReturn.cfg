SPECIFICATION Spec
CONSTANTS
    Period = 2
    ResetWaits = 1
    Commands = {"usb reset"}
    MaxKeys = 3
    MaxDepth = 3
    EarlyKeys = FALSE
    QuietRemap = TRUE
PROPERTY
    CommandsReturn
CHECK_DEADLOCK FALSE
