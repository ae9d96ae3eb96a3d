CONSTANTS
    Cols = 6
    Rows = 3
    TabSize = 4
    MaxValues = 5
    Table <- Keys
    Scripts <- MCScripts
    MaxScripts = 4
    Labels <- MCLabels
SPECIFICATION Spec
INVARIANTS
    TypeOK
    PictureUpToDate
    QueueBounded
    RegionSound
    WhatYouSeeRuns
PROPERTIES
    EditsInPlace
    OutsideRegionKept
CHECK_DEADLOCK FALSE
