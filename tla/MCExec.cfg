SPECIFICATION ExecSpec
CONSTANTS
    LbaLimit = 4096
    NoSector = 16384
    Polls = 4
    Volumes <- SmallVolumes
    Byte = 32
    Word = 16384
    EntryBytes = 4
    EndMark = 4088
    DirEntries = 3
    BufSectors = 4
    PageSectors = 3
    SizeLimit = 256
    Garbage <- Stack
    Fanout = 16
    Levels = 2
    Hhdm = 384
    StackReach = 1
    MaxEarly = 2
    Layouts <- ExecLayouts
    MapPages = {}
    MaxMaps = 24
INVARIANTS
    ExecTypeOK
    ReadsTheFile
    StackKept
    SectionsInPlace
    CopySparesTables
PROPERTIES
    ImplementsBlockDevice
    ExecEnds
CHECK_DEADLOCK FALSE
