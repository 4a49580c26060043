SPECIFICATION StorageSpec
CONSTANTS
    LbaRange = 8
    Lba <- const_Lba
    MaxSectors = 3
    MaxReads = 2
    Slots = 3
    Funcs = 4
    Machine <- const_Machine
    Name <- const_Name
    Path <- const_Path
    Ino <- const_Ino
    Root <- const_Root
    Garbage <- const_Garbage
    Kind <- const_Kind
    Blocks <- const_Blocks
    MaxDentry <- const_MaxDentry
    Direct <- const_Direct
    Assumed <- const_Assumed
    Entries <- const_Entries
    BlockSize <- const_BlockSize
    MaxSize <- const_MaxSize
    Counts <- const_Counts
    Word <- const_Word
    Super <- const_Super
    MaxIno <- const_MaxIno
INVARIANTS
    CacheSound
    LookupAnswers
    FilesAreRead
    DiskReads
    ScanComplete
PROPERTY
    AllEnd
CHECK_DEADLOCK FALSE
