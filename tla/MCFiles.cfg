SPECIFICATION Spec
CONSTANTS
    LastPid = 3
    FdMax = 3
    FdScan = 2
    MaxFile = 2
    MaxCount = 1
    AccMode = {0, 1}
    Inode <- const_Inode
    Kind <- const_Kind
    Size <- const_Size
    Missing = missing
    reg = reg
    dir = dir
    dev = dev
    missing = missing
INVARIANTS
    CountsMatch
    TablesFill
PROPERTY
    ImplementsOpenFiles
