SPECIFICATION Spec
CONSTANTS
    Thread = {0, 1, 2}
    BootThread = 0
    Depth = 4
    MaxNested = 2
INVARIANTS
    ServedInTurn
    NothingLost
