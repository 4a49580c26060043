SPECIFICATION Spec
CONSTANTS
    N = 4
    UserSlots = 1
    Slots = 3
    UserPage = {1, 3}
    LastDir = 3
    LastFrame = 8
    Value = {0, 1}
INVARIANTS
    KernelShared
    UserMemory
