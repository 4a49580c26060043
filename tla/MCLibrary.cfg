SPECIFICATION LibrarySpec
CONSTANTS
    Start = 8
    Page = 8
    Word = 2
    Header = 2
    Sizes = {1, 3, 6, 11}
    Limit = 40
    Shorts = 16
    Ints = 256
    PointerDigits = 2
    NullPage = 16
    Memory <- Strings
    BufferSizes <- SmallBuffers
    Calls <- KernelCalls
INVARIANTS
    HeapSound
    TextAsPromised
PROPERTIES
    ImplementsAllocator
    ConsolePrints
    
CHECK_DEADLOCK FALSE
