SPECIFICATION MemorySpec
CONSTANTS
    Word <- const_Word
    Reserved <- const_Reserved
    Mapped <- const_Mapped
    Machine <- const_Machine
    MaxLen <- const_MaxLen
    Page <- const_Page
    Header <- const_Header
    Size <- const_Size
    Top <- const_Top
INVARIANTS
    PhysTypeOK
    CountedPrefix
    NoSharing
    InMemory
    TypeOK
    Tiled
    Backed
    InUse
PROPERTY
    PaddedFork
