SPECIFICATION Spec
CONSTANTS
    LastPid = 2
    Page = 4
    HeapSize = 8
    StackSize = 4
    Top = 32
    Image <- const_Image
    NoImage = none
    none = none
    MaxArgs = 1
    Asked <- const_Asked
INVARIANTS
    AreasSound
    MappedExactly
    ImageInPlace
    OnlyBadImagesHalt
