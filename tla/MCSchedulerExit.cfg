SPECIFICATION Spec
CONSTANTS
    MaxTid <- const_MaxTid
    Slice <- const_Slice
INVARIANTS
    ExitNeverReturns
