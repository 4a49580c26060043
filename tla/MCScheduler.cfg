SPECIFICATION Spec
CONSTANTS
    MaxTid <- const_MaxTid
    Slice <- const_Slice
INVARIANTS
    TypeOK
    RunQueueSound
    LockHandover
    RunningIsCurrent
    InitStranded
PROPERTY
    FirstPreemption
