SPECIFICATION BothSpec
CONSTANTS
    n1 = n1
    n2 = n2
    n3 = n3
    n4 = n4
    InitT = n1
    ListHead = ListHead
    Node <- const_Node
    Prio <- const_Prio
    MaxPrio <- const_MaxPrio
INVARIANTS
    ListSound
    InsertionSurvives
PROPERTY
    ImplementsPrioQueue
