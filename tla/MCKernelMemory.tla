---------------------------- MODULE MCKernelMemory -----------------------------
(***************************************************************************)
(* The kernel's two allocators: physical frames (PhysMem) and the heap     *)
(* (KernelHeap).  The heap counts the frames it asks for and takes them as *)
(* given, so the two share no variable; a behaviour is one of them, the    *)
(* other at rest.                                                          *)
(***************************************************************************)
EXTENDS KernelHeap, PhysMem

VARIABLE part    \* "frames", "heap"

-----------------------------------------------------------------------------
(* Words of four bits, three reserved frames, six mapped one to one, and   *)
(* requests of up to three frames.  The machines end inside and at the end *)
(* of a word of the bitmap, with as many available frames as it has bits,  *)
(* with fewer (the count refuses first) and with more (the scan finds none *)
(* first).                                                                 *)
const_Word     == 4
const_Reserved == 3
const_Mapped   == 6
const_MaxLen   == 3
const_Machine  == [max : {12, 14, 15}, available : {11, 13, 15}]

(* Pages of six units, headers of one, requests of one and of four units:  *)
(* free blocks are taken whole and split, and the breaks fall on every     *)
(* offset in a page, those that leave no room for the two headers in front *)
(* of the next page included.  There is room for sched_load and two forks. *)
const_Page   == 6
const_Header == 1
const_Size   == {1, 4}
const_Top    == 30

-----------------------------------------------------------------------------
all == <<part, vars, physVars>>

MemoryInit ==
    /\ Init /\ AtReset
    /\ part \in {"frames", "heap"}
    /\ part # "frames" => machine = CHOOSE m \in Machine : TRUE

FrameStep == part = "frames" /\ PhysNext /\ UNCHANGED <<part, vars>>
HeapStep == part = "heap" /\ Next /\ UNCHANGED <<part, physVars>>

MemorySpec == MemoryInit /\ [][FrameStep \/ HeapStep]_all
=============================================================================
