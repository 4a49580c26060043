------------------------------ MODULE PrioQueue ------------------------------
(***************************************************************************)
(* What a priority list promises the scheduler: a queue in priority order, *)
(* first come first served within a priority.  PList shows that the        *)
(* pointer structure of kernel/utils/plist.c implements it; the scheduler  *)
(* model uses its operators.                                               *)
(***************************************************************************)
EXTENDS PrioSeq

CONSTANTS Node,      \* the objects that embed a plist_node
          Prio       \* the priorities plist_node_init is given

VARIABLES queue,     \* the nodes on the list, in list order
          prio       \* the field plist_node.prio
vars == <<queue, prio>>

TypeOK ==
    /\ queue \in Seq(Node)
    /\ prio \in [Node -> Int]

Init ==
    /\ queue = << >>
    /\ prio \in [Node -> Prio]

\* plist_node_init and plist_add of a node that is not on the list
Add(n, p) ==
    /\ n \notin Members(queue)
    /\ prio' = [prio EXCEPT ![n] = p]
    /\ queue' = Enqueue(queue, prio', n)

\* plist_remove
Remove(n) ==
    /\ queue' = Dequeue(queue, n)
    /\ UNCHANGED prio

\* plist_requeue: n becomes the last node of its priority.
Requeue(n) ==
    /\ n \in Members(queue)
    /\ queue' = Enqueue(Dequeue(queue, n), prio, n)
    /\ UNCHANGED prio

\* What sched_handler does to the list at the end of n's time slice: the list
\* starts at priority 0 again and n goes behind every other node.
Rotate(n) ==
    /\ n \in Members(queue)
    /\ LET lowered == Normalised(queue, prio)
       IN  prio' = [lowered EXCEPT ![n] = lowered[queue[Len(queue)]] + 1]
    /\ queue' = Enqueue(Dequeue(queue, n), prio', n)

Next ==
    \E n \in Node :
        \/ \E p \in Prio : Add(n, p)
        \/ Remove(n)
        \/ Requeue(n)
        \/ Rotate(n)

Spec == Init /\ [][Next]_vars

-----------------------------------------------------------------------------
\* The list is in priority order and links no node twice, whatever sequence
\* of additions, removals and rotations built it.
Ordered == Distinct(queue) /\ Sorted(queue, prio)
=============================================================================
