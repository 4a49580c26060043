------------------------------- MODULE ForkRace -------------------------------
(***************************************************************************)
(* The last statement of sched_process_fork queues the child with          *)
(* interrupts on.  Here plist_add runs load by load and store by store,    *)
(* and the end of a slice may come between any two of them: sched_handler  *)
(* then relinks the run queue under the half-made insertion and goes on,   *)
(* as often as not, with another thread.                                   *)
(*                                                                         *)
(* Only process 1 can be so interrupted: while it is parked in the timer   *)
(* interrupt no tick is accepted (Scheduler's InitStranded), and the       *)
(* others never run before.  The stores are made in the order of the       *)
(* source; the compiler knows only of the two to the child's own links     *)
(* that they go to different places.                                       *)
(***************************************************************************)
EXTENDS PList

CONSTANT InitT     \* the thread of process 1

VARIABLES
    sched_thread,  \* the running thread
    queued,        \* threads whose plist_add has returned
    pc,            \* of process 1: "user", or what its plist_add does next
    node,          \* plist_add's variables
    next_node, iter, first, before,
    link,          \* dlist_add_internal's prev and next
    parked,        \* process 1 stands in the timer interrupt
    struck,        \* history: where in an insertion a slice ended, and the node
                   \* that the child was to stand in front of
    halted         \* "no", "hang": a loop over the list does not end, or
                   \* "panic": a thread has returned from its exit
local == <<node, next_node, iter, first, before, link>>
race == <<plistVars, sched_thread, queued, pc, local, parked, struck, halted>>

NotStruck == [at |-> "no", next |-> ListHead]

RaceInit ==
    /\ node_prio = [n \in Node |-> 0]
    /\ prio_list = Self(Node)
    /\ node_list = D!AddTail(Self(Node \cup {ListHead}), InitT, ListHead)
    /\ sched_thread = InitT /\ queued = {InitT}
    /\ pc = "user" /\ parked = FALSE
    /\ node = InitT /\ next_node = ListHead /\ iter = InitT /\ first = InitT
    /\ before = ListHead /\ link = [prev |-> ListHead, next |-> ListHead]
    /\ struck = NotStruck /\ halted = "no"

Up == halted = "no"
Inserting == Up /\ sched_thread = InitT /\ ~parked /\ pc # "user"
Quiet == UNCHANGED <<sched_thread, parked, struck, halted>>
NoStore == UNCHANGED plistVars

-----------------------------------------------------------------------------
(* plist_add, called by fork                                               *)

\* Up to sched_unlock; the child has priority 0 and links to itself.
ForkCall(n) ==
    /\ Up /\ sched_thread = InitT /\ ~parked /\ pc = "user"
    /\ n \notin queued
    /\ pc' = "empty" /\ node' = n
    /\ UNCHANGED <<queued, next_node, iter, first, before, link>> /\ NoStore /\ Quiet

\* plist_is_head_empty and plist_first
LoadFirst ==
    /\ Inserting /\ pc = "empty"
    /\ next_node' = ListHead /\ before' = ListHead
    /\ first' = node_list[ListHead].next /\ iter' = first'
    /\ pc' = IF D!IsEmpty(node_list, ListHead) THEN "tail" ELSE "compare"
    /\ UNCHANGED <<queued, node, link>> /\ NoStore /\ Quiet

\* The test at a leader: break, or the next one.  before is prev.
Compare ==
    /\ Inserting /\ pc = "compare"
    /\ IF GoesBefore(node_prio, node, iter)
       THEN next_node' = iter /\ pc' = "leads" /\ UNCHANGED before
       ELSE before' = iter /\ pc' = "walk" /\ UNCHANGED next_node
    /\ UNCHANGED <<queued, node, iter, first, link>> /\ NoStore /\ Quiet

WalkOn ==
    /\ Inserting /\ pc = "walk"
    /\ iter' = prio_list[iter].next
    /\ pc' = IF iter' = first THEN "leads" ELSE "compare"
    /\ UNCHANGED <<queued, node, next_node, first, before, link>> /\ NoStore /\ Quiet

\* Is the priority new?
Leads ==
    /\ Inserting /\ pc = "leads"
    /\ pc' = IF before = ListHead \/ (before # ListHead /\ node_prio[before] # node_prio[node])
             THEN "leader" ELSE "tail"
    /\ UNCHANGED <<queued, local>> /\ NoStore /\ Quiet

\* dlist_add_tail's load, from prio_list or from node_list
LoadPrev(at, then, L, x) ==
    /\ Inserting /\ pc = at /\ pc' = then
    /\ link' = [prev |-> L[x].prev, next |-> x]
    /\ UNCHANGED <<queued, node, next_node, iter, first, before>> /\ NoStore /\ Quiet
LoadLeader == LoadPrev("leader", "prio1", prio_list, iter)
LoadTail == LoadPrev("tail", "node1", node_list, next_node)

\* The k-th store of dlist_add_internal
PrioPc == <<"prio1", "prio2", "prio3", "prio4", "tail">>
NodePc == <<"node1", "node2", "node3", "node4", "user">>
StorePrio(k) ==
    /\ Inserting /\ pc = PrioPc[k] /\ pc' = PrioPc[k + 1]
    /\ prio_list' = D!Store(prio_list, k, node, link.prev, link.next)
    /\ UNCHANGED <<node_prio, node_list, queued, local>> /\ Quiet
StoreNode(k) ==
    /\ Inserting /\ pc = NodePc[k] /\ pc' = NodePc[k + 1]
    /\ node_list' = D!Store(node_list, k, node, link.prev, link.next)
    /\ queued' = IF k = 4 THEN queued \cup {node} ELSE queued
    /\ UNCHANGED <<node_prio, prio_list, local>> /\ Quiet

-----------------------------------------------------------------------------
(* The scheduler on links that may be half-made.  A list is a record of    *)
(* the two kinds of links and hang, whether a loop over it did not end.    *)

List == [prio_list |-> prio_list, node_list |-> node_list, hang |-> FALSE]

\* How many steps a walk along distinct nodes can have
Bound == Cardinality(Node) + 1

\* The leaders that plist_add walks come round to the first.
AddEnds(P, N) ==
    D!IsEmpty(N, ListHead) \/ \E k \in 1..Cardinality(Node) : Leader(P, N)[k] = Leader(P, N)[0]
Inserted(l, pr, n) ==
    IF l.hang \/ ~AddEnds(l.prio_list, l.node_list)
    THEN [l EXCEPT !.hang = TRUE]
    ELSE LET s == PlistAdd(l.prio_list, l.node_list, pr, n)
         IN  [prio_list |-> s.prio_list, node_list |-> s.node_list, hang |-> FALSE]
Removed(l, n) ==
    LET s == PlistRemove(l.prio_list, l.node_list, n)
    IN  [prio_list |-> s.prio_list, node_list |-> s.node_list, hang |-> l.hang]
Updated(l, pr, n) == Inserted(Removed(l, n), pr, n)

\* What plist_foreach visits, and whether it comes back to the head
Visit(N) == LET walk[i \in Nat] == IF i = 0 THEN N[ListHead].next
                                   ELSE IF walk[i - 1] = ListHead THEN ListHead ELSE N[walk[i - 1]].next
            IN  walk
Visited(N) == {Visit(N)[i] : i \in 0..Bound} \ {ListHead}
VisitEnds(N) == Visit(N)[Bound] = ListHead

\* sched_schedule of a thread that is not running, how being what becomes of
\* process 1: the first thread is popped and queued again as running.
Dispatch(l, pr, park) ==
    LET next == l.node_list[ListHead].next
        out == Updated(Removed(l, next), pr, next)
    IN  /\ next # ListHead
        /\ halted' = IF l.hang \/ out.hang THEN "hang"
                     ELSE IF next = sched_thread /\ next # InitT THEN "panic" ELSE "no"
        /\ sched_thread' = next
        /\ parked' = (park /\ next # InitT)
        /\ prio_list' = out.prio_list /\ node_list' = out.node_list /\ node_prio' = pr

\* sched_handler at the end of a slice.  Bound of the model: of the insertions
\* one at most is interrupted so, and once, a slice being so much longer.
SliceEnd ==
    /\ Up /\ sched_thread = InitT /\ ~parked
    /\ pc # "user" => struck = NotStruck
    /\ LET firstThread == node_list[ListHead].next
           last == node_list[ListHead].prev
           lowered == [m \in Node |-> IF m \in Visited(node_list)
                                      THEN node_prio[m] - node_prio[firstThread]
                                      ELSE node_prio[m]]
           pr == [lowered EXCEPT ![InitT] = lowered[last] + 1]
       IN  IF VisitEnds(node_list)
           THEN Dispatch(Updated(List, pr, InitT), pr, TRUE)
           ELSE halted' = "hang" /\ UNCHANGED <<plistVars, sched_thread, parked>>
    /\ struck' = IF pc = "user" THEN struck ELSE [at |-> pc, next |-> next_node]
    /\ UNCHANGED <<queued, pc, local>>

\* A thread other than process 1, with no tick to come: fork, undivided.
OtherFork(n) ==
    /\ Up /\ sched_thread # InitT
    /\ n \notin queued /\ (pc # "user" => n # node)
    /\ LET l == Inserted(List, node_prio, n)
       IN  /\ prio_list' = l.prio_list /\ node_list' = l.node_list
           /\ halted' = IF l.hang THEN "hang" ELSE "no"
    /\ queued' = queued \cup {n}
    /\ UNCHANGED <<node_prio, sched_thread, pc, local, parked, struck>>

\* exit: queued again as terminated, then sched_schedule
OtherExit ==
    /\ Up /\ sched_thread # InitT
    /\ Dispatch(Updated(List, node_prio, sched_thread), node_prio, TRUE)
    /\ UNCHANGED <<queued, pc, local, struck>>

RaceStopped == ~Up /\ UNCHANGED race

RaceNext ==
    \/ \E n \in Node : ForkCall(n) \/ OtherFork(n)
    \/ LoadFirst \/ Compare \/ WalkOn \/ Leads \/ LoadLeader \/ LoadTail
    \/ \E k \in 1..4 : StorePrio(k) \/ StoreNode(k)
    \/ SliceEnd \/ OtherExit
    \/ RaceStopped

RaceSpec == RaceInit /\ [][RaceNext]_race

-----------------------------------------------------------------------------
\* Where in an insertion a slice ended: behind plist_add's comparisons; between
\* the first and the last store to node_list.
PlaceChosen == struck.at \notin {"no", "empty", "compare"}
HalfLinked == struck.at \in {"node2", "node3", "node4"}

\* No loop over the run queue runs for ever.
NoHang == halted # "hang"

\* No queued thread is lost but by a slice end between two stores to node_list,
\* no other thread is on the queue, and as long as process 1 inserts none is lost.
OnQueue ==
    /\ Up => queued \subseteq Visited(node_list) \/ (HalfLinked /\ ~Inserting)
    /\ Up /\ pc = "user" => Visited(node_list) \subseteq queued

\* Both rings are whole once the insertion is over, but for a half-linked child
\* that was to be the last.
RingsWhole ==
    Up /\ pc = "user" /\ ~parked =>
        \/ Circular(node_list) /\ Circular(prio_list)
        \/ HalfLinked /\ struck.next = ListHead

\* The queue is in the order of the priorities but for a child whose place was
\* chosen before the slice end changed them; and even then while process 1 is
\* parked, since its relinking at the end of the slice comes behind.
InOrder ==
    LET q == Visit(node_list)
    IN  Up /\ (parked \/ (pc = "user" /\ ~PlaceChosen)) =>
            \A k \in 0..Bound :
                q[k] # ListHead /\ q[k + 1] # ListHead => node_prio[q[k]] <= node_prio[q[k + 1]]

\* A slice that ends inside fork's plist_add: what the scheduler that relinks the
\* run queue under the half-made insertion, and the insertion that then goes on
\* with what it loaded before, leave of the queue.
InsertionSurvives == NoHang /\ OnQueue /\ RingsWhole /\ InOrder
=============================================================================
