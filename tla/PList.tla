-------------------------------- MODULE PList --------------------------------
(***************************************************************************)
(* kernel/utils/plist.c at the level of its pointers.  A plist_node has    *)
(* two links: node_list threads every node of the list in order, starting  *)
(* and ending at the head; prio_list threads only the first node of each   *)
(* priority (its leader) so that plist_add need not visit the others.  The *)
(* head has no prio_list.                                                  *)
(*                                                                         *)
(* The actions are the uses sched_handler and the thread queue make of the *)
(* list, and plist_requeue, which no caller uses yet.                      *)
(***************************************************************************)
EXTENDS Integers, Sequences, FiniteSetsExt

CONSTANTS Node, Prio, ListHead,
          MaxPrio    \* bound of the model: no rotation past this priority

ASSUME PListAssumption ==
    /\ ListHead \notin Node /\ IsFiniteSet(Node)
    /\ Prio \subseteq Int

VARIABLES node_prio,  \* plist_node.prio
          prio_list,  \* plist_node.prio_list
          node_list   \* plist_node.node_list and plist_head.node_list
plistVars == <<node_prio, prio_list, node_list>>

D == INSTANCE DList

Self(S) == [x \in S |-> [next |-> x, prev |-> x]]

-----------------------------------------------------------------------------
(* The operations, as functions of the links.                              *)

\* The i-th leader on the prio_list ring of the first node, from 0.
Leader(P, N) ==
    LET leader[i \in Nat] == IF i = 0 THEN N[ListHead].next ELSE P[leader[i - 1]].next
    IN  leader

\* plist_add's test at each leader m: n belongs in front of it.
AheadOfEquals(pr, n, m) == pr[n] <= pr[m]    \* faulty: last come, first served
GoesBefore(pr, n, m) == pr[n] < pr[m]

\* plist_add.  The do-while loop visits the leaders until it meets one of a
\* greater priority, or the first one again.
PlistAdd(P, N, pr, n) ==
    IF D!IsEmpty(N, ListHead)
    THEN [prio_list |-> P, node_list |-> D!AddTail(N, n, ListHead)]
    ELSE LET leader == Leader(P, N)
             around == Min({k \in 1..Cardinality(Node) : leader[k] = leader[0]})
             stop   == Min({k \in 0..around : k = around \/ GoesBefore(pr, n, leader[k])})
             behind == IF stop = around THEN ListHead ELSE leader[stop]
             isNew  == stop = 0 \/ pr[leader[stop - 1]] # pr[n]
         IN  [prio_list |-> IF isNew THEN D!AddTail(P, n, leader[stop]) ELSE P,
              node_list |-> D!AddTail(N, n, behind)]

\* A leader that leaves hands its place on the ring to its successor, unless
\* the successor is a leader already.
NotHanded(P, N, n) == P                      \* faulty: the priority loses its leader
Handed(P, N, n) ==
    LET next == N[n].next
    IN  IF next # ListHead /\ D!IsEmpty(P, next) THEN D!Add(P, next, n) ELSE P

\* plist_remove
PlistRemove(P, N, n) ==
    [prio_list |-> IF D!IsEmpty(P, n) THEN P ELSE D!RemoveInit(Handed(P, N, n), n),
     node_list |-> D!RemoveInit(N, n)]

\* plist_requeue.  The walk that looks for the end of the priority begins
\* behind the old successor of n.
PlistRequeue(P, N, pr, n) ==
    LET next == N[n].next
        out  == PlistRemove(P, N, n)
        walk[i \in Nat] == IF i = 0 THEN next ELSE out.node_list[walk[i - 1]].next
        end  == Min({k \in 1..(Cardinality(Node) + 1) :
                        walk[k] = ListHead \/ pr[walk[k]] # pr[n]})
    IN  IF next = ListHead \/ pr[next] # pr[n]
        THEN [prio_list |-> P, node_list |-> N]
        ELSE [out EXCEPT !.node_list = D!AddTail(@, n, walk[end])]

\* plist_foreach: the nodes in node_list order
Queue(N) ==
    LET walk[i \in Nat] == IF i = 0 THEN ListHead ELSE N[walk[i - 1]].next
        len == Min({k \in 0..Cardinality(Node) : walk[k + 1] = ListHead})
    IN  [i \in 1..len |-> walk[i]]

Linked(n) == ~D!IsEmpty(node_list, n)

-----------------------------------------------------------------------------
PlistInit ==
    /\ node_prio \in [Node -> Prio]
    /\ prio_list = Self(Node)
    /\ node_list = Self(Node \cup {ListHead})

\* The links become those of s.
Become(s) ==
    /\ prio_list' = s.prio_list
    /\ node_list' = s.node_list

\* plist_node_init, then plist_add (sched_thread_create, sched_thread_queue)
Add(n, p) ==
    /\ ~Linked(n)
    /\ node_prio' = [node_prio EXCEPT ![n] = p]
    /\ Become(PlistAdd(prio_list, node_list, node_prio', n))

\* plist_remove, of a node that may be off the list (sched_thread_unqueue)
Remove(n) ==
    /\ Become(PlistRemove(prio_list, node_list, n))
    /\ UNCHANGED node_prio

\* plist_requeue
Requeue(n) ==
    /\ Linked(n)
    /\ Become(PlistRequeue(prio_list, node_list, node_prio, n))
    /\ UNCHANGED node_prio

\* The end of a time slice in sched_handler: the loop that lowers every
\* priority, the new priority of n while n is still linked, then
\* sched_thread_update's plist_remove and plist_add.
Rotate(n) ==
    LET first   == node_list[ListHead].next
        last    == node_list[ListHead].prev
        lowered == [m \in Node |->
                        IF Linked(m) THEN node_prio[m] - node_prio[first] ELSE node_prio[m]]
        out     == PlistRemove(prio_list, node_list, n)
    IN  /\ Linked(n)
        /\ node_prio' = [lowered EXCEPT ![n] = lowered[last] + 1]
        /\ node_prio'[n] <= MaxPrio
        /\ Become(PlistAdd(out.prio_list, out.node_list, node_prio', n))

PlistNext ==
    \E n \in Node :
        \/ \E p \in Prio : Add(n, p)
        \/ Remove(n)
        \/ Requeue(n)
        \/ Rotate(n)

PlistSpec == PlistInit /\ [][PlistNext]_plistVars

-----------------------------------------------------------------------------
\* The links are circular in both directions, and a node that is off the list
\* links to itself: no operation leaves a pointer to a removed node behind.
Circular(L) ==
    \A x \in DOMAIN L : L[L[x].next].prev = x /\ L[L[x].prev].next = x

\* prio_list threads exactly the first node of each priority, in the order of
\* the list: the fast path of plist_add sees the list plist_foreach sees.  An
\* operation that moves or removes a leader without handing the place on, or
\* leaves a second node of a priority on the ring, breaks it.
LeaderRing ==
    LET q    == Queue(node_list)
        lead == {i \in 1..Len(q) : i = 1 \/ node_prio[q[i]] # node_prio[q[i - 1]]}
        then(i) == IF \E j \in lead : j > i THEN Min({j \in lead : j > i}) ELSE 1
    IN  /\ Circular(node_list) /\ Circular(prio_list)
        /\ \A i \in 1..Len(q) :
              prio_list[q[i]].next = IF i \in lead THEN q[then(i)] ELSE q[i]
        /\ \A n \in Node : ~Linked(n) => prio_list[n].next = n

\* The pointer structure implements the ordered queue: each operation on the
\* links is the operation of the same name on the sequence they thread.
PQ == INSTANCE PrioQueue WITH queue <- Queue(node_list), prio <- node_prio
ImplementsPrioQueue == PQ!Spec

\* What plist_add finds and leaves: the leaders are the leaders, and the sequence
\* that plist_foreach visits is in priority order.
ListSound == LeaderRing /\ PQ!Ordered
=============================================================================
