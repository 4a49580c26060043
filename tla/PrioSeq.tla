------------------------------- MODULE PrioSeq -------------------------------
(***************************************************************************)
(* What a priority list of kernel/utils/plist.c holds, seen as a sequence  *)
(* of nodes: the node_list from the head on.  A node's priority is not     *)
(* part of the sequence but a function of the node, as it is a field of    *)
(* the node in the code.  Lower values come first; nodes of one priority   *)
(* keep the order in which they were added.                                *)
(*                                                                         *)
(* The operators have no RECURSIVE part, so that theorems can be proved    *)
(* about the modules that use them.                                        *)
(***************************************************************************)
EXTENDS Integers, Sequences

\* The nodes on the list.
Members(q) == {q[i] : i \in 1..Len(q)}

\* No node is linked twice.
Distinct(q) == \A i, j \in 1..Len(q) : q[i] = q[j] => i = j

\* The list is in priority order.
Sorted(q, pr) == \A i, j \in 1..Len(q) : i < j => pr[q[i]] <= pr[q[j]]

\* k is where plist_add links n: in front of the first node whose priority
\* is greater than n's, behind every other.
IsSlot(q, pr, n, k) ==
    /\ k \in 1..(Len(q) + 1)
    /\ \A i \in 1..(k - 1) : pr[q[i]] <= pr[n]
    /\ k <= Len(q) => pr[n] < pr[q[k]]

\* plist_add
Enqueue(q, pr, n) ==
    LET k == CHOOSE k \in 1..(Len(q) + 1) : IsSlot(q, pr, n, k)
    IN  [i \in 1..(Len(q) + 1) |-> CASE i < k -> q[i]
                                     [] i = k -> n
                                     [] OTHER -> q[i - 1]]

\* plist_remove; a node that is not on the list is left alone, its links
\* point at itself.
Dequeue(q, n) ==
    IF n \in Members(q)
    THEN LET k == CHOOSE k \in 1..Len(q) : q[k] = n
         IN  [i \in 1..(Len(q) - 1) |-> IF i < k THEN q[i] ELSE q[i + 1]]
    ELSE q

\* sched_handler's loop over the list: every priority is lowered by the first
\* node's, so that the list starts at priority 0.
Normalised(q, pr) ==
    [n \in DOMAIN pr |-> IF n \in Members(q) THEN pr[n] - pr[q[1]] ELSE pr[n]]
=============================================================================
