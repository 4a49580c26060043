------------------------------ MODULE Allocator ------------------------------
(***************************************************************************)
(* What a program relies on when it calls malloc, calloc and free: a call  *)
(* returns memory behind a fixed start that no other live allocation has,  *)
(* and at least as much as it asked for.                                   *)
(***************************************************************************)
EXTENDS Integers

CONSTANTS Start,  \* where the heap begins
          Limit,  \* bound of the model: where it ends
          Sizes   \* what programs ask for

VARIABLE live     \* the allocations a program has: [addr, size]

Apart(a, b) == a.addr + a.size <= b.addr \/ b.addr + b.size <= a.addr

Malloc(n, region) ==
    /\ region.size >= n /\ region.addr >= Start /\ region.addr + region.size <= Limit
    /\ \A other \in live : Apart(region, other)
    /\ live' = live \cup {region}

Free(region) == live' = live \ {region}

Init == live = {}

\* The region a call adds is any that fits.
Next ==
    \/ \E region \in live' \ live : \E n \in Sizes : Malloc(n, region)
    \/ \E region \in live : Free(region)

Spec == Init /\ [][Next]_live
=============================================================================
