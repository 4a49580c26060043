-------------------------------- MODULE DList --------------------------------
(***************************************************************************)
(* The circular doubly linked lists of kernel/utils/dlist.c at the level   *)
(* of their pointers.  All the dlist_head structures of one kind (every    *)
(* node_list member, say) are one function from the objects that embed     *)
(* them to records [next, prev] of such objects.                           *)
(***************************************************************************)

\* dlist_head_init
Init(L, x) == [L EXCEPT ![x] = [next |-> x, prev |-> x]]

\* dlist_is_empty, of a head or, for a node, "is not linked"
IsEmpty(L, x) == L[x].next = x

\* dlist_add_internal: its four stores, and all of them in their order
StoreForward(L, k, new, prev, next) ==   \* faulty: linked forward first
    CASE k = 1 -> [L EXCEPT ![prev].next = new]
      [] k = 2 -> [L EXCEPT ![next].prev = new]
      [] k = 3 -> [L EXCEPT ![new].next = next]
      [] k = 4 -> [L EXCEPT ![new].prev = prev]
Store(L, k, new, prev, next) ==
    CASE k = 1 -> [L EXCEPT ![next].prev = new]
      [] k = 2 -> [L EXCEPT ![new].next = next]
      [] k = 3 -> [L EXCEPT ![new].prev = prev]
      [] k = 4 -> [L EXCEPT ![prev].next = new]
Between(L, new, prev, next) ==
    Store(Store(Store(Store(L, 1, new, prev, next), 2, new, prev, next), 3, new, prev, next),
          4, new, prev, next)

\* dlist_add, dlist_add_tail
Add(L, new, head) == Between(L, new, head, L[head].next)
AddTail(L, new, head) == Between(L, new, L[head].prev, head)

\* dlist_entry_remove: the neighbours skip the entry, which keeps its links
Unlink(L, x) == [[L EXCEPT ![L[x].next].prev = L[x].prev]
                     EXCEPT ![L[x].prev].next = L[x].next]

\* dlist_remove_init
RemoveInit(L, x) == Init(Unlink(L, x), x)
=============================================================================
