------------------------------- MODULE UserHeap -------------------------------
(***************************************************************************)
(* malloc, calloc and free of libs/c/stdlib.c, over sbrk of                *)
(* libs/c/unistd.c and the kernel's brk, which rounds up to a page (the    *)
(* kernel's side is in ProcessMem).  No program of the repository calls    *)
(* sbrk itself, and only malloc moves the break here.  Blocks are listed   *)
(* in the order of their addresses and are never merged.                   *)
(***************************************************************************)
EXTENDS Integers, Sequences, FiniteSetsExt

CONSTANTS Start,   \* mm->brk when the program begins
          Page,    \* PHYS_MM_BLOCK
          Word,    \* malloc rounds sizes up to 4
          Header,  \* sizeof(struct malloc_block): 16
          Sizes,   \* what programs ask for
          Limit    \* bound of the model: the break

ASSUME UserHeapAssumption ==
    /\ Page \in Nat \ {0} /\ Word \in Nat \ {0} /\ Header \in Nat \ {0}
    /\ Start \in Nat \ {0} /\ Start % Page = 0
    /\ Sizes \subseteq Nat \ {0} /\ Limit \in Nat

VARIABLES
    blocks,    \* the list of struct malloc_block: addr, size, free
    current,   \* malloc_current, 0 before the first malloc
    remaining, \* malloc_remaining
    brk        \* mm->brk in the kernel
vars == <<blocks, current, remaining, brk>>

Block == [addr : Nat, size : Nat \ {0}, free : BOOLEAN]
EndOf(b) == b.addr + Header + b.size

TypeOK ==
    /\ blocks \in Seq(Block)
    /\ current \in Nat /\ remaining \in Nat
    /\ brk \in Nat /\ brk % Page = 0

-----------------------------------------------------------------------------
\* mmap_brk's PAGE_ALIGN, and malloc's ALIGN_UP
PageAlign(addr) == ((addr + Page - 1) \div Page) * Page
AlignUp(size) == ((size + Word - 1) \div Word) * Word

\* malloc_get: base, and what the three variables become.
Base == IF current = 0 THEN brk ELSE current
Grown(target) == PageAlign(brk + target)
Left(target) == Grown(target) - (Base + target)
Get(target) ==
    IF target <= remaining
    THEN remaining' = remaining - target /\ UNCHANGED brk
    ELSE brk' = Grown(target) /\ remaining' = Left(target)

\* The first free block that is large enough, 0 if there is none.
FoundBusy(size) ==                                  \* faulty: free is not looked at
    LET fitting == {i \in DOMAIN blocks : blocks[i].size >= size}
    IN  IF fitting = {} THEN 0 ELSE Min(fitting)
Found(size) ==
    LET fitting == {i \in DOMAIN blocks : blocks[i].free /\ blocks[i].size >= size}
    IN  IF fitting = {} THEN 0 ELSE Min(fitting)

\* What a block becomes that malloc reuses.
SplitShort(b, size) ==                              \* faulty: the new header forgotten
    <<[b EXCEPT !.free = FALSE, !.size = size],
      [addr |-> b.addr + Header + size, size |-> b.size - size, free |-> TRUE]>>
Split(b, size) ==
    <<[b EXCEPT !.free = FALSE, !.size = size],
      [addr |-> b.addr + Header + size, size |-> b.size - size - Header, free |-> TRUE]>>
Taken(b, size) == IF b.size > size + Header THEN Split(b, size) ELSE <<[b EXCEPT !.free = FALSE]>>

Reuse(n) ==
    LET size == AlignUp(n)
        i == Found(size)
    IN  /\ i # 0
        /\ blocks' = SubSeq(blocks, 1, i - 1) \o Taken(blocks[i], size)
                         \o SubSeq(blocks, i + 1, Len(blocks))
        /\ UNCHANGED <<current, remaining, brk>>

Extend(n) ==
    LET size == AlignUp(n)
        target == size + Header
    IN  /\ Found(size) = 0
        /\ target <= remaining \/ Grown(target) <= Limit
        /\ Get(target)
        /\ current' = Base + target
        /\ blocks' = Append(blocks, [addr |-> Base, size |-> size, free |-> FALSE])

Malloc(n) == Reuse(n) \/ Extend(n)

\* free, of a pointer malloc returned
Free(i) ==
    /\ ~blocks[i].free
    /\ blocks' = [blocks EXCEPT ![i].free = TRUE]
    /\ UNCHANGED <<current, remaining, brk>>

-----------------------------------------------------------------------------
Init ==
    /\ blocks = << >>
    /\ current = 0 /\ remaining = 0
    /\ brk = Start

Next ==
    \/ \E n \in Sizes : Malloc(n)
    \/ \E i \in DOMAIN blocks : Free(i)

Spec == Init /\ [][Next]_vars

-----------------------------------------------------------------------------
(* Properties                                                              *)

\* What malloc believes of its heap is what the kernel gave: the blocks and the
\* rest end at the kernel's break, however the kernel rounds it.
MeetsBreak == current # 0 => current + remaining = brk

\* The list covers the heap from its start to malloc_current, each block
\* behind the one before: no byte is in two blocks, and none is lost.
Tiled ==
    /\ \A i \in DOMAIN blocks :
           blocks[i].addr = IF i = 1 THEN Start ELSE EndOf(blocks[i - 1])
    /\ blocks # << >> => current = EndOf(blocks[Len(blocks)])

\* What the next call finds.
HeapSound == TypeOK /\ MeetsBreak /\ Tiled

\* malloc and free are an allocator: an allocation never overlaps another one
\* that is live, over every order of calls.
Live == {[addr |-> blocks[i].addr + Header, size |-> blocks[i].size] :
             i \in {k \in DOMAIN blocks : ~blocks[k].free}}
Abstract == INSTANCE Allocator WITH live <- Live
ImplementsAllocator == Abstract!Spec
=============================================================================
