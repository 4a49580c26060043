----------------------------- MODULE KernelHeap ------------------------------
(***************************************************************************)
(* The kernel's heap, kernel/utils/stdlib.c, with the two functions of     *)
(* kernel/memory/virtual.c that need a page-aligned piece of it: a new     *)
(* page directory, and the window above the heap through which fork copies *)
(* the pages of a process.                                                 *)
(*                                                                         *)
(* Addresses count from HEAP_BOTTOM.  A block is named by the address of   *)
(* its header; the caller gets the address behind the header.  The heap is *)
(* one value, so that the functions that call each other can be composed   *)
(* as the code composes them.  Each call is one step: a tick inside one is *)
(* left out, as is a physical allocator that refuses.                      *)
(***************************************************************************)
EXTENDS Integers, Sequences

CONSTANTS Page,      \* PHYS_MM_BLOCK, also the size of a page directory
          Header,    \* sizeof(struct malloc_block)
          Size,      \* what callers ask for
          Top        \* bound of the model: the heap does not grow past it

ASSUME HeapAssumption ==
    /\ Page \in Nat /\ Header \in Nat \ {0}
    /\ 2 * Header < Page
    /\ Size \subseteq 1..(Page - 1)    \* greater ones, kernel stacks and buffers of
                                     \* files, are never freed: they only move the
                                     \* break, as a smaller one does
    /\ Top \in Nat

VARIABLES
    heap,      \* the allocator's variables and blocks
    owned,     \* blocks that callers have and have not freed
    dirs,      \* blocks that hold page directories
    window,    \* heap_current of the last virt_mm_fork_dir, and the end of the
               \* heap's pages at that moment
    phase      \* "boot" until sched_load, "run", or "halted"
vars == <<heap, owned, dirs, window, phase>>

\* The fields of heap:
\*   current, remaining   malloc_current and malloc_remaining
\*   pages                heap pages that virt_mm_map_addr has mapped
\*   frames               frames asked of phys_mm_block_n_alloc for them
\*   size                 size of each block, by the block's address
\*   free                 the blocks marked free
\*   list                 the blocks reached from malloc_blocks
TypeOK ==
    /\ heap.current \in Nat /\ heap.remaining \in Nat
    /\ heap.pages \in Nat /\ heap.frames \in Nat
    /\ \A b \in DOMAIN heap.size : b \in Nat /\ heap.size[b] \in Nat
    /\ heap.free \subseteq DOMAIN heap.size
    /\ heap.list \in Seq(DOMAIN heap.size)
    /\ owned \subseteq DOMAIN heap.size
    /\ dirs \subseteq owned
    /\ window \in [start : Nat, pages : Nat]
    /\ phase \in {"boot", "run", "halted"}

None == -1

End(h, b) == b + Header + h.size[b]

CeilDiv(x, y) == (x + y - 1) \div y

-----------------------------------------------------------------------------
(* stdlib.c                                                                *)

\* What is left of the last page: malloc_remaining after the heap grew.
LeftModulo(pages, grown) == grown % Page             \* faulty: what is used of it
LeftShort(pages, grown) == (pages - 1) * Page - grown    \* faulty: a page too few
LeftOver(pages, grown) == pages * Page - grown

\* malloc_sbrk, for an increment that is not 0.  The loop maps the pages from
\* the first one behind the break.
Sbrk(h, len) ==
    IF len <= h.remaining
    THEN [h EXCEPT !.current = @ + len, !.remaining = @ - len]
    ELSE LET grown == h.current + len
             pages == CeilDiv(grown, Page)
         IN  [h EXCEPT !.current = grown,
                       !.frames = @ + CeilDiv(len - h.remaining, Page),
                       !.pages = @ + pages - CeilDiv(h.current, Page),
                       !.remaining = LeftOver(pages, grown)]

\* malloc_get: a new block behind the break, linked behind the list's last
Get(h, last, n) ==
    LET b == h.current
    IN  [Sbrk(h, n + Header) EXCEPT
            !.size = [a \in DOMAIN h.size \cup {b} |-> IF a = b THEN n ELSE h.size[a]],
            !.list = Append(SubSeq(h.list, 1, last), b)]

\* malloc's search: the places in the list where a free block is big enough
Fitting(h, n) == {i \in 1..Len(h.list) : h.list[i] \in h.free /\ h.size[h.list[i]] >= n}

\* The rest of a block that is split: behind the first n of it.
RestWithHeader(h, b, n) == h.size[b] - n             \* faulty: its header forgotten
Rest(h, b, n) == h.size[b] - n - Header

\* The free blocks when b is no longer one.
StillFree(h, b) == h.free                            \* faulty: the mark is kept
Without(h, b) == h.free \ {b}

\* malloc takes the i-th block of the list, and splits it if there is room for
\* another header.
Reuse(h, i, n) ==
    LET b == h.list[i]
        s == b + Header + n
    IN  IF h.size[b] <= n + Header
        THEN [h EXCEPT !.free = Without(h, b)]
        ELSE [h EXCEPT
                 !.free = Without(h, b) \cup {s},
                 !.size = [a \in DOMAIN @ \cup {s} |->
                              CASE a = b -> n [] a = s -> Rest(h, b, n) [] OTHER -> h.size[a]],
                 !.list = SubSeq(@, 1, i) \o <<s>> \o SubSeq(@, i + 1, Len(@))]

\* malloc and calloc: the heap behind the call and the block
Malloc(h, n) ==
    IF Fitting(h, n) = {}
    THEN [heap |-> Get(h, Len(h.list), n), block |-> h.current]
    ELSE LET i == CHOOSE i \in Fitting(h, n) : \A j \in Fitting(h, n) : i <= j
         IN  [heap |-> Reuse(h, i, n), block |-> h.list[i]]

\* free: nothing is merged
Free(h, b) == [h EXCEPT !.free = @ \cup {b}]

\* How much malloc_align puts in front of the next page: room for its own
\* header and for that of the block that is to be aligned.
Padding(h) ==
    LET padding == CeilDiv(h.current, Page) * Page - h.current
    IN  IF padding > 2 * Header THEN padding ELSE padding + Page

\* malloc_align.  Its search for the end of the list stops at the first block
\* that has a successor: the first, if the list has more than one, and what
\* followed is no longer reached.
AlignHeaderOnce(h) ==                                \* faulty: one header too many
    IF h.current % Page = 0
    THEN [heap |-> h, block |-> None]
    ELSE [heap |-> Get(h, 1, Padding(h) - Header), block |-> h.current]

Align(h) ==
    IF h.current % Page = 0
    THEN [heap |-> h, block |-> None]
    ELSE [heap |-> Get(h, 1, Padding(h) - 2 * Header), block |-> h.current]

Unpad(h, b) == IF b = None THEN h ELSE Free(h, b)

-----------------------------------------------------------------------------
(* virtual.c                                                               *)

\* virt_mm_addr_create's allocation
AddrCreate(h) ==
    LET pad == Align(h)
        dir == Malloc(pad.heap, Page)
    IN  [heap |-> Unpad(dir.heap, pad.block), block |-> dir.block]

\* A caller finds its data behind the header.
Aligned(b) == (b + Header) % Page = 0

-----------------------------------------------------------------------------
Init ==
    /\ heap = [current |-> 0, remaining |-> 0, pages |-> 0, frames |-> 0,
               size |-> << >>, free |-> {}, list |-> << >>]
    /\ owned = {}
    /\ dirs = {}
    /\ window = [start |-> 0, pages |-> 0]
    /\ phase = "boot"

\* malloc or calloc, of anything but a page directory
Alloc(n) ==
    /\ phase # "halted"
    /\ LET m == Malloc(heap, n)
       IN  /\ m.heap.current <= Top
           /\ heap' = m.heap
           /\ owned' = owned \cup {m.block}
    /\ UNCHANGED <<dirs, window, phase>>

\* free, of a name, a path, an area or a file.  The first block of the heap is
\* a pci_device, which is never freed; neither is a page directory.
Release(b) ==
    /\ phase = "run"
    /\ b \in owned \ dirs
    /\ b # 0
    /\ heap' = Free(heap, b)
    /\ owned' = owned \ {b}
    /\ UNCHANGED <<dirs, window, phase>>

\* sched_load's page directory.  Drivers and file system have allocated before,
\* so malloc_align's search ends.  A directory that is not aligned is not what
\* the processor finds at the frame sched_switch gives it.
Load ==
    /\ phase = "boot"
    /\ Len(heap.list) > 1
    /\ LET c == AddrCreate(heap)
       IN  /\ c.heap.current <= Top
           /\ heap' = c.heap
           /\ owned' = owned \cup {c.block}
           /\ dirs' = dirs \cup {c.block}
           /\ phase' = IF Aligned(c.block) THEN "run" ELSE "halted"
    /\ UNCHANGED window

\* virt_mm_fork_dir: the directory, a second alignment for the window, whose
\* pages are mapped and unmapped again, and the padding's release.  A window
\* that does not start on a page takes the place of the heap's last page, and
\* its first memset runs into a page that is not mapped: sys_panic.
ForkDir ==
    /\ phase = "run"
    /\ LET c   == AddrCreate(heap)
           pad == Align(c.heap)
       IN  /\ pad.heap.current <= Top
           /\ heap' = Unpad(pad.heap, pad.block)
           /\ owned' = owned \cup {c.block}
           /\ dirs' = dirs \cup {c.block}
           /\ window' = [start |-> pad.heap.current, pages |-> pad.heap.pages]
           /\ phase' = IF pad.heap.current % Page = 0 /\ Aligned(c.block)
                       THEN "run" ELSE "halted"

\* sys_stop, or, as a bound of the model, a heap near Top.
Stopped ==
    /\ phase = "halted" \/ heap.current + 2 * (Page + Header) > Top
    /\ UNCHANGED vars

Next ==
    \/ \E n \in Size : Alloc(n)
    \/ \E b \in owned : Release(b)
    \/ Load \/ ForkDir
    \/ Stopped

Spec == Init /\ [][Next]_vars

-----------------------------------------------------------------------------
\* The blocks, their headers included, tile the heap: every address below the
\* break belongs to exactly one block, whether the list still reaches it or not.
\* So no two callers share memory, and no header is inside a caller's data.
Tiled ==
    /\ \A a, b \in DOMAIN heap.size : a < b => End(heap, a) <= b
    /\ \A b \in DOMAIN heap.size : End(heap, b) \in DOMAIN heap.size \cup {heap.current}

\* malloc_remaining is what is left of the last mapped page, and every page of
\* the heap was mapped to a frame that was asked for: the frames are counted
\* from malloc_remaining, the pages from the break.
Backed ==
    /\ heap.pages * Page = heap.current + heap.remaining
    /\ heap.remaining < Page
    /\ heap.frames = heap.pages

\* A caller's block is not free, and the list visits blocks in the order of
\* their addresses: malloc never finds a block twice or one that is in use.
InUse ==
    /\ owned \cap heap.free = {}
    /\ \A i, j \in 1..Len(heap.list) : i < j => heap.list[i] < heap.list[j]

\* If the break is not on a page boundary, the padding puts the page directory
\* on one, and leaves the break there: fork's window needs no padding of its own
\* and starts where the heap's pages end.  The search after the padding cannot
\* find a block for the directory: what is left of the list is too small.
PaddedStep ==
    dirs' # dirs /\ heap.current % Page # 0 =>
        /\ phase' = "run"
        /\ \A d \in dirs' : Aligned(d)
        /\ window' # window => window'.start = window'.pages * Page

PaddedFork == [][PaddedStep]_vars

\* virt_mm_map_addr is given page-aligned addresses.
WindowOnPage == window.start % Page = 0
=============================================================================
