------------------------------- MODULE PhysMem -------------------------------
(***************************************************************************)
(* The allocator of physical frames, kernel/memory/physical.c on the       *)
(* bitmap of kernel/utils/bitmap.c, from phys_mm_init through the two      *)
(* frames and the identity map of virt_mm_init to the requests of the      *)
(* page tables, the kernel heap, mmap and brk.                             *)
(*                                                                         *)
(* No caller ever returns a frame (phys_mm_block_free is dead code), so    *)
(* there is no action for it.  The words behind the bitmap that hold the   *)
(* bits of frames between phys_mm_bitmap_max and the top of the memory     *)
(* count as part of the bitmap.  Counters stay far from 2^32.              *)
(***************************************************************************)
EXTENDS Integers, Sequences, FiniteSets

CONSTANTS Word,      \* bits of a word of the bitmap: 32
          Reserved,  \* frames below the end of the bitmap, behind the kernel
          Mapped,    \* frames virt_mm_init maps one to one: 1024
          Machine,   \* memory sizes: [max, available] records, see below
          MaxLen     \* bound of the model: frames of one request

\* available is the number of frames the boot loader's memory map lists as
\* available; max is phys_mm_bitmap_max, computed from mem_lower and mem_upper.
\* The two are close and either may be the greater: mem_lower is a number of
\* kilobytes that enters max as a number of bytes, and the hole below the first
\* megabyte is not in the map.
Limit(m) == (m \div Word) * Word

ASSUME PhysMemAssumption ==
    /\ Word \in Nat \ {0}
    /\ Reserved \in Nat \ {0} /\ Mapped \in Nat /\ MaxLen \in Nat \ {0}
    /\ Reserved + 2 <= Mapped
    /\ Machine \subseteq [max : Nat, available : Nat]
    /\ \A m \in Machine : /\ Mapped <= m.available
                          /\ m.available <= m.max + Reserved
                          /\ Mapped <= Limit(m.max)

VARIABLES
    machine,   \* what phys_mm_init reads of the boot loader's tables
    bits,      \* phys_mm_bitmap: the frames whose bit is set
    used,      \* phys_mm_bitmap_used
    boot,      \* how far the boot has come
    blocks,    \* what the callers were given, in order
    halted     \* sys_panic's loop
physVars == <<machine, bits, used, boot, blocks, halted>>

Block == [first : Nat, len : Nat]
Phase == {"reset", "dir", "table", "identity", "run"}

PhysTypeOK ==
    /\ machine \in Machine
    /\ bits \in SUBSET Nat
    /\ used \in Nat
    /\ boot \in Phase
    /\ blocks \in Seq(Block)
    /\ halted \in BOOLEAN

\* The frames of a block.
Frames(b) == b.first..(b.first + b.len - 1)

-----------------------------------------------------------------------------
\* The test that opens both allocation functions.
AlwaysEnough(len) == len >= 0                        \* faulty: no test
Enough(len) == machine.max - used >= len

\* Where the scan may stop: a free bit in a whole word of the bitmap with len
\* free bits among itself and the len bits behind it.  The window is one bit
\* wider than the block; what keeps a used frame out of the block is that the
\* bitmap has no holes.  For one bit this is bitmap_get_first.
Fits(b, len) ==
    /\ b \in 0..(Limit(machine.max) - 1)
    /\ b \notin bits
    /\ \A c, d \in (b..(b + len)) \cap bits : c = d

\* The bits an allocation sets.
MarkedOne(b, len) == {b}                             \* faulty: not the rest
Marked(b, len) == b..(b + len - 1)

\* bitmap_get_first, bitmap_get_n_first and the loop behind them: the first
\* place that fits.
Take(len) ==
    \E b \in 0..(Limit(machine.max) - 1) :
        /\ Fits(b, len)
        /\ \A c \in 0..(b - 1) : ~Fits(c, len)
        /\ bits' = bits \cup Marked(b, len)
        /\ used' = used + len
        /\ blocks' = Append(blocks, [first |-> b, len |-> len])

\* phys_mm_bitmap_used before the memory map is read
NothingUsed(m) == 0                                  \* faulty: lowered below 0
AllUsed(m) == m.max

\* phys_mm_addr_set over the identity map
CountedTwice(S) == Cardinality(S)                    \* faulty: no bitmap_test
NewlySet(S) == Cardinality(S \ bits)

-----------------------------------------------------------------------------
AtReset ==
    /\ machine \in Machine
    /\ bits = {}
    /\ used = 0
    /\ boot = "reset"
    /\ blocks = << >>
    /\ halted = FALSE

\* phys_mm_init: the bitmap is cleared, the regions of the memory map lower
\* the count, and the frames up to the end of the bitmap are set.
PhysInit ==
    /\ boot = "reset"
    /\ used' = AllUsed(machine) - machine.available + Reserved
    /\ bits' = 0..(Reserved - 1)
    /\ boot' = "dir"
    /\ UNCHANGED <<machine, blocks, halted>>

\* virt_mm_init: the page directory, and virt_mm_map: its first table
BootAlloc ==
    /\ boot \in {"dir", "table"}
    /\ Enough(1)
    /\ Take(1)
    /\ boot' = IF boot = "dir" THEN "table" ELSE "identity"
    /\ UNCHANGED <<machine, halted>>

\* virt_mm_map's loop: phys_mm_addr_set of every frame it maps
MapIdentity ==
    /\ boot = "identity"
    /\ used' = used + NewlySet(0..(Mapped - 1))
    /\ bits' = bits \cup 0..(Mapped - 1)
    /\ boot' = "run"
    /\ UNCHANGED <<machine, blocks, halted>>

Running == boot = "run" /\ ~halted

\* phys_mm_block_alloc (len = 1) and phys_mm_block_n_alloc
BlockAlloc(len) ==
    /\ Running
    /\ Enough(len)
    /\ Take(len)
    /\ UNCHANGED <<machine, boot, halted>>

\* The early return, NULL.
Refuse(len) ==
    /\ Running
    /\ ~Enough(len)
    /\ UNCHANGED physVars

\* The count says that there are frames and the scan finds none: it returns -1,
\* which `bit <= 0' does not see in an unsigned variable.  bitmap_set then
\* writes half a gigabyte behind the bitmap, to an address nothing is mapped
\* at: a page fault that nothing handles, sys_panic.
Overrun(len) ==
    /\ Running
    /\ Enough(len)
    /\ \A b \in 0..(Limit(machine.max) - 1) : ~Fits(b, len)
    /\ halted' = TRUE
    /\ UNCHANGED <<machine, bits, used, boot, blocks>>

\* sys_stop
Panicked == halted /\ UNCHANGED physVars

PhysNext ==
    \/ PhysInit \/ BootAlloc \/ MapIdentity
    \/ \E len \in 1..MaxLen : BlockAlloc(len) \/ Refuse(len) \/ Overrun(len)
    \/ Panicked

PhysSpec == AtReset /\ [][PhysNext]_physVars

-----------------------------------------------------------------------------
\* How many frames the counter says are taken.
Taken == machine.available - (machine.max - used)

\* The counter and the bitmap agree, and the bitmap has no holes: the set bits
\* are the first Taken ones.  The counter starts from the memory map, the
\* bitmap from zero, three functions and two boot paths update both, and
\* bitmap_get_n_first's window is only right without holes.
CountedPrefix == boot # "reset" => bits = 0..(Taken - 1)

\* No two blocks share a frame, whatever mixture of single and multiple frames
\* was asked for, and none lies in the kernel image or, after the boot, in the
\* identity map.
NoSharing ==
    /\ \A i, j \in 1..Len(blocks) :
          i # j => Frames(blocks[i]) \cap Frames(blocks[j]) = {}
    /\ \A i \in 1..Len(blocks) :
          Frames(blocks[i]) \cap 0..((IF i <= 2 THEN Reserved ELSE Mapped) - 1) = {}

\* No block reaches behind the memory.  The scan itself looks behind its last
\* bit; only the test of the count, which is made before it and from other
\* numbers, keeps a block of several frames inside.  (The frames of the hole
\* below the first megabyte are reserved but not available, so the memory
\* reaches at least to frame available - 1.)
InMemory ==
    \A i \in 1..Len(blocks) :
        blocks[i].first + blocks[i].len <= machine.available
=============================================================================
