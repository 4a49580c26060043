-------------------------------- MODULE VirtMem --------------------------------
(***************************************************************************)
(* Page tables: virt_mm_map_addr, virt_mm_addr_unmap, virt_mm_addr_create  *)
(* and virt_mm_fork_dir of kernel/memory/virtual.c, with the growth of     *)
(* the kernel heap by malloc_sbrk of kernel/utils/stdlib.c.                *)
(*                                                                         *)
(* The last entry of a directory is the directory itself, so page tables   *)
(* are written through a window of the LOADED directory, whatever          *)
(* directory the caller names.  malloc_sbrk names the boot's; a new one    *)
(* gets the kernel's entries once, from the loaded one.  A slot is an      *)
(* entry of a directory; a page is its number, N pages in a slot.  The     *)
(* identity map of the kernel is constant and left out.  Frames are never  *)
(* given back; areas are in ProcessMem, offsets in a page in KernelHeap.   *)
(***************************************************************************)
EXTENDS Integers

CONSTANTS N,         \* PAGE_TBL_ENTRIES
          UserSlots, \* slots of programs, 0..UserSlots-1: 768
          Slots,     \* slots of a directory, the last ones for the kernel heap
          UserPage,  \* the pages programs use
          LastDir,   \* bound of the model: directories
          LastFrame, \* bound of the model: frames
          Value      \* contents of a page

ASSUME VirtMemAssumption ==
    /\ N \in Nat \ {0} /\ UserSlots \in Nat /\ Slots \in Nat /\ UserSlots < Slots
    /\ UserPage \subseteq 0..(UserSlots * N - 1)
    /\ LastDir \in Nat \ {0} /\ LastFrame \in Nat /\ 0 \in Value /\ Value \subseteq Nat

VARIABLES
    mem,      \* dirs: the slots of every directory, 0 or the frame of a table;
              \* tables: the entries of every table, 0 or a frame; next frame
    content,  \* of the frames that programs see
    brk,      \* malloc_current, in pages
    created,  \* directories created, 1 is the boot's and process 1's
    loaded,   \* the directory in CR3, that of the running process
    fork,     \* virt_mm_fork_dir under way: child, slot, its new table tbl
              \* at the page window, entry, and heap_current as at
    expected, \* history: what every process last wrote, or inherited
    crossed,  \* history: a table for a kernel slot was allocated behind the
              \* first virt_mm_addr_create
    halted    \* a page fault in the kernel
vars == <<mem, content, brk, created, loaded, fork, expected, crossed, halted>>

Dir == 1..LastDir
Frame == 1..LastFrame
Entry == 0..(LastFrame + 1)
Junk == LastFrame + 1                    \* what a table holds that nobody cleared
KernelPage == (UserSlots * N)..(Slots * N - 1)
Absent == -1                             \* not in Value
NoFork == [child |-> 0, slot |-> 0, tbl |-> 0, window |-> 0, entry |-> 0, at |-> 0]

Trans(m, d, page) ==
    LET table == m.dirs[d][page \div N] IN IF table = 0 THEN 0 ELSE m.tables[table][page % N]

TypeOK ==
    /\ mem.dirs \in [Dir -> [0..(Slots - 1) -> Entry]]
    /\ DOMAIN mem.tables \subseteq Frame /\ mem.next \in 1..(LastFrame + 1)
    /\ \A t \in DOMAIN mem.tables : mem.tables[t] \in [0..(N - 1) -> Entry]
    /\ \A d \in Dir, slot \in 0..(Slots - 1) :
           mem.dirs[d][slot] \in {0} \cup DOMAIN mem.tables
    /\ content \in [Frame -> Value]
    /\ brk \in UserSlots * N..Slots * N
    /\ created \in Dir /\ loaded \in 1..created
    /\ expected \in [Dir -> [UserPage -> Value \cup {Absent}]]
    /\ fork = NoFork \/ (fork.child = created + 1 /\ fork.at \in brk..Slots * N)
    /\ crossed \in BOOLEAN /\ halted \in BOOLEAN

-----------------------------------------------------------------------------
(* On a record m like mem                                                  *)

\* A table for the slot in directory d: its entry is d's, what is cleared is
\* the table the loaded directory has in the slot.
Cleared(m, table) == [m EXCEPT !.tables[table] = [i \in 0..(N - 1) |-> 0]]
WithTable(m, d, slot) ==
    [m EXCEPT !.dirs[d][slot] = m.next, !.next = @ + 1,
              !.tables = [t \in DOMAIN @ \cup {m.next} |->
                             IF t = m.next THEN [i \in 0..(N - 1) |-> Junk] ELSE @[t]]]
TableFor(m, d, slot) ==
    IF m.dirs[d][slot] # 0 THEN m
    ELSE LET new == WithTable(m, d, slot)
         IN  IF new.dirs[loaded][slot] = 0 THEN new ELSE Cleared(new, new.dirs[loaded][slot])

\* virt_mm_map_addr; it needs the loaded directory to have the slot.
SetEntry(m, d, page, frame) ==
    IF m.dirs[d][page \div N] = 0 THEN m
    ELSE [m EXCEPT !.tables[m.dirs[d][page \div N]][page % N] = frame]
MapAddr(m, d, page, frame) == SetEntry(TableFor(m, d, page \div N), loaded, page, frame)
MapFaults(m, d, page) == loaded # d /\ m.dirs[loaded][page \div N] = 0
NewTable(m, d, page) == IF m.dirs[d][page \div N] = 0 THEN 1 ELSE 0
Crosses(m, d, page) == page >= UserSlots * N /\ m.dirs[d][page \div N] = 0 /\ (created > 1 \/ fork # NoFork)

\* virt_mm_addr_unmap, of the loaded directory as all its callers have it
Unmap(m, page) == SetEntry(m, loaded, page, 0)

Took(m) == [m EXCEPT !.next = @ + 1]

-----------------------------------------------------------------------------
Runs == ~halted /\ fork = NoFork

\* A frame for a page of the loaded directory, as mmap_map and mmap_brk do.
MapUser(page) ==
    /\ Runs /\ mem.next + NewTable(mem, loaded, page) <= LastFrame
    /\ mem' = MapAddr(Took(mem), loaded, page, mem.next)
    /\ expected' = [expected EXCEPT ![loaded][page] = content[mem.next]]
    /\ UNCHANGED <<content, brk, created, loaded, fork, crossed, halted>>

UnmapUser(page) ==
    /\ Runs
    /\ mem' = Unmap(mem, page)
    /\ expected' = [expected EXCEPT ![loaded][page] = Absent]
    /\ UNCHANGED <<content, brk, created, loaded, fork, crossed, halted>>

\* The program writes to a page it has.
WriteUser(page, v) ==
    /\ Runs /\ expected[loaded][page] # Absent /\ Trans(mem, loaded, page) \in Frame
    /\ content' = [content EXCEPT ![Trans(mem, loaded, page)] = v]
    /\ expected' = [expected EXCEPT ![loaded][page] = v]
    /\ UNCHANGED <<mem, brk, created, loaded, fork, crossed, halted>>

\* sched_switch
Switch(d) ==
    /\ Runs /\ d # loaded
    /\ loaded' = d
    /\ UNCHANGED <<mem, content, brk, created, fork, expected, crossed, halted>>

\* One turn of malloc_sbrk's loop: a page of the heap, in virt_mm_dir_get's
\* directory.
BootDir == 1
Grow ==
    /\ Runs /\ brk < Slots * N
    /\ mem.next + NewTable(mem, BootDir, brk) <= LastFrame
    /\ mem' = MapAddr(Took(mem), BootDir, brk, mem.next)
    /\ crossed' = (crossed \/ Crosses(mem, BootDir, brk))
    /\ IF MapFaults(mem, BootDir, brk)
       THEN halted' = TRUE /\ UNCHANGED brk
       ELSE brk' = brk + 1 /\ UNCHANGED halted
    /\ UNCHANGED <<content, created, loaded, fork, expected>>

\* virt_mm_addr_create: the kernel's entries from the loaded directory, into a
\* page that the heap has grown by.
KernelSlots == UserSlots..(Slots - 1)
WindowStart == brk
AddrCreate ==
    /\ Runs /\ created < LastDir /\ brk > UserSlots * N
    /\ mem' = [mem EXCEPT !.dirs[created + 1] =
                  [slot \in 0..(Slots - 1) |-> IF slot \in KernelSlots THEN mem.dirs[loaded][slot] ELSE 0]]
    /\ fork' = [NoFork EXCEPT !.child = created + 1, !.at = WindowStart]
    /\ UNCHANGED <<content, brk, created, loaded, expected, crossed, halted>>

Forking == ~halted /\ fork # NoFork /\ fork.slot < UserSlots

\* The outer loop at a slot without a table
ForkSkip ==
    /\ Forking /\ fork.tbl = 0 /\ mem.dirs[loaded][fork.slot] = 0
    /\ fork' = [fork EXCEPT !.slot = @ + 1]
    /\ UNCHANGED <<mem, content, brk, created, loaded, expected, crossed, halted>>

\* A table for the child, cleared through a page behind the break.
ForkTable ==
    /\ Forking /\ fork.tbl = 0 /\ mem.dirs[loaded][fork.slot] # 0
    /\ fork.at < Slots * N /\ mem.next + NewTable(mem, loaded, fork.at) <= LastFrame
    /\ LET tbl == mem.next
           taken == [Took(mem) EXCEPT !.tables =
                        [t \in DOMAIN @ \cup {tbl} |-> IF t = tbl THEN [i \in 0..(N - 1) |-> 0] ELSE @[t]]]
       IN  /\ mem' = MapAddr(taken, loaded, fork.at, tbl)
           /\ fork' = [fork EXCEPT !.tbl = tbl, !.window = fork.at, !.entry = 0, !.at = @ + 1]
    /\ crossed' = (crossed \/ Crosses(mem, loaded, fork.at))
    /\ UNCHANGED <<content, brk, created, loaded, expected, halted>>

\* The inner loop: an entry is copied through two more pages, or is absent.
SharedFrame(entry, frame) == entry                  \* faulty: the parent's frame stays
ChildFrame(entry, frame) == frame
ForkEntry ==
    /\ Forking /\ fork.tbl # 0 /\ fork.entry < N
    /\ LET entry == mem.tables[mem.dirs[loaded][fork.slot]][fork.entry]
           frame == mem.next
           twice == MapAddr(MapAddr(Took(mem), loaded, fork.at, entry), loaded, fork.at + 1, frame)
       IN  IF entry = 0
           THEN /\ fork' = [fork EXCEPT !.entry = @ + 1]
                /\ UNCHANGED <<mem, content, crossed>>
           ELSE /\ fork.at + 1 < Slots * N
                /\ mem.next + NewTable(mem, loaded, fork.at) + NewTable(mem, loaded, fork.at + 1) <= LastFrame
                /\ content' = [content EXCEPT ![Trans(twice, loaded, fork.at + 1)] =
                                                  content[Trans(twice, loaded, fork.at)]]
                /\ mem' = [Unmap(Unmap(twice, fork.at), fork.at + 1)
                              EXCEPT !.tables[fork.tbl][fork.entry] = ChildFrame(entry, frame)]
                /\ fork' = [fork EXCEPT !.entry = @ + 1, !.at = @ + 2]
                /\ crossed' = (crossed \/ Crosses(mem, loaded, fork.at) \/ Crosses(mem, loaded, fork.at + 1))
    /\ UNCHANGED <<brk, created, loaded, expected, halted>>

\* The child's slot, and the table's page goes.
WindowStays(m, page) == m                           \* faulty: not unmapped
WindowGoes(m, page) == Unmap(m, page)
ForkTableEnd ==
    /\ Forking /\ fork.tbl # 0 /\ fork.entry = N
    /\ mem' = [WindowGoes(mem, fork.window) EXCEPT !.dirs[fork.child][fork.slot] = fork.tbl]
    /\ fork' = [fork EXCEPT !.slot = @ + 1, !.tbl = 0]
    /\ UNCHANGED <<content, brk, created, loaded, expected, crossed, halted>>

\* fork returns the directory and the child becomes a process.
ForkEnd ==
    /\ ~halted /\ fork # NoFork /\ fork.slot = UserSlots
    /\ created' = created + 1
    /\ expected' = [expected EXCEPT ![fork.child] = expected[loaded]]
    /\ fork' = NoFork
    /\ UNCHANGED <<mem, content, brk, loaded, crossed, halted>>

-----------------------------------------------------------------------------
\* Behind virt_mm_init, as far as it concerns these slots
Init ==
    /\ mem = [dirs |-> [d \in Dir |-> [slot \in 0..(Slots - 1) |-> 0]],
              tables |-> [t \in {} |-> 0], next |-> 1]
    /\ content = [f \in Frame |-> 0]
    /\ brk = UserSlots * N
    /\ created = 1 /\ loaded = 1
    /\ fork = NoFork
    /\ expected = [d \in Dir |-> [page \in UserPage |-> Absent]]
    /\ crossed = FALSE /\ halted = FALSE

\* The bounds of the model, or a panic
Stopped == UNCHANGED vars

Next ==
    \/ \E page \in UserPage : MapUser(page) \/ UnmapUser(page)
    \/ \E page \in UserPage, v \in Value : WriteUser(page, v)
    \/ \E d \in 1..created : Switch(d)
    \/ Grow \/ AddrCreate
    \/ ForkSkip \/ ForkTable \/ ForkEntry \/ ForkTableEnd \/ ForkEnd
    \/ Stopped

Spec == Init /\ [][Next]_vars

-----------------------------------------------------------------------------
(* Properties                                                              *)

\* As long as no table for a kernel slot was allocated behind the creation of the
\* second directory, every directory has the whole heap at the same frames, and
\* between two forks nothing behind the break.
HeapAgrees ==
    ~crossed => \A d \in 1..created, page \in KernelPage :
        /\ page < brk => Trans(mem, d, page) = Trans(mem, 1, page) /\ Trans(mem, d, page) \in Frame
        /\ page >= brk /\ fork = NoFork => Trans(mem, d, page) = 0

\* And until then growing the heap faults in no process.
GrowthNeverFaults == halted => crossed

\* Processes share the kernel's heap: all directories have it, and it can grow in
\* any of them.
KernelShared == TypeOK /\ HeapAgrees /\ GrowthNeverFaults

\* No frame a program sees is seen at another of its pages, by another
\* program, by the kernel's heap, or is a page table.
UserPrivate ==
    \A d, e \in 1..created : \A page \in UserPage :
        LET frame == Trans(mem, d, page)
        IN  frame # 0 =>
                /\ frame \notin DOMAIN mem.tables
                /\ \A other \in UserPage : (d # e \/ page # other) => Trans(mem, e, other) # frame
                /\ fork = NoFork => \A other \in KernelPage : Trans(mem, e, other) # frame

\* Every process finds in its pages what it wrote, or what its parent had there
\* at the fork, whatever the others and the kernel's heap do.
MemoryKept ==
    \A d \in 1..created, page \in UserPage :
        LET frame == Trans(mem, d, page)
        IN  IF expected[d][page] = Absent THEN frame = 0
            ELSE frame \in Frame /\ content[frame] = expected[d][page]

\* And they share nothing else.
UserMemory == UserPrivate /\ MemoryKept
=============================================================================
