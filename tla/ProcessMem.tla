------------------------------ MODULE ProcessMem ------------------------------
(***************************************************************************)
(* The memory of processes: the lists of areas and the break of            *)
(* kernel/memory/mmap.c, the loader of kernel/task/elf32.c, and what       *)
(* execve, fork, exit and brk of kernel/task/scheduler.c and               *)
(* kernel/system/syscall.c do to them.  One load at a time: execve runs    *)
(* with interrupts off, and the first process loads while it is alone.     *)
(*                                                                         *)
(* An image is the sequence of its PT_LOAD segments, or NoImage for a file *)
(* that is missing or fails elf_verify.  Every mapped page carries the     *)
(* set of what was written to it since it got its frame: the numbers of segments,  *)
(* "args" and "stack".  Frames are in PhysMem, page tables in VirtMem; an  *)
(* area never has a file, because only the loader maps.                    *)
(***************************************************************************)
EXTENDS Integers, Sequences, FiniteSetsExt

CONSTANTS LastPid,   \* bound of the model: processes 1..LastPid
          Page,      \* PHYS_MM_BLOCK
          HeapSize,  \* SCHED_HEAP_SIZE
          StackSize, \* SCHED_STACK_SIZE
          Top,       \* HEAP_USER_TOP
          Image,     \* the programs of the disk: sequences of [vaddr, memsz]
          NoImage,   \* a path without a program
          MaxArgs,   \* bound of the model: arguments and environment of an execve
          Asked      \* what programs ask brk for

ASSUME ProcessMemAssumption ==
    /\ LastPid \in Nat \ {0} /\ Page \in Nat \ {0} /\ MaxArgs \in Nat
    /\ \A n \in {HeapSize, StackSize, Top} : n \in Nat \ {0} /\ n % Page = 0
    /\ NoImage \notin Image /\ Asked \subseteq Nat
    /\ \A image \in Image : image \in Seq([vaddr : Nat, memsz : Nat])

VARIABLES
    mm,      \* process_mm of every process
    pages,   \* its mapped pages, with what they carry
    image,   \* the program it runs
    loader,  \* the load under way, with its next segment and the calls of sbrk for the arguments
    pids,    \* processes created so far
    exited,  \* processes behind sched_exit
    sane,    \* history: processes with none but well-formed images, and no
             \* break behind brk_end, in their past
    halted   \* "no", "panic", "hang" (a list without end is searched) or
             \* "corrupt" (a freed area stays in a list)
vars == <<mm, pages, image, loader, pids, exited, sane, halted>>

Proc == 1..LastPid
Area == [start : Nat, end : Nat]
NoMm == [brk_start |-> 0, brk |-> 0, brk_end |-> 0, cache |-> 0, areas |-> << >>, stack |-> 0]
Idle == [pid |-> 0, image |-> NoImage, next |-> 0, sbrks |-> 0]

PageAlign(addr) == ((addr + Page - 1) \div Page) * Page
AlignDown(addr) == (addr \div Page) * Page
PagesOf(start, end) == {n \in (start \div Page)..((end - 1) \div Page) : start < end}
Covered(area) == PagesOf(area.start, area.end)

TypeOK ==
    /\ \A p \in Proc :
           /\ \A f \in {"brk_start", "brk", "brk_end", "cache", "stack"} : mm[p][f] \in Nat
           /\ \A f \in {"brk_start", "brk", "cache", "stack"} : mm[p][f] % Page = 0
           /\ mm[p].areas \in Seq(Area)
           /\ \A i \in DOMAIN mm[p].areas : mm[p].areas[i].end % Page = 0
           /\ DOMAIN pages[p] \subseteq Nat
           /\ image[p] \in Image \cup {NoImage}
    /\ loader = Idle \/ loader.pid \in (1..pids) \ exited
    /\ pids \in Proc /\ exited \subseteq 1..pids /\ sane \subseteq Proc
    /\ halted \in {"no", "panic", "hang", "corrupt"}

-----------------------------------------------------------------------------
(* Areas: operators on a process_mm m.                                     *)

\* mmap_find_vm: the index of the area around addr, or 0.
FindVm(m, addr) ==
    LET around == {i \in DOMAIN m.areas : m.areas[i].start <= addr /\ addr < m.areas[i].end}
    IN  IF around = {} THEN 0 ELSE Min(around)

InsertAt(seq, i, x) == SubSeq(seq, 1, i - 1) \o <<x>> \o SubSeq(seq, i, Len(seq))

\* mmap_find_unmapped_vm.  In front of an area the list closes into a ring
\* (ring); where no branch fits the new area is in no list.
BaseAnywhere(m, addr) == addr                       \* faulty: hint not looked at
Base(m, addr) ==
    IF addr = 0 \/ addr < m.brk_end
    THEN IF m.cache > m.brk_end THEN m.cache ELSE m.brk_end
    ELSE addr
InFront(m, i, addr, len) == addr + len <= m.areas[i].start
Behind(m, i, addr, len) ==
    /\ addr >= m.areas[i].end
    /\ i = Len(m.areas) \/ addr + len <= m.areas[i + 1].start
InGap(m, i, addr, len) ==
    /\ i # Len(m.areas) /\ m.areas[i].end <= addr /\ addr < m.areas[i + 1].start
    /\ m.areas[i + 1].start - m.areas[i].end >= len
Fitting(m, addr, len) ==
    LET fitting == {i \in DOMAIN m.areas : \/ InFront(m, i, addr, len)
                                          \/ Behind(m, i, addr, len)
                                          \/ InGap(m, i, addr, len)}
    IN  IF fitting = {} THEN 0 ELSE Min(fitting)
NewArea(m, i, addr, len) ==
    LET found == IF i = 0 \/ InFront(m, i, addr, len) \/ Behind(m, i, addr, len)
                 THEN addr ELSE m.areas[i + 1].start - len
    IN  IF found = 0 THEN [start |-> 0, end |-> 0] ELSE [start |-> found, end |-> found + len]
CacheAtStart(m, vma) == vma.start                   \* faulty: not behind the area
Cache(m, vma) == IF vma.start = 0 THEN m.cache ELSE vma.end
ListedFirst(m, i, vma) == <<vma>> \o m.areas        \* faulty: at the head
Listed(m, i, vma) == InsertAt(m.areas, i + 1, vma)
Placed(m, i, ring, vma) ==
    [vma |-> vma,
     ring |-> ring,
     mm |-> [m EXCEPT !.areas = IF ring \/ (i = 0 /\ @ # << >>) THEN @ ELSE Listed(m, i, vma),
                      !.cache = Cache(m, vma)]]
PlacedBy(m, i, addr, len) ==
    Placed(m, i, i # 0 /\ InFront(m, i, addr, len), NewArea(m, i, addr, len))
FindUnmapped(m, hint, size) ==
    LET addr == Base(m, hint)
        len == PageAlign(size)
    IN  PlacedBy(m, Fitting(m, addr, len), addr, len)

\* mmap_expand_vm for the i-th area; "corrupt" if the area would have to move.
Fits(m, i, end) == i = Len(m.areas) \/ end <= m.areas[i + 1].start
Expand(m, i, end) ==
    IF end <= m.areas[i].end \/ ~Fits(m, i, end) THEN m ELSE [m EXCEPT !.areas[i].end = end]

\* mmap_map without a file: the area's pages, old and new, get fresh frames.
Refreshed(pg, area) == [n \in DOMAIN pg \cup Covered(area) |-> IF n \in Covered(area) THEN {} ELSE pg[n]]
MapNew(pg, new) ==
    [mm |-> new.mm, vma |-> new.vma, pages |-> Refreshed(pg, new.vma),
     halted |-> IF new.ring THEN "hang" ELSE "no"]
MapOld(m, pg, i, end) ==
    LET grown == Expand(m, i, end)
    IN  [mm |-> grown, vma |-> grown.areas[i], pages |-> Refreshed(pg, grown.areas[i]),
         halted |-> IF end > m.areas[i].end /\ ~Fits(m, i, end) THEN "corrupt" ELSE "no"]
Map(m, pg, addr, len) ==
    LET i == FindVm(m, AlignDown(addr))
    IN  IF i = 0 THEN MapNew(pg, FindUnmapped(m, AlignDown(addr), len))
                 ELSE MapOld(m, pg, i, PageAlign(addr + len))

\* The break that is asked for
NewBrk(addr) == PageAlign(addr)

\* mmap_brk: the break moves in any case, the area around brk_start only up,
\* and without a look at brk_end or at the next area.
Growth(pg, area) == Refreshed(pg, area)
Brk(m, pg, addr) ==
    LET i == FindVm(m, m.brk_start)
        new == NewBrk(addr)
        moved == [m EXCEPT !.brk = new]
    IN  IF i = 0 \/ m.areas[i].end >= new
        THEN [mm |-> moved, pages |-> pg]
        ELSE [mm |-> [moved EXCEPT !.areas[i].end = new],
              pages |-> Growth(pg, [start |-> m.areas[i].end, end |-> new])]

\* virt_mm_addr_range_unmap for every area
UnmappedFirst(m, pg) ==                             \* faulty: stops at the first area
    [n \in DOMAIN pg \ UNION {Covered(m.areas[i]) : i \in DOMAIN m.areas \cap {1}} |-> pg[n]]
Unmapped(m, pg) ==
    [n \in DOMAIN pg \ UNION {Covered(m.areas[i]) : i \in DOMAIN m.areas} |-> pg[n]]

Write(pg, touched, what) == [n \in DOMAIN pg |-> IF n \in touched THEN pg[n] \cup {what} ELSE pg[n]]

-----------------------------------------------------------------------------
Runs(p) == halted = "no" /\ loader = Idle /\ p \in (1..pids) \ exited

\* The pages a segment lies on, and what mmap_map reserves for it.
Touched(s) == PagesOf(s.vaddr, s.vaddr + s.memsz)
Reserved(s) == PagesOf(AlignDown(s.vaddr), AlignDown(s.vaddr) + PageAlign(s.memsz))

\* An image the loader is written for: it has segments, they ascend, share no page,
\* keep off page 0 and do not cross into a page more than their size needs.
WellFormed(img) ==
    /\ img # NoImage /\ img # << >>
    /\ \A i \in DOMAIN img :
           /\ img[i].vaddr >= Page /\ img[i].memsz > 0
           /\ Touched(img[i]) \subseteq Reserved(img[i])
           /\ \A j \in 1..(i - 1) : \A a \in Touched(img[j]), b \in Touched(img[i]) : a < b

\* sched_process_execve up to the loop of elf32_load; the first process comes
\* from sched_thread_entry and has no arguments.  Without an image execve's
\* first sbrk returns address 0, and the loader's other caller reads the layout.
Exec(p, img, args) ==
    /\ Runs(p)
    /\ image[p] = NoImage => args = 0
    /\ pages' = [pages EXCEPT ![p] = Unmapped(mm[p], @)]
    /\ mm' = [mm EXCEPT ![p] = NoMm]
    /\ image' = [image EXCEPT ![p] = NoImage]
    /\ loader' = [pid |-> p, image |-> img, next |-> 1,
                   sbrks |-> IF image[p] = NoImage THEN 0 ELSE args + 2]
    /\ sane' = IF WellFormed(img) THEN sane ELSE sane \ {p}
    /\ halted' = IF img = NoImage THEN "panic" ELSE "no"
    /\ UNCHANGED <<pids, exited>>

Loading == halted = "no" /\ loader # Idle

\* One turn of the loop: the segment gets its area, is cleared and copied.
Segment ==
    /\ Loading /\ loader.next <= Len(loader.image)
    /\ LET p == loader.pid
           s == loader.image[loader.next]
       IN  \E map \in {Map(mm[p], pages[p], s.vaddr, s.memsz)} :
           /\ mm' = [mm EXCEPT ![p] = map.mm]
           /\ pages' = [pages EXCEPT ![p] = Write(map.pages, Touched(s), loader.next)]
           /\ halted' = IF map.halted = "no" /\ ~(Touched(s) \subseteq DOMAIN map.pages)
                        THEN "panic" ELSE map.halted
    /\ loader' = [loader EXCEPT !.next = @ + 1]
    /\ UNCHANGED <<image, pids, exited, sane>>

\* The heap behind the segments, with the break at its start.
Heap ==
    /\ Loading /\ loader.next = Len(loader.image) + 1
    /\ LET p == loader.pid
       IN  \E map \in {Map(mm[p], pages[p], 0, HeapSize)} :
           /\ mm' = [mm EXCEPT ![p] = [map.mm EXCEPT !.brk_start = map.vma.start,
                                                     !.brk = map.vma.start, !.brk_end = Top]]
           /\ pages' = [pages EXCEPT ![p] = map.pages]
           /\ halted' = map.halted
    /\ loader' = [loader EXCEPT !.next = @ + 1]
    /\ UNCHANGED <<image, pids, exited, sane>>

\* The stack, and for an execve the arguments: an sbrk for each of the two
\* arrays and for each string, each rounded up to a page.
Stack ==
    /\ Loading /\ loader.next = Len(loader.image) + 2
    /\ LET p == loader.pid
       IN  \E map \in {Map(mm[p], pages[p], 0, StackSize)} :
           \E brk \in {Brk(map.mm, map.pages, map.mm.brk + loader.sbrks * Page)} :
           LET argsAt == PagesOf(map.mm.brk, brk.mm.brk)
               stackAt == {((map.vma.start + StackSize) \div Page) - 1}
           IN
           /\ mm' = [mm EXCEPT ![p] = [brk.mm EXCEPT !.stack = map.vma.start + StackSize]]
           /\ pages' = [pages EXCEPT ![p] = Write(Write(brk.pages, argsAt, "args"), stackAt, "stack")]
           /\ halted' = IF argsAt \subseteq DOMAIN brk.pages THEN map.halted ELSE "panic"
           /\ sane' = IF brk.mm.brk > Top THEN sane \ {p} ELSE sane
           /\ image' = [image EXCEPT ![p] = loader.image]
    /\ loader' = IF halted' = "no" THEN Idle ELSE loader
    /\ UNCHANGED <<pids, exited>>

\* syscall_brk with an address that it neither refuses nor answers at once
SetBrk(p, addr) ==
    /\ Runs(p) /\ image[p] # NoImage
    /\ addr >= mm[p].brk_start /\ addr # 0
    /\ \E brk \in {Brk(mm[p], pages[p], addr)} :
           /\ mm' = [mm EXCEPT ![p] = brk.mm]
           /\ pages' = [pages EXCEPT ![p] = brk.pages]
           /\ sane' = IF brk.mm.brk > Top THEN sane \ {p} ELSE sane
    /\ UNCHANGED <<image, loader, pids, exited, halted>>

\* sched_process_clone_mm and virt_mm_fork_dir
Fork(p) ==
    /\ Runs(p) /\ image[p] # NoImage /\ pids < LastPid
    /\ pids' = pids + 1
    /\ mm' = [mm EXCEPT ![pids'] = mm[p]]
    /\ pages' = [pages EXCEPT ![pids'] = pages[p]]
    /\ image' = [image EXCEPT ![pids'] = image[p]]
    /\ sane' = IF p \in sane THEN sane \cup {pids'} ELSE sane \ {pids'}
    /\ UNCHANGED <<loader, exited, halted>>

\* sched_exit: the areas, then the stack once more
Exit(p) ==
    /\ Runs(p) /\ p # 1
    /\ LET rest == Unmapped(mm[p], pages[p])
       IN  pages' = [pages EXCEPT ![p] =
               [n \in DOMAIN rest \ PagesOf(mm[p].stack - StackSize, mm[p].stack) |-> rest[n]]]
    /\ mm' = [mm EXCEPT ![p].areas = << >>]
    /\ exited' = exited \cup {p}
    /\ UNCHANGED <<image, loader, pids, sane, halted>>

-----------------------------------------------------------------------------
Init ==
    /\ mm = [p \in Proc |-> NoMm]
    /\ pages = [p \in Proc |-> << >>]
    /\ image = [p \in Proc |-> NoImage]
    /\ loader = Idle
    /\ pids = 1 /\ exited = {}
    /\ sane = {1}
    /\ halted = "no"

Halted == halted # "no" /\ UNCHANGED vars

Next ==
    \/ \E p \in Proc, img \in Image \cup {NoImage},
          args \in 0..MaxArgs : Exec(p, img, args)
    \/ Segment \/ Heap \/ Stack
    \/ \E p \in Proc, addr \in Asked : SetBrk(p, addr)
    \/ \E p \in Proc : Fork(p) \/ Exit(p)
    \/ Halted

Spec == Init /\ [][Next]_vars

-----------------------------------------------------------------------------
(* Properties                                                              *)

\* Where only well-formed images were loaded and no break passed brk_end, the
\* areas of a process are disjoint and in the order of their addresses, and
\* the list has the heap around brk_start.
AreasSorted ==
    \A p \in sane :
        LET areas == mm[p].areas
        IN  /\ \A i, j \in DOMAIN areas : i < j => areas[i].end <= areas[j].start
            /\ image[p] # NoImage /\ p \notin exited => FindVm(mm[p], mm[p].brk_start) # 0

\* The mapped pages of such a process are those of its areas: after any number
\* of execve, fork and exit no page is left from an earlier image, and no
\* area lacks a page.
MappedExactly ==
    \A p \in sane :
        DOMAIN pages[p] = UNION {Covered(mm[p].areas[i]) : i \in DOMAIN mm[p].areas}

\* Every page below the break can be written.
BrkBacked ==
    \A p \in sane \ exited : image[p] # NoImage =>
        /\ PagesOf(mm[p].brk_start, mm[p].brk) \subseteq DOMAIN pages[p]
        /\ mm[p].brk_start <= mm[p].brk

\* What later calls of brk and the unloading rely on.
AreasSound == TypeOK /\ AreasSorted /\ BrkBacked

\* What the loader and execve wrote is where they wrote it while the program
\* runs, whatever breaks it sets, and in a copy of it too.
ImageInPlace ==
    \A p \in sane \ exited : image[p] # NoImage =>
        /\ \A i \in DOMAIN image[p] : \A n \in Touched(image[p][i]) : i \in pages[p][n]
        /\ "stack" \in pages[p][(mm[p].stack \div Page) - 1]

\* Only the load of an image that is not well-formed stops the kernel: a missing
\* one, one without segments, or one whose segments cross a page end or do not ascend.
OnlyBadImagesHalt == halted # "no" => ~WellFormed(loader.image)
=============================================================================
