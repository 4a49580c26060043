--------------------------- MODULE ProcessMemProofs ---------------------------
(***************************************************************************)
(* The memory of processes, for every page size, every set of images and   *)
(* any number of processes.  While a well-formed image is loaded each area *)
(* is appended behind the last one; from then on the areas are those of    *)
(* the segments, the heap and the stack, in this order, and brk only moves *)
(* the end of the heap.  All arithmetic is in the facts about pages.       *)
(***************************************************************************)
EXTENDS ProcessMem, WellFoundedInduction, SequenceTheorems, TLAPS

Aligned(x) == x \in Nat /\ x % Page = 0
Boundary == {x \in Nat : Aligned(x)}
WholeArea == [start : Boundary, end : Boundary]

\* What a process_mm is.
MmOK(m) ==
    m \in [brk_start : Boundary, brk : Boundary, brk_end : Boundary, cache : Boundary,
           areas : Seq(WholeArea), stack : Boundary]

\* The area of a segment
AreaOf(s) == [start |-> AlignDown(s.vaddr), end |-> AlignDown(s.vaddr) + PageAlign(s.memsz)]

\* The first k areas are those of the first k segments, filled.
SegmentsIn(m, pg, img, k) ==
    \A i \in 1..k : /\ i \in DOMAIN m.areas /\ m.areas[i] = AreaOf(img[i])
                    /\ \A n \in Covered(AreaOf(img[i])) : n \in DOMAIN pg /\ i \in pg[n]

\* The pages are those of the areas.
Exact(m, pg) == DOMAIN pg = UNION {Covered(m.areas[i]) : i \in DOMAIN m.areas}

EndOf(m, i) == IF i = 0 THEN 0 ELSE m.areas[i].end

\* In the loop of elf32_load, next - 1 segments are behind ...
InLoop(m, pg, img, next) ==
    /\ Len(m.areas) = next - 1 /\ SegmentsIn(m, pg, img, next - 1)
    /\ m.brk_end = 0 /\ m.cache = EndOf(m, next - 1)

\* ... behind it there is the heap ...
WithHeap(m, pg, img) ==
    LET heap == m.areas[Len(img) + 1]
    IN  /\ Len(m.areas) = Len(img) + 1 /\ SegmentsIn(m, pg, img, Len(img))
        /\ heap.start = EndOf(m, Len(img)) /\ heap.end = heap.start + HeapSize
        /\ m.brk_start = heap.start /\ m.brk = heap.start /\ m.brk_end = Top
        /\ m.cache = heap.end /\ Covered(heap) \subseteq DOMAIN pg

\* ... and the stack, and brk moves the end of the heap.
Ready(m, pg, img) ==
    LET heap == m.areas[Len(img) + 1]
        stack == m.areas[Len(img) + 2]
    IN  /\ Len(m.areas) = Len(img) + 2 /\ SegmentsIn(m, pg, img, Len(img))
        /\ heap.start = EndOf(m, Len(img)) /\ heap.start < heap.end
        /\ Covered(heap) \subseteq DOMAIN pg
        /\ m.brk_start = heap.start /\ heap.start <= m.brk /\ m.brk <= heap.end
        /\ heap.end <= stack.start /\ Top <= stack.start
        /\ stack.end = stack.start + StackSize

Laid(m, pg, img) ==
    /\ Ready(m, pg, img) /\ m.stack = m.areas[Len(img) + 2].end
    /\ \E n \in DOMAIN pg : m.stack = n * Page + Page /\ "stack" \in pg[n]

LoadInv ==
    halted = "no" /\ loader # Idle /\ WellFormed(loader.image) =>
        LET m == mm[loader.pid]
            pg == pages[loader.pid]
            img == loader.image
        IN  /\ image[loader.pid] = NoImage /\ loader.next \in 1..(Len(img) + 2)
            /\ loader.next <= Len(img) + 1 => InLoop(m, pg, img, loader.next)
            /\ loader.next = Len(img) + 2 => WithHeap(m, pg, img)

\* A sane process: while it runs its program is laid out, and without one,
\* before its first load and behind sched_exit, it has no areas.
ProcInv(p) ==
    p \in sane =>
        /\ Exact(mm[p], pages[p])
        /\ p \in exited \/ (image[p] = NoImage /\ loader.pid # p) => mm[p].areas = << >>
        /\ p \notin exited /\ image[p] # NoImage =>
               WellFormed(image[p]) /\ Laid(mm[p], pages[p], image[p])

HaltInv ==
    /\ halted # "no" => loader # Idle /\ ~WellFormed(loader.image)
    /\ loader # Idle /\ loader.pid \in sane => WellFormed(loader.image)

MemInv ==
    /\ mm = [p \in Proc |-> mm[p]] /\ pages = [p \in Proc |-> pages[p]]
    /\ \A p \in Proc : MmOK(mm[p]) /\ DOMAIN pages[p] \subseteq Nat

TypeInv ==
    /\ image \in [Proc -> Image \cup {NoImage}]
    /\ loader = Idle \/ loader \in [pid : (1..pids) \ exited, image : Image \cup {NoImage},
                                    next : Nat \ {0}, sbrks : Nat]
    /\ pids \in Proc /\ exited \subseteq 1..pids /\ sane \subseteq 1..pids
    /\ halted \in {"no", "panic", "hang", "corrupt"}
    /\ halted = "no" /\ loader # Idle => loader.image \in Image

IInv == MemInv /\ TypeInv /\ HaltInv /\ LoadInv /\ \A p \in Proc : ProcInv(p)

-----------------------------------------------------------------------------
(* Numbers and pages.                                                      *)

\* A nonempty set of natural numbers has a least element.
LEMMA LeastNatural ==
    ASSUME NEW T, T \subseteq Nat, T # {}
    PROVE  \E x \in T : \A y \in T : x <= y
<1> DEFINE R == {ss \in Nat \X Nat : ss[1] < ss[2]}
<1>1. R = OpToRel(<, Nat)
    BY Zenon DEF OpToRel
<1>2. IsWellFoundedOn(R, Nat)
    BY <1>1, NatLessThanWellFounded, Zenon
<1> HIDE DEF R
<1>3. PICK x \in T : \A y \in T : ~(<<y, x>> \in R)
    BY <1>2, WFMin, Zenon
<1>4. \A a, b \in Nat : a < b => <<a, b>> \in R
    <2> TAKE a, b \in Nat
    <2> HAVE a < b
    <2>1. <<a, b>> \in Nat \X Nat /\ <<a, b>>[1] = a /\ <<a, b>>[2] = b
        OBVIOUS
    <2> QED BY <2>1, Zenon DEF R
<1>5. ASSUME NEW y \in T PROVE x <= y
    <2>1. x \in Nat /\ y \in Nat
        OBVIOUS
    <2>2. ~(y < x)
        BY <1>3, <1>4, <2>1, Zenon
    <2> QED BY <2>1, <2>2
<1> QED BY <1>5

\* What the proofs use of the constants.
LEMMA Sizes ==
    /\ Page \in Nat \ {0} /\ HeapSize \in Nat \ {0} /\ StackSize \in Nat \ {0} /\ Top \in Nat \ {0}
    /\ Aligned(Page) /\ Aligned(HeapSize) /\ Aligned(StackSize) /\ Aligned(Top) /\ Aligned(0)
<1>1. Page \in Nat \ {0} /\ HeapSize \in Nat \ {0} /\ StackSize \in Nat \ {0} /\ Top \in Nat \ {0}
    BY ProcessMemAssumption
<1>2. HeapSize % Page = 0 /\ StackSize % Page = 0 /\ Top % Page = 0
    BY ProcessMemAssumption
<1>3. Page % Page = 0 /\ 0 % Page = 0
    BY <1>1
<1> QED BY <1>1, <1>2, <1>3 DEF Aligned

\* The multiples of Page, and how they follow one another.
LEMMA Multiples ==
    ASSUME NEW k \in Nat, NEW x \in Nat
    PROVE  /\ Aligned(k * Page)
           /\ k * Page < x /\ Aligned(x) => k * Page + Page <= x
           /\ x < k * Page + Page /\ Aligned(x) => x <= k * Page
           /\ (k + 1) * Page = k * Page + Page
<1>1. Page \in Nat \ {0}
    BY Sizes
<1>2. k * Page \in Nat /\ (k * Page) % Page = 0
    BY <1>1
<1>3. (k + 1) * Page = k * Page + Page
    BY <1>1
<1>4. ASSUME Aligned(x)
      PROVE  /\ k * Page < x => k * Page + Page <= x
             /\ x < k * Page + Page => x <= k * Page
    <2> DEFINE n == x \div Page
    <2>1. n \in Nat /\ x = n * Page
        BY <1>1, <1>4 DEF Aligned
    <2> HIDE DEF n
    <2>2. CASE n <= k
        <3>1. n * Page <= k * Page
            BY <1>1, <2>1, <2>2
        <3> QED BY <1>1, <1>2, <2>1, <3>1
    <2>3. CASE n >= k + 1
        <3>1. n * Page >= (k + 1) * Page
            BY <1>1, <2>1, <2>3
        <3> QED BY <1>1, <1>2, <1>3, <2>1, <3>1
    <2> QED BY <2>1, <2>2, <2>3
<1> QED BY <1>2, <1>3, <1>4 DEF Aligned

\* A page boundary is a multiple of Page.
LEMMA AlignedIs ==
    ASSUME NEW x, Aligned(x)
    PROVE  \E k \in Nat : x = k * Page
<1>1. Page \in Nat \ {0}
    BY Sizes
<1>2. x \div Page \in Nat /\ x = (x \div Page) * Page
    BY <1>1 DEF Aligned
<1> QED BY <1>2

\* Sums of page boundaries are some.
LEMMA AlignedSum ==
    ASSUME NEW x, NEW y, Aligned(x), Aligned(y)
    PROVE  Aligned(x + y) /\ (y <= x => Aligned(x - y)) /\ (x < y => x + Page <= y)
<1>1. Page \in Nat \ {0} /\ x \in Nat /\ y \in Nat
    BY Sizes DEF Aligned
<1>2. PICK k \in Nat : x = k * Page
    BY AlignedIs
<1>3. PICK l \in Nat : y = l * Page
    BY AlignedIs
<1>4. x + y = (k + l) * Page /\ x - y = (k - l) * Page
    BY <1>1, <1>2, <1>3
<1>5. Aligned(x + y)
    BY <1>4, Multiples
<1>6. ASSUME y <= x PROVE Aligned(x - y)
    <2>1. CASE l <= k
        <3>1. k - l \in Nat
            BY <2>1
        <3> QED BY <1>4, <3>1, Multiples
    <2>2. CASE ~(l <= k)
        <3>1. k + 1 <= l
            BY <2>2
        <3>2. (k + 1) * Page <= l * Page
            BY <1>1, <3>1
        <3>3. (k + 1) * Page = k * Page + Page
            BY Multiples
        <3> QED BY <1>1, <1>2, <1>3, <1>6, <3>2, <3>3
    <2> QED BY <2>1, <2>2
<1>7. x < y => x + Page <= y
    BY <1>1, <1>2, Multiples
<1> QED BY <1>5, <1>6, <1>7

\* Rounding to page boundaries
LEMMA Rounding ==
    ASSUME NEW a \in Nat
    PROVE  /\ Aligned(PageAlign(a)) /\ a <= PageAlign(a) /\ PageAlign(a) < a + Page
           /\ Aligned(AlignDown(a)) /\ AlignDown(a) <= a /\ a < AlignDown(a) + Page
<1>1. Page \in Nat \ {0}
    BY Sizes
<1>2. \A b \in Nat : /\ b \div Page \in Nat
                     /\ (b \div Page) * Page <= b /\ b < (b \div Page) * Page + Page
    BY <1>1
<1>3. a + Page - 1 \in Nat
    BY <1>1
<1>4. \A b \in Nat : Aligned((b \div Page) * Page)
    BY <1>2, Multiples
<1>5. Aligned(PageAlign(a)) /\ Aligned(AlignDown(a))
    BY <1>3, <1>4, Zenon DEF PageAlign, AlignDown
<1>6. AlignDown(a) <= a /\ a < AlignDown(a) + Page
    BY <1>2, Zenon DEF AlignDown
<1>7. PageAlign(a) <= a + Page - 1 /\ a + Page - 1 < PageAlign(a) + Page
    BY <1>2, <1>3, Zenon DEF PageAlign
<1>8. PageAlign(a) \in Nat
    BY <1>5 DEF Aligned
<1> QED BY <1>1, <1>5, <1>6, <1>7, <1>8

\* The pages from start to end
LEMMA InPages ==
    ASSUME NEW a \in Nat, NEW b \in Nat, NEW n
    PROVE  n \in PagesOf(a, b) <=> n \in Nat /\ a < b /\ a < n * Page + Page /\ n * Page < b
<1>1. Page \in Nat \ {0}
    BY Sizes
<1>2. \A c \in Nat : /\ c \div Page \in Nat
                     /\ (c \div Page) * Page <= c /\ c < (c \div Page) * Page + Page
    BY <1>1
<1>3. \A c, k \in Nat : k <= c \div Page <=> k * Page <= c
    <2> TAKE c, k \in Nat
    <2> DEFINE q == c \div Page
    <2>1. q \in Nat /\ q * Page <= c /\ c < q * Page + Page
        BY <1>2
    <2> HIDE DEF q
    <2>2. k <= q => k * Page <= q * Page
        BY <1>1, <2>1
    <2>3. q + 1 <= k => (q + 1) * Page <= k * Page
        BY <1>1, <2>1
    <2>4. (q + 1) * Page = q * Page + Page
        BY <2>1, Multiples
    <2>5. k * Page \in Nat /\ q * Page \in Nat
        BY <1>1, <2>1
    <2>6. k <= q <=> k * Page <= c
        BY <1>1, <2>1, <2>2, <2>3, <2>4, <2>5
    <2> QED BY <2>6 DEF q
<1>4. CASE a < b
    <2>1. b - 1 \in Nat
        BY <1>4
    <2>2. n \in PagesOf(a, b) <=> n \in (a \div Page)..((b - 1) \div Page)
        BY <1>4 DEF PagesOf
    <2>3. (b - 1) \div Page \in Nat /\ a \div Page \in Nat
        BY <1>2, <2>1
    <2>4. n \in PagesOf(a, b) <=> n \in Nat /\ a \div Page <= n /\ n <= (b - 1) \div Page
        BY <2>2, <2>3
    <2>5. ASSUME n \in Nat
          PROVE  /\ n <= (b - 1) \div Page <=> n * Page < b
                 /\ a \div Page <= n <=> a < n * Page + Page
        <3>1. n <= (b - 1) \div Page <=> n * Page <= b - 1
            BY <1>3, <2>1, <2>5
        <3>2. n + 1 <= a \div Page <=> (n + 1) * Page <= a
            BY <1>3, <2>5
        <3>3. (n + 1) * Page = n * Page + Page /\ n * Page \in Nat
            BY <1>1, <2>5, Multiples
        <3> QED BY <1>1, <2>3, <2>5, <3>1, <3>2, <3>3
    <2> QED BY <1>4, <2>4, <2>5
<1>5. CASE ~(a < b)
    BY <1>5 DEF PagesOf
<1> QED BY <1>4, <1>5

\* Between page boundaries these are whole pages.
LEMMA WholePages ==
    ASSUME NEW a, NEW b, NEW n, Aligned(a), Aligned(b)
    PROVE  n \in PagesOf(a, b) <=> n \in Nat /\ a <= n * Page /\ n * Page + Page <= b
<1>1. Page \in Nat \ {0} /\ a \in Nat /\ b \in Nat
    BY Sizes DEF Aligned
<1>2. n \in PagesOf(a, b) <=> n \in Nat /\ a < b /\ a < n * Page + Page /\ n * Page < b
    BY <1>1, InPages
<1>3. ASSUME n \in Nat
      PROVE  /\ a < n * Page + Page <=> a <= n * Page
             /\ n * Page < b <=> n * Page + Page <= b
    <2>1. n * Page \in Nat
        BY <1>1, <1>3
    <2>2. a < n * Page + Page => a <= n * Page
        BY <1>1, <1>3, Multiples
    <2>3. n * Page < b => n * Page + Page <= b
        BY <1>1, <1>3, Multiples
    <2> QED BY <1>1, <2>1, <2>2, <2>3
<1>4. n \in Nat => n * Page \in Nat
    BY <1>1
<1> QED BY <1>1, <1>2, <1>3, <1>4

\* The first and the last of them
LEMMA EndPages ==
    ASSUME NEW a, NEW b, Aligned(a), Aligned(b), a < b
    PROVE  /\ \E n \in PagesOf(a, b) : n \in Nat /\ a = n * Page
           /\ \E n \in PagesOf(a, b) : n \in Nat /\ b = n * Page + Page
<1>1. Page \in Nat \ {0} /\ a \in Nat /\ b \in Nat
    BY Sizes DEF Aligned
<1>2. PICK k \in Nat : a = k * Page
    BY AlignedIs
<1>3. PICK l \in Nat : b = l * Page
    BY AlignedIs
<1>4. a + Page <= b
    BY AlignedSum
<1>5. k \in PagesOf(a, b)
    BY <1>1, <1>2, <1>4, WholePages
<1>6. l # 0
    BY <1>1, <1>3, <1>4
<1>7. l - 1 \in Nat /\ (l - 1) * Page + Page = l * Page
    <2>1. l - 1 \in Nat
        BY <1>6
    <2>2. ((l - 1) + 1) * Page = (l - 1) * Page + Page
        BY <2>1, Multiples
    <2> QED BY <2>1, <2>2
<1>8. (l - 1) * Page \in Nat
    BY <1>1, <1>7
<1>9. a <= (l - 1) * Page
    BY <1>1, <1>3, <1>4, <1>7, <1>8
<1>10. l - 1 \in PagesOf(a, b)
    BY <1>3, <1>7, <1>9, WholePages
<1> QED BY <1>2, <1>3, <1>5, <1>7, <1>10

\* A range is its parts.
LEMMA Parts ==
    ASSUME NEW a, NEW b, NEW c, Aligned(a), Aligned(b), Aligned(c), a <= b, b <= c
    PROVE  PagesOf(a, c) = PagesOf(a, b) \cup PagesOf(b, c)
<1>1. Page \in Nat \ {0} /\ a \in Nat /\ b \in Nat /\ c \in Nat
    BY Sizes DEF Aligned
<1>2. ASSUME NEW n \in Nat
      PROVE  n * Page \in Nat /\ (n * Page < b => n * Page + Page <= b)
    BY <1>1, Multiples
<1>3. ASSUME NEW n
      PROVE  n \in PagesOf(a, c) <=> n \in PagesOf(a, b) \/ n \in PagesOf(b, c)
    <2>1. /\ n \in PagesOf(a, c) <=> n \in Nat /\ a <= n * Page /\ n * Page + Page <= c
          /\ n \in PagesOf(a, b) <=> n \in Nat /\ a <= n * Page /\ n * Page + Page <= b
          /\ n \in PagesOf(b, c) <=> n \in Nat /\ b <= n * Page /\ n * Page + Page <= c
        BY WholePages
    <2> QED BY <1>1, <1>2, <2>1
<1>4. \A n : n \in PagesOf(a, c) <=> n \in PagesOf(a, b) \/ n \in PagesOf(b, c)
    BY <1>3
<1> QED BY <1>4, Zenon

\* Ranges one behind the other share no page.
LEMMA Apart ==
    ASSUME NEW a, NEW b, NEW c, NEW d, NEW n,
           Aligned(a), Aligned(b), Aligned(c), Aligned(d), b <= c, n \in PagesOf(a, b)
    PROVE  n \notin PagesOf(c, d)
<1>1. Page \in Nat \ {0} /\ b \in Nat /\ c \in Nat
    BY Sizes DEF Aligned
<1>2. n \in Nat /\ n * Page + Page <= b
    BY WholePages
<1>3. n \in PagesOf(c, d) => c <= n * Page
    BY WholePages
<1>4. n * Page \in Nat
    BY <1>1, <1>2
<1> QED BY <1>1, <1>2, <1>3, <1>4

\* Pages are numbers.
LEMMA PagesAreNat ==
    ASSUME NEW a \in Nat, NEW b \in Nat
    PROVE  PagesOf(a, b) \subseteq Nat
  BY InPages

-----------------------------------------------------------------------------
(* The segments of well-formed images.                                     *)

SegmentType == [vaddr : Nat, memsz : Nat]

\* What an image is
LEMMA ImageIs ==
    ASSUME NEW img \in Image
    PROVE  img \in Seq(SegmentType) /\ img # NoImage
  BY ProcessMemAssumption DEF SegmentType

\* A segment's area is of whole pages.
LEMMA AreaOfIs ==
    ASSUME NEW s \in SegmentType
    PROVE  /\ AreaOf(s) \in Area /\ Aligned(AreaOf(s).start) /\ Aligned(AreaOf(s).end)
           /\ AreaOf(s).start = AlignDown(s.vaddr)
           /\ AreaOf(s).end = AlignDown(s.vaddr) + PageAlign(s.memsz)
           /\ Covered(AreaOf(s)) = Reserved(s)
           /\ s.memsz > 0 => AreaOf(s).start < AreaOf(s).end
           /\ s.vaddr >= Page => AreaOf(s).start >= Page
<1>1. s.vaddr \in Nat /\ s.memsz \in Nat
    BY DEF SegmentType
<1>2. Page \in Nat \ {0} /\ Aligned(Page)
    BY Sizes
<1>3. /\ AreaOf(s).start = AlignDown(s.vaddr)
      /\ AreaOf(s).end = AlignDown(s.vaddr) + PageAlign(s.memsz)
    BY DEF AreaOf
<1>4. /\ Aligned(AlignDown(s.vaddr)) /\ s.vaddr < AlignDown(s.vaddr) + Page
      /\ Aligned(PageAlign(s.memsz)) /\ s.memsz <= PageAlign(s.memsz)
    BY <1>1, Rounding
<1>5. Aligned(AlignDown(s.vaddr) + PageAlign(s.memsz))
    BY <1>4, AlignedSum
<1>6. AlignDown(s.vaddr) \in Nat /\ PageAlign(s.memsz) \in Nat
    BY <1>4 DEF Aligned
<1>7. AreaOf(s) \in Area
    BY <1>6 DEF AreaOf, Area
<1>8. Covered(AreaOf(s)) = Reserved(s)
    BY <1>3, Zenon DEF Covered, Reserved
<1>9. s.memsz > 0 => AreaOf(s).start < AreaOf(s).end
    BY <1>1, <1>3, <1>4, <1>6
<1>10. s.vaddr >= Page => AreaOf(s).start >= Page
    <2>1. AlignDown(s.vaddr) < Page => AlignDown(s.vaddr) + Page <= Page
        BY <1>2, <1>4, AlignedSum
    <2> QED BY <1>1, <1>2, <1>3, <1>4, <1>6, <2>1
<1> QED BY <1>3, <1>4, <1>5, <1>7, <1>8, <1>9, <1>10

\* A segment lies on every page that is reserved for it.
LEMMA ReservedIsTouched ==
    ASSUME NEW s \in SegmentType, s.memsz > 0
    PROVE  Reserved(s) \subseteq Touched(s)
<1> DEFINE a == AlignDown(s.vaddr)
           l == PageAlign(s.memsz)
<1>1. s.vaddr \in Nat /\ s.memsz \in Nat /\ Page \in Nat \ {0}
    BY Sizes DEF SegmentType
<1>2. /\ Aligned(a) /\ a <= s.vaddr /\ s.vaddr < a + Page
      /\ Aligned(l) /\ s.memsz <= l /\ l < s.memsz + Page
    BY <1>1, Rounding
<1>3. Aligned(a + l)
    BY <1>2, AlignedSum
<1>4. a \in Nat /\ l \in Nat
    BY <1>2 DEF Aligned
<1> HIDE DEF a, l
<1>5. ASSUME NEW n \in PagesOf(a, a + l) PROVE n \in PagesOf(s.vaddr, s.vaddr + s.memsz)
    <2>1. n \in Nat /\ a <= n * Page /\ n * Page + Page <= a + l
        BY <1>2, <1>3, <1>5, WholePages
    <2>2. n * Page \in Nat
        BY <1>1, <2>1
    <2>3. s.vaddr < n * Page + Page /\ n * Page < s.vaddr + s.memsz
        BY <1>1, <1>2, <1>4, <2>1, <2>2
    <2>4. s.vaddr + s.memsz \in Nat /\ s.vaddr < s.vaddr + s.memsz
        BY <1>1
    <2> QED BY <1>1, <2>1, <2>3, <2>4, InPages
<1> QED BY <1>5 DEF Reserved, Touched, a, l

\* The areas of well-formed segments are in the order of their addresses.
LEMMA SegmentsAscend ==
    ASSUME NEW img \in Image, WellFormed(img)
    PROVE  \A i \in DOMAIN img :
              /\ img[i] \in SegmentType
              /\ Aligned(AreaOf(img[i]).start) /\ Aligned(AreaOf(img[i]).end)
              /\ Page <= AreaOf(img[i]).start /\ AreaOf(img[i]).start < AreaOf(img[i]).end
              /\ Touched(img[i]) = Covered(AreaOf(img[i]))
              /\ \A j \in 1..(i - 1) : j \in DOMAIN img /\ AreaOf(img[j]).end <= AreaOf(img[i]).start
<1>1. img \in Seq(SegmentType)
    BY ImageIs
<1>2. ASSUME NEW i \in DOMAIN img
      PROVE  /\ img[i] \in SegmentType /\ img[i].memsz > 0 /\ img[i].vaddr >= Page
             /\ Aligned(AreaOf(img[i]).start) /\ Aligned(AreaOf(img[i]).end)
             /\ Page <= AreaOf(img[i]).start /\ AreaOf(img[i]).start < AreaOf(img[i]).end
             /\ Touched(img[i]) = Covered(AreaOf(img[i]))
    <2>1. img[i] \in SegmentType
        BY <1>1
    <2>2. img[i].memsz > 0 /\ img[i].vaddr >= Page /\ Touched(img[i]) \subseteq Reserved(img[i])
        BY DEF WellFormed
    <2>3. /\ Aligned(AreaOf(img[i]).start) /\ Aligned(AreaOf(img[i]).end)
          /\ Page <= AreaOf(img[i]).start /\ AreaOf(img[i]).start < AreaOf(img[i]).end
          /\ Covered(AreaOf(img[i])) = Reserved(img[i])
        BY <2>1, <2>2, AreaOfIs, Sizes DEF SegmentType
    <2>4. Reserved(img[i]) \subseteq Touched(img[i])
        BY <2>1, <2>2, ReservedIsTouched
    <2> QED BY <2>1, <2>2, <2>3, <2>4
<1>3. ASSUME NEW i \in DOMAIN img, NEW j \in 1..(i - 1)
      PROVE  j \in DOMAIN img /\ AreaOf(img[j]).end <= AreaOf(img[i]).start
    <2>1. j \in DOMAIN img
        BY <1>1
    <2>2. \A a \in Touched(img[j]), b \in Touched(img[i]) : a < b
        BY DEF WellFormed
    <2> DEFINE aj == AreaOf(img[j])
               ai == AreaOf(img[i])
    <2>3. /\ Aligned(aj.start) /\ Aligned(aj.end) /\ aj.start < aj.end
          /\ Aligned(ai.start) /\ Aligned(ai.end) /\ ai.start < ai.end
          /\ Touched(img[j]) = PagesOf(aj.start, aj.end) /\ Touched(img[i]) = PagesOf(ai.start, ai.end)
        BY <1>2, <2>1 DEF Covered
    <2> HIDE DEF ai, aj
    <2>4. PICK n \in PagesOf(aj.start, aj.end) : n \in Nat /\ aj.end = n * Page + Page
        BY <2>3, EndPages
    <2>5. PICK k \in PagesOf(ai.start, ai.end) : k \in Nat /\ ai.start = k * Page
        BY <2>3, EndPages
    <2>6. n < k
        BY <2>2, <2>3
    <2>7. n * Page + Page <= k * Page
        <3>1. n + 1 <= k /\ Page \in Nat \ {0}
            BY <2>4, <2>5, <2>6, Sizes
        <3>2. (n + 1) * Page <= k * Page
            BY <2>4, <2>5, <3>1
        <3> QED BY <2>4, <3>2, Multiples
    <2>8. aj.end <= ai.start
        BY <2>4, <2>5, <2>7
    <2> QED BY <2>1, <2>8 DEF ai, aj
<1> QED BY <1>2, <1>3

-----------------------------------------------------------------------------
(* What the operations on a process_mm return, whatever the image.         *)

\* The least element is one.
LEMMA LeastIn ==
    ASSUME NEW T, T \subseteq Nat, T # {}
    PROVE  Min(T) \in T
<1>1. \E x \in T : \A y \in T : x <= y
    BY LeastNatural
<1> QED BY <1>1 DEF Min

Around(m, i, addr) == m.areas[i].start <= addr /\ addr < m.areas[i].end

\* mmap_find_vm finds an area around the address, and none where there is none.
LEMMA FindVmIs ==
    ASSUME NEW m, m.areas \in Seq(WholeArea), NEW addr
    PROVE  /\ FindVm(m, addr) # 0 => FindVm(m, addr) \in DOMAIN m.areas
                                     /\ Around(m, FindVm(m, addr), addr)
           /\ FindVm(m, addr) = 0 <=> \A i \in DOMAIN m.areas : ~Around(m, i, addr)
<1> DEFINE around == {i \in DOMAIN m.areas : m.areas[i].start <= addr /\ addr < m.areas[i].end}
<1>1. around \subseteq Nat \ {0}
    OBVIOUS
<1>2. FindVm(m, addr) = IF around = {} THEN 0 ELSE Min(around)
    BY Zenon DEF FindVm
<1>3. \A i : i \in around <=> i \in DOMAIN m.areas /\ Around(m, i, addr)
    BY DEF Around
<1> HIDE DEF around
<1>4. around # {} => Min(around) \in around
    BY <1>1, LeastIn
<1> QED BY <1>1, <1>2, <1>3, <1>4

\* An insertion keeps a sequence one of its kind.
LEMMA InsertAtType ==
    ASSUME NEW S, NEW seq \in Seq(S), NEW i \in 0..Len(seq), NEW x \in S
    PROVE  InsertAt(seq, i + 1, x) \in Seq(S)
<1>1. (i + 1) - 1 = i
    OBVIOUS
<1>2. InsertAt(seq, i + 1, x) = SubSeq(seq, 1, i) \o <<x>> \o SubSeq(seq, i + 1, Len(seq))
    BY <1>1, Zenon DEF InsertAt
<1> DEFINE s == SubSeq(seq, 1, i)
           t == <<x>>
           u == SubSeq(seq, i + 1, Len(seq))
<1>3. s \in Seq(S) /\ t \in Seq(S) /\ u \in Seq(S)
    OBVIOUS
<1>4. InsertAt(seq, i + 1, x) = s \o t \o u
    BY <1>2
<1> HIDE DEF s, t, u
<1>5. s \o t \o u \in Seq(S)
    BY <1>3
<1> QED BY <1>4, <1>5

\* Page boundaries are closed under what the code does with them.
LEMMA Boundaries ==
    /\ \A x, y \in Boundary : x \in Nat /\ x + y \in Boundary /\ (y <= x => x - y \in Boundary)
    /\ \A a \in Nat : PageAlign(a) \in Boundary /\ AlignDown(a) \in Boundary
    /\ 0 \in Boundary
<1>1. \A x : x \in Boundary <=> Aligned(x)
    BY DEF Boundary, Aligned
<1>2. ASSUME NEW x \in Boundary, NEW y \in Boundary
      PROVE  x \in Nat /\ x + y \in Boundary /\ (y <= x => x - y \in Boundary)
    BY <1>1, AlignedSum DEF Boundary
<1>3. ASSUME NEW a \in Nat PROVE PageAlign(a) \in Boundary /\ AlignDown(a) \in Boundary
    BY <1>1, Rounding
<1>4. 0 \in Boundary
    BY <1>1, Sizes
<1> QED BY <1>2, <1>3, <1>4

\* What an area covers
LEMMA AreasArePages ==
    ASSUME NEW a \in WholeArea
    PROVE  Covered(a) \subseteq Nat /\ a.start \in Boundary /\ a.end \in Boundary
<1>1. a.start \in Boundary /\ a.end \in Boundary
    BY DEF WholeArea
<1>2. a.start \in Nat /\ a.end \in Nat
    BY <1>1 DEF Boundary
<1>3. PagesOf(a.start, a.end) \subseteq Nat
    BY <1>2, PagesAreNat
<1> QED BY <1>1, <1>3 DEF Covered

\* What the fields of a process_mm are
LEMMA MmFields ==
    ASSUME NEW m, MmOK(m)
    PROVE  /\ m.brk_start \in Boundary /\ m.brk \in Boundary /\ m.brk_end \in Boundary
           /\ m.cache \in Boundary /\ m.stack \in Boundary
           /\ m.areas \in Seq(WholeArea)
           /\ \A i \in DOMAIN m.areas : m.areas[i] \in WholeArea
  BY DEF MmOK

\* What a call of mmap_map returns.
MapOK(map) ==
    /\ MmOK(map.mm) /\ map.vma \in WholeArea /\ DOMAIN map.pages \subseteq Nat
    /\ map.halted \in {"no", "panic", "hang", "corrupt"}

\* mmap_map returns these without an area around the address ...
LEMMA MapNewType ==
    ASSUME NEW m, MmOK(m), NEW pg, DOMAIN pg \subseteq Nat, NEW hint \in Boundary, NEW size \in Nat
    PROVE  MapOK(MapNew(pg, FindUnmapped(m, hint, size)))
<1> DEFINE addr == Base(m, hint)
           len == PageAlign(size)
           i == Fitting(m, addr, len)
           vma == NewArea(m, i, addr, len)
           ring == i # 0 /\ InFront(m, i, addr, len)
           new == Placed(m, i, ring, vma)
<1>1. FindUnmapped(m, hint, size) = new
    BY Zenon DEF FindUnmapped, PlacedBy
<1>2. len \in Boundary
    BY Boundaries
<1>3. addr \in Boundary
    BY MmFields, Zenon DEF Base
<1> HIDE DEF addr, len
<1>4. i = 0 \/ (i \in DOMAIN m.areas
                /\ (InFront(m, i, addr, len) \/ Behind(m, i, addr, len) \/ InGap(m, i, addr, len)))
    <2> DEFINE fitting == {k \in DOMAIN m.areas : \/ InFront(m, k, addr, len)
                                                 \/ Behind(m, k, addr, len)
                                                 \/ InGap(m, k, addr, len)}
    <2>1. i = IF fitting = {} THEN 0 ELSE Min(fitting)
        BY Zenon DEF Fitting
    <2>2. fitting \subseteq Nat
        BY MmFields
    <2>3. \A k \in fitting : k \in DOMAIN m.areas
                /\ (InFront(m, k, addr, len) \/ Behind(m, k, addr, len) \/ InGap(m, k, addr, len))
        OBVIOUS
    <2> HIDE DEF fitting, i
    <2>4. fitting # {} => Min(fitting) \in fitting
        BY <2>2, LeastIn
    <2> QED BY <2>1, <2>3, <2>4, Zenon
<1> HIDE DEF i
<1>5. vma \in WholeArea
    <2> DEFINE found == IF i = 0 \/ InFront(m, i, addr, len) \/ Behind(m, i, addr, len)
                        THEN addr ELSE m.areas[i + 1].start - len
    <2>1. found \in Boundary
        <3>1. CASE i = 0 \/ InFront(m, i, addr, len) \/ Behind(m, i, addr, len)
            BY <1>3, <3>1
        <3>2. CASE ~(i = 0 \/ InFront(m, i, addr, len) \/ Behind(m, i, addr, len))
            <4>1. /\ i \in DOMAIN m.areas /\ i # Len(m.areas)
                  /\ m.areas[i + 1].start - m.areas[i].end >= len
                BY <1>4, <3>2, Zenon DEF InGap
            <4>2. i + 1 \in DOMAIN m.areas
                BY <4>1, MmFields
            <4>3. m.areas[i].end \in Boundary /\ m.areas[i + 1].start \in Boundary
                BY <4>1, <4>2, MmFields, AreasArePages
            <4>4. len <= m.areas[i + 1].start
                BY <1>2, <4>1, <4>3 DEF Boundary
            <4>5. m.areas[i + 1].start - len \in Boundary
                BY <1>2, <4>3, <4>4, Boundaries
            <4> QED BY <3>2, <4>5
        <3> QED BY <3>1, <3>2
    <2>2. vma = IF found = 0 THEN [start |-> 0, end |-> 0] ELSE [start |-> found, end |-> found + len]
        BY Zenon DEF NewArea
    <2> HIDE DEF found
    <2>3. found + len \in Boundary /\ 0 \in Boundary
        BY <1>2, <2>1, Boundaries
    <2> QED BY <2>1, <2>2, <2>3 DEF WholeArea
<1> HIDE DEF vma
<1>6. Listed(m, i, vma) \in Seq(WholeArea)
    <2>1. i \in 0..Len(m.areas) /\ m.areas \in Seq(WholeArea)
        BY <1>4, MmFields
    <2> QED BY <1>5, <2>1, InsertAtType DEF Listed
<1>7. Cache(m, vma) \in Boundary
    BY <1>5, MmFields, AreasArePages DEF Cache
<1> HIDE DEF ring
<1>8. /\ new.vma = vma
      /\ new.mm = [m EXCEPT !.areas = IF ring \/ (i = 0 /\ @ # << >>) THEN @ ELSE Listed(m, i, vma),
                            !.cache = Cache(m, vma)]
    BY DEF Placed
<1> HIDE DEF new
<1>9. MmOK(new.mm)
    BY <1>6, <1>7, <1>8 DEF MmOK
<1> DEFINE map == MapNew(pg, new)
<1>10. /\ map.mm = new.mm /\ map.vma = new.vma
       /\ DOMAIN map.pages = DOMAIN pg \cup Covered(new.vma)
       /\ map.halted \in {"no", "hang"}
    BY DEF MapNew, Refreshed
<1>11. Covered(new.vma) \subseteq Nat
    BY <1>5, <1>8, AreasArePages
<1> HIDE DEF map
<1>12. MapOK(map)
    BY <1>5, <1>8, <1>9, <1>10, <1>11 DEF MapOK
<1> QED BY <1>1, <1>12 DEF map

\* ... and with one.
LEMMA MapType ==
    ASSUME NEW m, MmOK(m), NEW pg, DOMAIN pg \subseteq Nat, NEW addr \in Nat, NEW size \in Nat
    PROVE  MapOK(Map(m, pg, addr, size))
<1> DEFINE i == FindVm(m, AlignDown(addr))
           end == PageAlign(addr + size)
<1>1. AlignDown(addr) \in Boundary /\ end \in Boundary
    <2>1. addr + size \in Nat
        OBVIOUS
    <2> QED BY <2>1, Boundaries
<1>2. Map(m, pg, addr, size) = IF i = 0 THEN MapNew(pg, FindUnmapped(m, AlignDown(addr), size))
                                        ELSE MapOld(m, pg, i, end)
    BY Zenon DEF Map
<1>3. i # 0 => i \in DOMAIN m.areas
    BY MmFields, FindVmIs, Zenon
<1> HIDE DEF i, end
<1>4. CASE i = 0
    BY <1>1, <1>2, <1>4, MapNewType
<1>5. CASE i # 0
    <2> DEFINE grown == Expand(m, i, end)
               map == MapOld(m, pg, i, end)
    <2>1. i \in DOMAIN m.areas
        BY <1>3, <1>5
    <2>2. MmOK(grown)
        <3>1. MmOK([m EXCEPT !.areas[i].end = end])
            <4>1. [m.areas[i] EXCEPT !.end = end] \in WholeArea
                BY <1>1, <2>1, MmFields DEF WholeArea
            <4>2. [m.areas EXCEPT ![i] = [m.areas[i] EXCEPT !.end = end]] \in Seq(WholeArea)
                BY <2>1, <4>1, MmFields
            <4>3. [m EXCEPT !.areas[i].end = end] =
                  [m EXCEPT !.areas = [m.areas EXCEPT ![i] = [m.areas[i] EXCEPT !.end = end]]]
                OBVIOUS
            <4> QED BY <4>2, <4>3 DEF MmOK
        <3>2. grown = m \/ grown = [m EXCEPT !.areas[i].end = end]
            BY DEF Expand
        <3> QED BY <3>1, <3>2, Zenon
    <2>3. grown.areas[i] \in WholeArea
        <3>1. DOMAIN grown.areas = DOMAIN m.areas
            BY DEF Expand, MmOK
        <3> QED BY <2>1, <2>2, <3>1, MmFields
    <2> HIDE DEF grown
    <2>4. /\ map.mm = grown /\ map.vma = grown.areas[i]
          /\ DOMAIN map.pages = DOMAIN pg \cup Covered(grown.areas[i])
          /\ map.halted \in {"no", "corrupt"}
        BY DEF MapOld, Refreshed, grown
    <2>5. Covered(grown.areas[i]) \subseteq Nat
        BY <2>3, AreasArePages
    <2> HIDE DEF map
    <2>6. MapOK(map)
        BY <2>2, <2>3, <2>4, <2>5 DEF MapOK
    <2> QED BY <1>2, <1>5, <2>6 DEF map
<1> QED BY <1>4, <1>5

\* What a call of mmap_brk changes: the break and the end of the h-th area, 0 for none.
BrkResult(m, pg, h, new, b) ==
    /\ MmOK(b.mm) /\ b.mm.brk = new
    /\ b.mm.brk_start = m.brk_start /\ b.mm.brk_end = m.brk_end /\ b.mm.stack = m.stack
    /\ Len(b.mm.areas) = Len(m.areas)
    /\ \A i \in DOMAIN m.areas : i # h => b.mm.areas[i] = m.areas[i]
    /\ h # 0 => b.mm.areas[h].start = m.areas[h].start
    /\ h = 0 \/ m.areas[h].end >= new => b.mm.areas = m.areas /\ b.pages = pg
    /\ h # 0 /\ m.areas[h].end < new =>
           /\ b.mm.areas[h].end = new
           /\ b.pages = Refreshed(pg, [start |-> m.areas[h].end, end |-> new])

\* That is all it changes ...
LEMMA BrkIs ==
    ASSUME NEW m, MmOK(m), NEW pg, NEW addr \in Nat
    PROVE  BrkResult(m, pg, FindVm(m, m.brk_start), PageAlign(addr), Brk(m, pg, addr))
<1> DEFINE h == FindVm(m, m.brk_start)
           new == PageAlign(addr)
           moved == [m EXCEPT !.brk = new]
           b == Brk(m, pg, addr)
<1>1. new \in Boundary
    BY Boundaries
<1>2. h = 0 \/ h \in DOMAIN m.areas
    BY MmFields, FindVmIs, Zenon
<1>3. b = IF h = 0 \/ m.areas[h].end >= new
          THEN [mm |-> moved, pages |-> pg]
          ELSE [mm |-> [moved EXCEPT !.areas[h].end = new],
                pages |-> Refreshed(pg, [start |-> m.areas[h].end, end |-> new])]
    BY Zenon DEF Brk, NewBrk, Growth
<1> HIDE DEF h, new, b
<1>4. MmOK(moved) /\ moved.areas = m.areas
    BY <1>1 DEF MmOK
<1>5. CASE h = 0 \/ m.areas[h].end >= new
    <2>1. b = [mm |-> moved, pages |-> pg]
        BY <1>3, <1>5, Zenon
    <2>2. b.mm = moved /\ b.pages = pg
        BY <2>1
    <2>3. /\ moved.brk = new /\ moved.brk_start = m.brk_start /\ moved.brk_end = m.brk_end
          /\ moved.stack = m.stack /\ moved.areas = m.areas
        BY DEF MmOK
    <2>4. ~(h # 0 /\ m.areas[h].end < new)
        <3>1. CASE h = 0
            BY <3>1
        <3>2. CASE h # 0
            <4>1. m.areas[h].end \in Boundary /\ m.areas[h].end >= new
                BY <1>2, <1>5, <3>2, MmFields, AreasArePages
            <4> QED BY <1>1, <4>1 DEF Boundary
        <3> QED BY <3>1, <3>2
    <2> QED BY <1>4, <2>2, <2>3, <2>4 DEF BrkResult, h, new, b
<1>6. CASE ~(h = 0 \/ m.areas[h].end >= new)
    <2> DEFINE area == [m.areas[h] EXCEPT !.end = new]
               areas == [m.areas EXCEPT ![h] = area]
               mm2 == [moved EXCEPT !.areas = areas]
    <2>0. h \in DOMAIN m.areas
        BY <1>2, <1>6
    <2>1. b = [mm |-> [moved EXCEPT !.areas[h].end = new],
               pages |-> Refreshed(pg, [start |-> m.areas[h].end, end |-> new])]
        BY <1>3, <1>6, Zenon
    <2>2. [moved EXCEPT !.areas[h].end = new] = mm2
        BY <1>4
    <2>3. b.mm = mm2 /\ b.pages = Refreshed(pg, [start |-> m.areas[h].end, end |-> new])
        BY <2>1, <2>2
    <2>4. area \in WholeArea /\ area.start = m.areas[h].start /\ area.end = new
        BY <1>1, <2>0, MmFields DEF WholeArea
    <2> HIDE DEF area
    <2>5. /\ areas \in Seq(WholeArea) /\ Len(areas) = Len(m.areas) /\ areas[h] = area
          /\ \A i \in DOMAIN m.areas : i # h => areas[i] = m.areas[i]
        BY <2>0, <2>4, MmFields
    <2> HIDE DEF areas
    <2>6. /\ MmOK(mm2) /\ mm2.areas = areas /\ mm2.brk = new /\ mm2.brk_start = m.brk_start
          /\ mm2.brk_end = m.brk_end /\ mm2.stack = m.stack
        BY <1>1, <2>5 DEF MmOK
    <2> HIDE DEF mm2, moved
    <2>7. h # 0 /\ ~(m.areas[h].end >= new)
        BY <1>6
    <2> QED BY <2>3, <2>4, <2>5, <2>6, <2>7 DEF BrkResult, h, new, b
<1> QED BY <1>5, <1>6

\* ... and it maps pages.
LEMMA BrkPages ==
    ASSUME NEW m, MmOK(m), NEW pg, DOMAIN pg \subseteq Nat, NEW addr \in Nat
    PROVE  DOMAIN Brk(m, pg, addr).pages \subseteq Nat
<1> DEFINE h == FindVm(m, m.brk_start)
           new == PageAlign(addr)
           b == Brk(m, pg, addr)
<1>1. BrkResult(m, pg, h, new, b)
    BY BrkIs
<1>2. h = 0 \/ h \in DOMAIN m.areas
    BY MmFields, FindVmIs, Zenon
<1>3. new \in Boundary
    BY Boundaries
<1> HIDE DEF h, new, b
<1>4. CASE h = 0 \/ m.areas[h].end >= new
    BY <1>1, <1>4 DEF BrkResult, b
<1>5. CASE ~(h = 0 \/ m.areas[h].end >= new)
    <2>1. m.areas[h].end \in Nat /\ new \in Nat
        BY <1>2, <1>3, <1>5, MmFields, AreasArePages DEF Boundary
    <2> DEFINE area == [start |-> m.areas[h].end, end |-> new]
    <2>2. Covered(area) \subseteq Nat
        BY <2>1, PagesAreNat DEF Covered
    <2>3. b.pages = Refreshed(pg, area)
        BY <1>1, <1>5, <2>1 DEF BrkResult
    <2> HIDE DEF area
    <2>4. DOMAIN b.pages = DOMAIN pg \cup Covered(area)
        BY <2>3 DEF Refreshed
    <2> QED BY <2>2, <2>4 DEF b
<1> QED BY <1>4, <1>5

\* An insertion behind the last element
LEMMA InsertLast ==
    ASSUME NEW S, NEW seq \in Seq(S), NEW x \in S
    PROVE  LET longer == InsertAt(seq, Len(seq) + 1, x)
           IN  /\ Len(longer) = Len(seq) + 1 /\ longer[Len(seq) + 1] = x
               /\ \A i \in DOMAIN seq : longer[i] = seq[i]
<1> DEFINE s == SubSeq(seq, 1, Len(seq))
           t == <<x>>
           u == SubSeq(seq, Len(seq) + 1, Len(seq))
<1>1. (Len(seq) + 1) - 1 = Len(seq)
    OBVIOUS
<1>2. InsertAt(seq, Len(seq) + 1, x) = s \o t \o u
    BY <1>1 DEF InsertAt
<1>3. s = seq /\ u = << >>
    OBVIOUS
<1>4. t \in Seq(S) /\ Len(t) = 1 /\ t[1] = x
    OBVIOUS
<1> HIDE DEF s, t, u
<1>5. s \o t \o u = seq \o t
    BY <1>3, <1>4
<1>6. Len(seq) \in Nat /\ DOMAIN seq = 1..Len(seq)
    OBVIOUS
<1>7. /\ Len(seq \o t) = Len(seq) + Len(t)
      /\ \A i \in 1..(Len(seq) + Len(t)) :
             (seq \o t)[i] = IF i <= Len(seq) THEN seq[i] ELSE t[i - Len(seq)]
    BY <1>4, ConcatProperties, Zenon
<1> DEFINE longer == seq \o t
<1>8. InsertAt(seq, Len(seq) + 1, x) = longer
    BY <1>2, <1>5
<1> HIDE DEF longer
<1>9. Len(longer) = Len(seq) + 1
    BY <1>4, <1>7 DEF longer
<1>10. longer[Len(seq) + 1] = x
    <2>1. longer[Len(seq) + 1] = t[(Len(seq) + 1) - Len(seq)]
        BY <1>4, <1>6, <1>7 DEF longer
    <2> QED BY <1>4, <1>6, <2>1
<1>11. \A i \in DOMAIN seq : longer[i] = seq[i]
    BY <1>4, <1>6, <1>7 DEF longer
<1> QED BY <1>8, <1>9, <1>10, <1>11

\* mmap_map appends an area behind all the others ...
Appended(m, pg, base, len, map) ==
    /\ map.halted = "no" /\ map.vma = [start |-> base, end |-> base + len]
    /\ map.mm.brk_start = m.brk_start /\ map.mm.brk = m.brk /\ map.mm.brk_end = m.brk_end
    /\ map.mm.stack = m.stack /\ map.mm.cache = base + len
    /\ Len(map.mm.areas) = Len(m.areas) + 1
    /\ map.mm.areas[Len(m.areas) + 1] = map.vma
    /\ \A i \in DOMAIN m.areas : map.mm.areas[i] = m.areas[i]
    /\ map.pages = Refreshed(pg, map.vma)

\* ... where they all end in front of the address it settles on.
LEMMA MapBehind ==
    ASSUME NEW m, MmOK(m), NEW pg, NEW addr \in Nat, NEW size \in Nat, NEW base,
           base = Base(m, AlignDown(addr)), base # 0, FindVm(m, AlignDown(addr)) = 0,
           \A i \in DOMAIN m.areas : m.areas[i].start < m.areas[i].end /\ m.areas[i].end <= base
    PROVE  Appended(m, pg, base, PageAlign(size), Map(m, pg, addr, size))
<1> DEFINE len == PageAlign(size)
           i == Fitting(m, base, len)
           vma == NewArea(m, i, base, len)
           ring == i # 0 /\ InFront(m, i, base, len)
           new == Placed(m, i, ring, vma)
           map == Map(m, pg, addr, size)
<1>1. map = MapNew(pg, new)
    BY Zenon DEF Map, FindUnmapped, PlacedBy
<1>2. len \in Nat
    BY Boundaries DEF Boundary
<1>3. base \in Nat
    <2>1. AlignDown(addr) \in Boundary
        BY Boundaries
    <2>2. base \in Boundary
        BY <2>1, MmFields, Zenon DEF Base
    <2> QED BY <2>2 DEF Boundary
<1>4. \A k \in DOMAIN m.areas : m.areas[k].start \in Nat /\ m.areas[k].end \in Nat
    BY MmFields, AreasArePages DEF Boundary
<1>5. Len(m.areas) \in Nat /\ DOMAIN m.areas = 1..Len(m.areas)
    BY MmFields
<1> HIDE DEF len
<1>6. \A k \in DOMAIN m.areas :
          /\ ~InFront(m, k, base, len) /\ ~InGap(m, k, base, len)
          /\ Behind(m, k, base, len) <=> k = Len(m.areas)
    <2> TAKE k \in DOMAIN m.areas
    <2>1. ~InFront(m, k, base, len)
        BY <1>2, <1>3, <1>4 DEF InFront
    <2>2. k # Len(m.areas) => k + 1 \in DOMAIN m.areas
        BY <1>5
    <2>3. k # Len(m.areas) => m.areas[k + 1].start < base
        BY <1>3, <1>4, <2>2
    <2>4. ~InGap(m, k, base, len)
        BY <1>3, <1>4, <2>2, <2>3 DEF InGap
    <2>5. Behind(m, k, base, len) <=> k = Len(m.areas)
        BY <1>2, <1>3, <1>4, <2>2, <2>3 DEF Behind
    <2> QED BY <2>1, <2>4, <2>5
<1>7. i = Len(m.areas)
    <2> DEFINE fitting == {k \in DOMAIN m.areas : \/ InFront(m, k, base, len)
                                                 \/ Behind(m, k, base, len)
                                                 \/ InGap(m, k, base, len)}
    <2>1. i = IF fitting = {} THEN 0 ELSE Min(fitting)
        BY Zenon DEF Fitting
    <2>2. \A k : k \in fitting <=> k \in DOMAIN m.areas /\ k = Len(m.areas)
        BY <1>6
    <2>3. fitting \subseteq Nat
        BY <1>5
    <2> HIDE DEF fitting, i
    <2>4. fitting # {} => Min(fitting) \in fitting
        BY <2>3, LeastIn
    <2>5. CASE fitting = {}
        BY <1>5, <2>1, <2>2, <2>5
    <2>6. CASE fitting # {}
        BY <2>1, <2>2, <2>4, <2>6
    <2> QED BY <2>5, <2>6
<1> HIDE DEF i
<1>8. ~ring
    BY <1>5, <1>6, <1>7
<1>9. vma = [start |-> base, end |-> base + len]
    <2>1. i = 0 \/ Behind(m, i, base, len)
        BY <1>5, <1>6, <1>7
    <2> QED BY <2>1, Zenon DEF NewArea
<1>10. vma \in WholeArea
    <2>1. base \in Boundary
        BY Boundaries, MmFields, Zenon DEF Base
    <2>2. base + len \in Boundary
        BY <2>1, Boundaries DEF len
    <2> QED BY <1>9, <2>1, <2>2 DEF WholeArea
<1>11. Cache(m, vma) = base + len
    BY <1>9 DEF Cache
<1> HIDE DEF vma, ring
<1>12. new.vma = vma /\ new.ring = ring
       /\ new.mm = [m EXCEPT !.areas = Listed(m, i, vma), !.cache = Cache(m, vma)]
    <2>1. ~(ring \/ (i = 0 /\ m.areas # << >>))
        BY <1>5, <1>7, <1>8, MmFields
    <2> QED BY <2>1 DEF Placed
<1>13. /\ Len(Listed(m, i, vma)) = Len(m.areas) + 1
       /\ Listed(m, i, vma)[Len(m.areas) + 1] = vma
       /\ \A k \in DOMAIN m.areas : Listed(m, i, vma)[k] = m.areas[k]
    BY <1>7, <1>10, MmFields, InsertLast DEF Listed
<1> HIDE DEF new
<1>14. /\ new.mm.areas = Listed(m, i, vma) /\ new.mm.cache = base + len
       /\ new.mm.brk_start = m.brk_start /\ new.mm.brk = m.brk
       /\ new.mm.brk_end = m.brk_end /\ new.mm.stack = m.stack
    BY <1>11, <1>12 DEF MmOK
<1>15. /\ map.mm = new.mm /\ map.vma = vma /\ map.pages = Refreshed(pg, vma)
       /\ map.halted = "no"
    BY <1>1, <1>8, <1>12 DEF MapNew
<1> HIDE DEF map
<1>16. Appended(m, pg, base, len, map)
    BY <1>9, <1>13, <1>14, <1>15 DEF Appended
<1> QED BY <1>16 DEF len, map

-----------------------------------------------------------------------------
(* Where the areas of a well-formed image are.                             *)

\* The segments loaded so far are in order, and end where the last one does.
LEMMA SegmentsBelow ==
    ASSUME NEW img \in Image, WellFormed(img), NEW m, NEW pg, NEW k \in 0..Len(img),
           SegmentsIn(m, pg, img, k)
    PROVE  /\ \A i \in 1..k :
                  /\ i \in DOMAIN m.areas
                  /\ Aligned(m.areas[i].start) /\ Aligned(m.areas[i].end)
                  /\ Page <= m.areas[i].start /\ m.areas[i].start < m.areas[i].end
                  /\ m.areas[i].end <= EndOf(m, k)
                  /\ \A j \in 1..(i - 1) : m.areas[j].end <= m.areas[i].start
           /\ Aligned(EndOf(m, k)) /\ (k # 0 => EndOf(m, k) > Page)
<1>1. Len(img) \in Nat /\ DOMAIN img = 1..Len(img)
    BY ImageIs
<1>2. ASSUME NEW i \in 1..k
      PROVE  /\ i \in DOMAIN m.areas
             /\ Aligned(m.areas[i].start) /\ Aligned(m.areas[i].end)
             /\ Page <= m.areas[i].start /\ m.areas[i].start < m.areas[i].end
             /\ \A j \in 1..(i - 1) : m.areas[j].end <= m.areas[i].start
    <2>1. i \in DOMAIN img /\ \A j \in 1..(i - 1) : j \in 1..k
        BY <1>1
    <2>2. /\ i \in DOMAIN m.areas /\ m.areas[i] = AreaOf(img[i])
          /\ \A j \in 1..(i - 1) : m.areas[j] = AreaOf(img[j])
        BY <2>1 DEF SegmentsIn
    <2>3. /\ Aligned(AreaOf(img[i]).start) /\ Aligned(AreaOf(img[i]).end)
          /\ Page <= AreaOf(img[i]).start /\ AreaOf(img[i]).start < AreaOf(img[i]).end
          /\ \A j \in 1..(i - 1) : AreaOf(img[j]).end <= AreaOf(img[i]).start
        BY <2>1, SegmentsAscend
    <2> QED BY <2>2, <2>3
<1>3. CASE k = 0
    BY <1>3, Sizes DEF EndOf
<1>4. CASE k # 0
    <2>1. k \in 1..k /\ EndOf(m, k) = m.areas[k].end
        BY <1>1, <1>4 DEF EndOf
    <2>2. ASSUME NEW i \in 1..k PROVE m.areas[i].end <= EndOf(m, k)
        <3>1. CASE i = k
            BY <1>2, <2>1, <3>1 DEF Aligned
        <3>2. CASE i # k
            <4>1. i \in 1..(k - 1)
                BY <1>1, <3>2
            <4>2. m.areas[i].end <= m.areas[k].start /\ m.areas[k].start < m.areas[k].end
                BY <1>2, <2>1, <4>1
            <4>3. m.areas[i].end \in Nat /\ m.areas[k].start \in Nat /\ m.areas[k].end \in Nat
                BY <1>2, <2>1 DEF Aligned
            <4>4. \A a, b, c \in Nat : a <= b /\ b < c => a <= c
                OBVIOUS
            <4>5. m.areas[i].end <= m.areas[k].end
                BY <4>2, <4>3, <4>4, Zenon
            <4> QED BY <2>1, <4>5
        <3> QED BY <3>1, <3>2
    <2>3. Aligned(EndOf(m, k)) /\ EndOf(m, k) > Page
        <3>1. /\ Aligned(m.areas[k].start) /\ Aligned(m.areas[k].end)
              /\ Page <= m.areas[k].start /\ m.areas[k].start < m.areas[k].end
            BY <1>2, <2>1
        <3> QED BY <2>1, <3>1, Sizes DEF Aligned
    <2> QED BY <1>2, <2>2, <2>3
<1> QED BY <1>3, <1>4

\* What keeps the segments where they are.
LEMMA SegmentsStay ==
    ASSUME NEW m, NEW pg, NEW img, NEW k, SegmentsIn(m, pg, img, k), NEW mm2, NEW pg2,
           \A i \in 1..k : i \in DOMAIN mm2.areas /\ mm2.areas[i] = m.areas[i],
           \A i \in 1..k : \A n \in Covered(AreaOf(img[i])) : n \in DOMAIN pg2 /\ pg[n] \subseteq pg2[n]
    PROVE  SegmentsIn(mm2, pg2, img, k)
<1>1. ASSUME NEW i \in 1..k
      PROVE  /\ i \in DOMAIN mm2.areas /\ mm2.areas[i] = AreaOf(img[i])
             /\ \A n \in Covered(AreaOf(img[i])) : n \in DOMAIN pg2 /\ i \in pg2[n]
    <2>1. m.areas[i] = AreaOf(img[i]) /\ \A n \in Covered(AreaOf(img[i])) : i \in pg[n]
        BY DEF SegmentsIn
    <2> QED BY <2>1
<1> QED BY <1>1 DEF SegmentsIn

\* A write adds to what the pages carry, and maps none.
LEMMA WriteIs ==
    ASSUME NEW pg, NEW T, NEW w
    PROVE  /\ DOMAIN Write(pg, T, w) = DOMAIN pg
           /\ \A n \in DOMAIN pg : pg[n] \subseteq Write(pg, T, w)[n]
           /\ \A n \in DOMAIN pg \cap T : w \in Write(pg, T, w)[n]
  BY DEF Write

\* So the segments outlast it.
LEMMA SegmentsWritten ==
    ASSUME NEW m, NEW pg, NEW img, NEW k, SegmentsIn(m, pg, img, k), NEW T, NEW w
    PROVE  SegmentsIn(m, Write(pg, T, w), img, k)
<1>1. \A i \in 1..k : i \in DOMAIN m.areas /\ m.areas[i] = m.areas[i]
    BY DEF SegmentsIn
<1>2. \A i \in 1..k : \A n \in Covered(AreaOf(img[i])) :
          n \in DOMAIN Write(pg, T, w) /\ pg[n] \subseteq Write(pg, T, w)[n]
    BY WriteIs DEF SegmentsIn
<1> QED BY <1>1, <1>2, SegmentsStay

\* Fresh frames behind the segments leave them alone.
LEMMA SegmentsRefreshed ==
    ASSUME NEW img \in Image, WellFormed(img), NEW m, NEW pg, NEW k \in 0..Len(img),
           SegmentsIn(m, pg, img, k), NEW mm2, NEW area,
           \A i \in 1..k : i \in DOMAIN mm2.areas /\ mm2.areas[i] = m.areas[i],
           \A i \in 1..k : AreaOf(img[i]).end <= area.start,
           Aligned(area.start), Aligned(area.end)
    PROVE  SegmentsIn(mm2, Refreshed(pg, area), img, k)
<1>1. ASSUME NEW i \in 1..k, NEW n \in Covered(AreaOf(img[i]))
      PROVE  n \in DOMAIN Refreshed(pg, area) /\ pg[n] \subseteq Refreshed(pg, area)[n]
    <2>1. i \in DOMAIN img
        BY ImageIs
    <2>2. Aligned(AreaOf(img[i]).start) /\ Aligned(AreaOf(img[i]).end)
        BY <2>1, SegmentsAscend
    <2>3. n \in PagesOf(AreaOf(img[i]).start, AreaOf(img[i]).end)
        BY DEF Covered
    <2>4. n \notin PagesOf(area.start, area.end)
        BY <2>2, <2>3, Apart
    <2>5. n \in DOMAIN pg
        BY DEF SegmentsIn
    <2>6. n \notin Covered(area)
        BY <2>4, Zenon DEF Covered
    <2>7. n \in DOMAIN Refreshed(pg, area) /\ Refreshed(pg, area)[n] = pg[n]
        BY <2>5, <2>6, Zenon DEF Refreshed
    <2> QED BY <2>7
<1>2. \A i \in 1..k : \A n \in Covered(AreaOf(img[i])) :
          n \in DOMAIN Refreshed(pg, area) /\ pg[n] \subseteq Refreshed(pg, area)[n]
    BY <1>1
<1> HIDE DEF Refreshed
<1> QED BY <1>2, SegmentsStay

\* A new area and its pages keep the pages those of the areas.
LEMMA ExactAppended ==
    ASSUME NEW m, MmOK(m), NEW pg, Exact(m, pg), NEW base, NEW len, NEW map,
           Appended(m, pg, base, len, map), MmOK(map.mm)
    PROVE  Exact(map.mm, map.pages)
<1>1. /\ Len(map.mm.areas) = Len(m.areas) + 1
      /\ map.mm.areas[Len(m.areas) + 1] = map.vma
      /\ \A i \in DOMAIN m.areas : map.mm.areas[i] = m.areas[i]
    BY DEF Appended
<1>2. DOMAIN map.pages = DOMAIN pg \cup Covered(map.vma)
    <2>1. map.pages = Refreshed(pg, map.vma)
        BY DEF Appended
    <2> QED BY <2>1 DEF Refreshed
<1>3. /\ DOMAIN m.areas = 1..Len(m.areas) /\ Len(m.areas) \in Nat
      /\ DOMAIN map.mm.areas = 1..Len(map.mm.areas)
    BY MmFields
<1>4. \A i : i \in DOMAIN map.mm.areas <=> i \in DOMAIN m.areas \/ i = Len(m.areas) + 1
    BY <1>1, <1>3
<1>5. UNION {Covered(map.mm.areas[i]) : i \in DOMAIN map.mm.areas} =
      (UNION {Covered(m.areas[i]) : i \in DOMAIN m.areas}) \cup Covered(map.vma)
    <2>1. ASSUME NEW n
          PROVE  (\E i \in DOMAIN map.mm.areas : n \in Covered(map.mm.areas[i])) <=>
                 (\E i \in DOMAIN m.areas : n \in Covered(m.areas[i])) \/ n \in Covered(map.vma)
        BY <1>1, <1>4, Zenon
    <2> QED BY <2>1
<1>6. DOMAIN pg = UNION {Covered(m.areas[i]) : i \in DOMAIN m.areas}
    BY DEF Exact
<1>7. DOMAIN map.pages = UNION {Covered(map.mm.areas[i]) : i \in DOMAIN map.mm.areas}
    BY <1>2, <1>5, <1>6, Zenon
<1> QED BY <1>7 DEF Exact

-----------------------------------------------------------------------------
(* The steps of a load, for a well-formed image.                           *)

\* A segment gets the area that is reserved for it ...
LEMMA SegmentLands ==
    ASSUME NEW img \in Image, WellFormed(img), NEW m, MmOK(m), NEW pg,
           NEW k \in DOMAIN img, InLoop(m, pg, img, k)
    PROVE  Appended(m, pg, AreaOf(img[k]).start, PageAlign(img[k].memsz),
                    Map(m, pg, img[k].vaddr, img[k].memsz))
<1> DEFINE s == img[k]
           base == AlignDown(s.vaddr)
<1>1. k - 1 \in 0..Len(img) /\ Len(m.areas) = k - 1 /\ SegmentsIn(m, pg, img, k - 1) /\ m.brk_end = 0
    BY ImageIs DEF InLoop
<1>2. s \in SegmentType /\ Page <= AreaOf(s).start /\ Aligned(AreaOf(s).start) /\ AreaOf(s).start = base
    BY SegmentsAscend, AreaOfIs
<1>3. s.vaddr \in Nat /\ s.memsz \in Nat
    BY <1>2 DEF SegmentType
<1>4. base \in Nat /\ base # 0
    BY <1>2, Sizes DEF Aligned
<1>5. base = Base(m, base)
    BY <1>1, <1>4 DEF Base
<1>6. DOMAIN m.areas = 1..(k - 1)
    BY <1>1, MmFields
<1>7. \A i \in DOMAIN m.areas : m.areas[i].start < m.areas[i].end /\ m.areas[i].end <= base
    <2> TAKE i \in DOMAIN m.areas
    <2>1. m.areas[i].start < m.areas[i].end
        BY <1>1, <1>6, SegmentsBelow
    <2>2. m.areas[i] = AreaOf(img[i])
        BY <1>1, <1>6 DEF SegmentsIn
    <2>3. AreaOf(img[i]).end <= AreaOf(s).start
        BY <1>6, SegmentsAscend
    <2> QED BY <1>2, <2>1, <2>2, <2>3
<1>8. FindVm(m, base) = 0
    <2>1. \A i \in DOMAIN m.areas : ~Around(m, i, base)
        <3> TAKE i \in DOMAIN m.areas
        <3>1. m.areas[i].end \in Nat
            BY MmFields, AreasArePages DEF Boundary
        <3> QED BY <1>4, <1>7, <3>1 DEF Around
    <2> QED BY <2>1, MmFields, FindVmIs
<1> HIDE DEF s
<1>9. Appended(m, pg, base, PageAlign(s.memsz), Map(m, pg, s.vaddr, s.memsz))
    BY <1>3, <1>4, <1>5, <1>7, <1>8, MapBehind
<1> QED BY <1>2, <1>9 DEF s

\* ... and is in place there, with those before it.
LEMMA SegmentLoaded ==
    ASSUME NEW img \in Image, WellFormed(img), NEW m, MmOK(m), NEW pg, DOMAIN pg \subseteq Nat,
           NEW k \in DOMAIN img, InLoop(m, pg, img, k)
    PROVE  LET map == Map(m, pg, img[k].vaddr, img[k].memsz)
           IN  /\ map.halted = "no" /\ Touched(img[k]) \subseteq DOMAIN map.pages
               /\ InLoop(map.mm, Write(map.pages, Touched(img[k]), k), img, k + 1)
<1> DEFINE s == img[k]
           map == Map(m, pg, s.vaddr, s.memsz)
           area == AreaOf(s)
           pg2 == Write(map.pages, Touched(s), k)
<1>1. Appended(m, pg, area.start, PageAlign(s.memsz), map)
    BY SegmentLands
<1>2. k - 1 \in 0..Len(img) /\ k \in 1..Len(img) /\ Len(m.areas) = k - 1 /\ SegmentsIn(m, pg, img, k - 1)
      /\ m.brk_end = 0
    BY ImageIs DEF InLoop
<1>3. /\ s \in SegmentType /\ Aligned(area.start) /\ Aligned(area.end)
      /\ Touched(s) = Covered(area) /\ area.end = area.start + PageAlign(s.memsz)
    <2>1. /\ s \in SegmentType /\ Aligned(area.start) /\ Aligned(area.end)
          /\ Touched(s) = Covered(area)
        BY SegmentsAscend
    <2>2. area.end = area.start + PageAlign(s.memsz)
        BY <2>1, AreaOfIs
    <2> QED BY <2>1, <2>2
<1>4. area = [start |-> area.start, end |-> area.start + PageAlign(s.memsz)]
    BY <1>3 DEF AreaOf
<1> HIDE DEF map, area
<1>5. /\ map.halted = "no" /\ map.vma = area /\ map.pages = Refreshed(pg, area)
      /\ map.mm.brk_end = 0 /\ map.mm.cache = area.end
      /\ Len(map.mm.areas) = k /\ map.mm.areas[k] = area
      /\ \A i \in 1..(k - 1) : map.mm.areas[i] = m.areas[i]
    <2>1. map.vma = area
        BY <1>1, <1>4 DEF Appended
    <2>2. map.pages = Refreshed(pg, area) /\ map.halted = "no" /\ map.mm.brk_end = m.brk_end
          /\ map.mm.cache = area.start + PageAlign(s.memsz)
        BY <1>1, <2>1 DEF Appended
    <2>3. Len(m.areas) + 1 = k /\ DOMAIN m.areas = 1..(k - 1)
        BY <1>2, MmFields
    <2>4. Len(map.mm.areas) = k /\ map.mm.areas[k] = area /\ \A i \in DOMAIN m.areas : map.mm.areas[i] = m.areas[i]
        BY <1>1, <2>1, <2>3 DEF Appended
    <2> QED BY <1>2, <1>3, <2>1, <2>2, <2>3, <2>4
<1>6. MmOK(map.mm)
    <2>1. MapOK(map)
        BY <1>3, MapType DEF map, SegmentType
    <2> QED BY <2>1 DEF MapOK
<1>7. DOMAIN map.mm.areas = 1..k
    BY <1>5, <1>6, MmFields
<1>8. Covered(area) \subseteq DOMAIN map.pages
    BY <1>5 DEF Refreshed
<1>9. SegmentsIn(map.mm, map.pages, img, k - 1)
    <2>1. \A i \in 1..(k - 1) : i \in DOMAIN map.mm.areas /\ map.mm.areas[i] = m.areas[i]
        BY <1>2, <1>5, <1>7
    <2>2. \A i \in 1..(k - 1) : AreaOf(img[i]).end <= area.start
        BY SegmentsAscend DEF area
    <2>3. SegmentsIn(map.mm, Refreshed(pg, area), img, k - 1)
        BY <1>2, <1>3, <2>1, <2>2, SegmentsRefreshed
    <2> QED BY <1>5, <2>3
<1>10. SegmentsIn(map.mm, pg2, img, k - 1)
    BY <1>9, SegmentsWritten
<1>11. \A n \in Covered(area) : n \in DOMAIN pg2 /\ k \in pg2[n]
    <2>1. Covered(area) = Touched(s)
        BY <1>3
    <2> QED BY <1>8, <2>1, WriteIs
<1> HIDE DEF pg2
<1>12. SegmentsIn(map.mm, pg2, img, k)
    <2>1. ASSUME NEW i \in 1..k
          PROVE  /\ i \in DOMAIN map.mm.areas /\ map.mm.areas[i] = AreaOf(img[i])
                 /\ \A n \in Covered(AreaOf(img[i])) : n \in DOMAIN pg2 /\ i \in pg2[n]
        <3>1. CASE i = k
            <4>1. k \in DOMAIN map.mm.areas /\ map.mm.areas[k] = AreaOf(img[k])
                BY <1>2, <1>5, <1>7 DEF area
            <4>2. \A n \in Covered(AreaOf(img[k])) : n \in DOMAIN pg2 /\ k \in pg2[n]
                BY <1>11 DEF area
            <4> QED BY <3>1, <4>1, <4>2
        <3>2. CASE i # k
            <4>1. i \in 1..(k - 1)
                BY <1>2, <3>2
            <4> QED BY <1>10, <4>1 DEF SegmentsIn
        <3> QED BY <3>1, <3>2
    <2> QED BY <2>1 DEF SegmentsIn
<1>13. InLoop(map.mm, pg2, img, k + 1)
    <2>1. (k + 1) - 1 = k /\ k # 0
        BY <1>2
    <2>2. EndOf(map.mm, k) = area.end
        BY <1>5, <2>1 DEF EndOf
    <2> QED BY <1>5, <1>12, <2>1, <2>2 DEF InLoop
<1>14. Touched(s) \subseteq DOMAIN map.pages
    BY <1>3, <1>8
<1> QED BY <1>5, <1>13, <1>14 DEF pg2, map

\* Whole pages need no rounding.
LEMMA WholeSizes ==
    /\ AlignDown(0) = 0
    /\ \A x : Aligned(x) => PageAlign(x) = x
<1>1. AlignDown(0) = 0
    <2>1. Aligned(AlignDown(0)) /\ AlignDown(0) <= 0
        BY Rounding
    <2> QED BY <2>1 DEF Aligned
<1>2. ASSUME NEW x, Aligned(x) PROVE PageAlign(x) = x
    <2>1. x \in Nat /\ Page \in Nat \ {0}
        BY <1>2, Sizes DEF Aligned
    <2>2. Aligned(PageAlign(x)) /\ x <= PageAlign(x) /\ PageAlign(x) < x + Page
        BY <2>1, Rounding
    <2>3. x < PageAlign(x) => x + Page <= PageAlign(x)
        BY <1>2, <2>2, AlignedSum
    <2>4. PageAlign(x) \in Nat
        BY <2>2 DEF Aligned
    <2> QED BY <2>1, <2>2, <2>3, <2>4
<1> QED BY <1>1, <1>2

\* The place behind the areas that a call without an address gets
Next0(m) == IF m.cache > m.brk_end THEN m.cache ELSE m.brk_end

\* A call without an address appends, too.
LEMMA MapAnywhere ==
    ASSUME NEW m, MmOK(m), NEW pg, NEW size, Aligned(size), m.cache # 0,
           \A i \in DOMAIN m.areas :
               Page <= m.areas[i].start /\ m.areas[i].start < m.areas[i].end /\ m.areas[i].end <= m.cache
    PROVE  /\ Appended(m, pg, Next0(m), size, Map(m, pg, 0, size))
           /\ Next0(m) \in Boundary /\ m.cache <= Next0(m) /\ m.brk_end <= Next0(m)
<1> DEFINE base == Next0(m)
<1>1. m.cache \in Boundary /\ m.brk_end \in Boundary /\ m.cache \in Nat /\ m.brk_end \in Nat
    BY MmFields DEF Boundary
<1>2. base \in Boundary /\ m.cache <= base /\ m.brk_end <= base
    BY <1>1 DEF Next0
<1>3. AlignDown(0) = 0 /\ PageAlign(size) = size /\ size \in Nat
    BY WholeSizes DEF Aligned
<1>4. base = Base(m, AlignDown(0))
    BY <1>3, Zenon DEF Base, Next0
<1> HIDE DEF base
<1>5. base # 0
    BY <1>1, <1>2 DEF Boundary
<1>6. \A i \in DOMAIN m.areas : m.areas[i].start \in Nat /\ m.areas[i].end \in Nat
    BY MmFields, AreasArePages DEF Boundary
<1>7. \A i \in DOMAIN m.areas : m.areas[i].start < m.areas[i].end /\ m.areas[i].end <= base
    BY <1>1, <1>2, <1>6 DEF Boundary
<1>8. FindVm(m, AlignDown(0)) = 0
    <2>1. \A i \in DOMAIN m.areas : ~Around(m, i, 0)
        BY <1>6, Sizes DEF Around
    <2>2. FindVm(m, 0) = 0
        BY <2>1, MmFields, FindVmIs
    <2> QED BY <1>3, <2>2
<1>9. Appended(m, pg, base, PageAlign(size), Map(m, pg, 0, size))
    BY <1>3, <1>4, <1>5, <1>7, <1>8, MapBehind
<1> QED BY <1>2, <1>3, <1>9 DEF base

\* A well-formed image has segments.
LEMMA ImageLength ==
    ASSUME NEW img \in Image, WellFormed(img)
    PROVE  Len(img) \in Nat \ {0} /\ DOMAIN img = 1..Len(img)
<1>1. img \in Seq(SegmentType) /\ img # << >>
    BY ImageIs DEF WellFormed
<1> QED BY <1>1

\* The heap is appended behind the segments.
LEMMA HeapLoaded ==
    ASSUME NEW img \in Image, WellFormed(img), NEW m, MmOK(m), NEW pg, DOMAIN pg \subseteq Nat,
           InLoop(m, pg, img, Len(img) + 1)
    PROVE  LET map == Map(m, pg, 0, HeapSize)
           IN  /\ map.halted = "no" /\ \E base, len : Appended(m, pg, base, len, map)
               /\ WithHeap([map.mm EXCEPT !.brk_start = map.vma.start, !.brk = map.vma.start,
                                          !.brk_end = Top], map.pages, img)
<1> DEFINE k == Len(img)
           map == Map(m, pg, 0, HeapSize)
           base == EndOf(m, k)
<1>1. k \in Nat \ {0} /\ k \in 0..Len(img) /\ (k + 1) - 1 = k
    BY ImageLength
<1>2. Len(m.areas) = k /\ SegmentsIn(m, pg, img, k) /\ m.brk_end = 0 /\ m.cache = base
    BY <1>1 DEF InLoop
<1>3. /\ Aligned(base) /\ base > Page
      /\ \A i \in 1..k : /\ Page <= m.areas[i].start /\ m.areas[i].start < m.areas[i].end
                         /\ m.areas[i].end <= base
    BY <1>1, <1>2, SegmentsBelow
<1>4. DOMAIN m.areas = 1..k
    BY <1>2, MmFields
<1>5. base \in Nat /\ base > 0
    BY <1>3, Sizes DEF Aligned
<1> HIDE DEF base, map
<1>6. Next0(m) = base
    BY <1>2, <1>5 DEF Next0
<1>7. Appended(m, pg, base, HeapSize, map)
    <2>1. m.cache # 0
        BY <1>2, <1>5
    <2>2. \A i \in DOMAIN m.areas : /\ Page <= m.areas[i].start /\ m.areas[i].start < m.areas[i].end
                                    /\ m.areas[i].end <= m.cache
        BY <1>2, <1>3, <1>4
    <2>3. Appended(m, pg, Next0(m), HeapSize, Map(m, pg, 0, HeapSize))
        BY <2>1, <2>2, Sizes, MapAnywhere
    <2> QED BY <1>6, <2>3 DEF map
<1>8. MmOK(map.mm)
    <2>1. MapOK(map)
        BY Sizes, MapType DEF map
    <2> QED BY <2>1 DEF MapOK
<1> DEFINE area == [start |-> base, end |-> base + HeapSize]
           mm2 == [map.mm EXCEPT !.brk_start = map.vma.start, !.brk = map.vma.start, !.brk_end = Top]
<1>9. /\ map.halted = "no" /\ map.vma = area /\ map.pages = Refreshed(pg, area)
      /\ map.mm.cache = base + HeapSize /\ Len(map.mm.areas) = k + 1
      /\ map.mm.areas[k + 1] = area /\ \A i \in 1..k : map.mm.areas[i] = m.areas[i]
    <2>1. map.vma = area
        BY <1>7 DEF Appended
    <2> HIDE DEF area
    <2> QED BY <1>2, <1>4, <1>7, <2>1 DEF Appended
<1>10. area.start = base /\ area.end = base + HeapSize
    OBVIOUS
<1> HIDE DEF area
<1>11. /\ mm2.areas = map.mm.areas /\ mm2.cache = map.mm.cache
       /\ mm2.brk_start = base /\ mm2.brk = base /\ mm2.brk_end = Top
    BY <1>8, <1>9, <1>10 DEF MmOK
<1> HIDE DEF mm2
<1>12. DOMAIN mm2.areas = 1..(k + 1)
    BY <1>8, <1>9, <1>11, MmFields
<1>13. Aligned(base + HeapSize)
    BY <1>3, AlignedSum, Sizes
<1>14. SegmentsIn(mm2, map.pages, img, k)
    <2>1. \A i \in 1..k : i \in DOMAIN mm2.areas /\ mm2.areas[i] = m.areas[i]
        BY <1>1, <1>9, <1>11, <1>12
    <2>2. \A i \in 1..k : AreaOf(img[i]).end <= area.start
        <3> TAKE i \in 1..k
        <3>1. m.areas[i] = AreaOf(img[i])
            BY <1>2 DEF SegmentsIn
        <3> QED BY <1>3, <1>10, <3>1
    <2>3. Aligned(area.start) /\ Aligned(area.end)
        BY <1>3, <1>10, <1>13
    <2>4. SegmentsIn(mm2, Refreshed(pg, area), img, k)
        BY <1>1, <1>2, <2>1, <2>2, <2>3, SegmentsRefreshed
    <2> QED BY <1>9, <2>4
<1>15. WithHeap(mm2, map.pages, img)
    <2>1. EndOf(mm2, k) = base
        <3>1. EndOf(m, k) = m.areas[k].end /\ EndOf(mm2, k) = mm2.areas[k].end
            BY <1>1 DEF EndOf
        <3>2. k \in 1..k
            BY <1>1
        <3> QED BY <1>9, <1>11, <3>1, <3>2 DEF base
    <2>2. mm2.areas[k + 1] = area /\ Len(mm2.areas) = k + 1
        BY <1>9, <1>11
    <2>3. Covered(area) \subseteq DOMAIN map.pages
        BY <1>9 DEF Refreshed
    <2> QED BY <1>9, <1>10, <1>11, <1>14, <2>1, <2>2, <2>3 DEF WithHeap
<1> QED BY <1>7, <1>9, <1>15 DEF mm2, map

\* The stack is appended behind the heap and behind brk_end.
LEMMA StackMapped ==
    ASSUME NEW img \in Image, WellFormed(img), NEW m, MmOK(m), NEW pg, DOMAIN pg \subseteq Nat,
           WithHeap(m, pg, img)
    PROVE  LET map == Map(m, pg, 0, StackSize)
           IN  /\ map.halted = "no" /\ \E base, len : Appended(m, pg, base, len, map)
               /\ Ready(map.mm, map.pages, img)
               /\ map.mm.brk = map.mm.brk_start
               /\ map.mm.areas[Len(img) + 2] = map.vma
               /\ map.vma.end = map.vma.start + StackSize
               /\ map.vma \in WholeArea /\ Covered(map.vma) \subseteq DOMAIN map.pages
<1> DEFINE k == Len(img)
           map == Map(m, pg, 0, StackSize)
           heap == m.areas[k + 1]
           base == Next0(m)
           area == [start |-> base, end |-> base + StackSize]
<1>1. k \in Nat \ {0} /\ k \in 0..Len(img)
    BY ImageLength
<1>2. /\ Len(m.areas) = k + 1 /\ SegmentsIn(m, pg, img, k)
      /\ heap.start = EndOf(m, k) /\ heap.end = heap.start + HeapSize
      /\ m.brk_start = heap.start /\ m.brk = heap.start /\ m.brk_end = Top
      /\ m.cache = heap.end /\ Covered(heap) \subseteq DOMAIN pg
    BY DEF WithHeap
<1>3. /\ Aligned(EndOf(m, k)) /\ EndOf(m, k) > Page
      /\ \A i \in 1..k : /\ Page <= m.areas[i].start /\ m.areas[i].start < m.areas[i].end
                         /\ m.areas[i].end <= EndOf(m, k)
    BY <1>1, <1>2, SegmentsBelow
<1>4. DOMAIN m.areas = 1..(k + 1)
    BY <1>2, MmFields
<1>5. \A i \in DOMAIN m.areas : m.areas[i].start \in Nat /\ m.areas[i].end \in Nat
    BY MmFields, AreasArePages DEF Boundary
<1>6. k + 1 \in DOMAIN m.areas
    BY <1>1, <1>4
<1> HIDE DEF heap
<1>7. /\ heap.start \in Nat /\ heap.end \in Nat /\ Page < heap.start /\ heap.start < heap.end
      /\ Aligned(heap.start) /\ Aligned(heap.end)
    <2>1. Aligned(heap.start) /\ heap.start > Page
        BY <1>2, <1>3
    <2>2. Aligned(heap.start + HeapSize)
        BY <2>1, AlignedSum, Sizes
    <2> QED BY <1>2, <2>1, <2>2, Sizes DEF Aligned
<1>8. \A i \in DOMAIN m.areas : /\ Page <= m.areas[i].start /\ m.areas[i].start < m.areas[i].end
                                /\ m.areas[i].end <= m.cache
    <2> TAKE i \in DOMAIN m.areas
    <2>1. CASE i = k + 1
        <3>1. m.areas[i] = heap
            BY <2>1 DEF heap
        <3> QED BY <1>2, <1>7, <3>1, Sizes
    <2>2. CASE i # k + 1
        <3>1. i \in 1..k
            BY <1>1, <1>4, <2>2
        <3>2. /\ Page <= m.areas[i].start /\ m.areas[i].start < m.areas[i].end
              /\ m.areas[i].end <= heap.start
            BY <1>2, <1>3, <3>1
        <3>3. \A a, b, c \in Nat : a <= b /\ b < c => a <= c
            OBVIOUS
        <3>4. m.areas[i].end <= heap.end
            BY <1>5, <1>7, <3>2, <3>3, Zenon
        <3> QED BY <1>2, <3>2, <3>4
    <2> QED BY <2>1, <2>2
<1>9. /\ Appended(m, pg, base, StackSize, map)
      /\ base \in Boundary /\ heap.end <= base /\ Top <= base
    <2>1. m.cache # 0
        BY <1>2, <1>7
    <2>2. /\ Appended(m, pg, Next0(m), StackSize, Map(m, pg, 0, StackSize))
          /\ Next0(m) \in Boundary /\ m.cache <= Next0(m) /\ m.brk_end <= Next0(m)
        BY <1>8, <2>1, MapAnywhere, Sizes
    <2> QED BY <1>2, <2>2
<1>10. MapOK(map)
    BY Sizes, MapType
<1> HIDE DEF map, base
<1>11. MmOK(map.mm) /\ map.vma \in WholeArea
    BY <1>10 DEF MapOK
<1>12. /\ map.halted = "no" /\ map.vma = area /\ map.pages = Refreshed(pg, area)
       /\ Len(map.mm.areas) = k + 2 /\ map.mm.areas[k + 2] = area
       /\ \A i \in DOMAIN m.areas : map.mm.areas[i] = m.areas[i]
       /\ map.mm.brk_start = m.brk_start /\ map.mm.brk = m.brk
    <2>1. map.vma = area
        BY <1>9 DEF Appended
    <2>2. Len(m.areas) + 1 = k + 2
        BY <1>1, <1>2
    <2> HIDE DEF area
    <2> QED BY <1>9, <2>1, <2>2 DEF Appended
<1>13. area.start = base /\ area.end = base + StackSize
    OBVIOUS
<1> HIDE DEF area
<1>14. DOMAIN map.mm.areas = 1..(k + 2)
    BY <1>11, <1>12, MmFields
<1>15. map.mm.areas[k + 1] = heap
    BY <1>6, <1>12 DEF heap
<1>16. Aligned(area.start) /\ Aligned(area.end)
    BY <1>11, <1>12, AreasArePages DEF Boundary
<1>17. SegmentsIn(map.mm, map.pages, img, k)
    <2>1. \A i \in 1..k : i \in DOMAIN map.mm.areas /\ map.mm.areas[i] = m.areas[i]
        BY <1>1, <1>4, <1>12, <1>14
    <2>2. \A i \in 1..k : AreaOf(img[i]).end <= area.start
        <3> TAKE i \in 1..k
        <3>1. m.areas[i] = AreaOf(img[i]) /\ i \in DOMAIN m.areas
            BY <1>2 DEF SegmentsIn
        <3>2. m.areas[i].end <= m.cache /\ m.areas[i].end \in Nat
            BY <1>5, <1>8, <3>1
        <3>3. base \in Nat
            BY <1>9 DEF Boundary
        <3>4. \A a, b, c \in Nat : a <= b /\ b <= c => a <= c
            OBVIOUS
        <3>5. m.areas[i].end <= base
            BY <1>2, <1>7, <1>9, <3>2, <3>3, <3>4
        <3> QED BY <1>13, <3>1, <3>5
    <2>3. SegmentsIn(map.mm, Refreshed(pg, area), img, k)
        BY <1>1, <1>2, <1>16, <2>1, <2>2, SegmentsRefreshed
    <2> QED BY <1>12, <2>3
<1>18. DOMAIN map.pages = DOMAIN pg \cup Covered(area)
    BY <1>12 DEF Refreshed
<1>19. EndOf(map.mm, k) = EndOf(m, k)
    <2>1. EndOf(m, k) = m.areas[k].end /\ EndOf(map.mm, k) = map.mm.areas[k].end
        BY <1>1 DEF EndOf
    <2>2. k \in DOMAIN m.areas
        BY <1>1, <1>4
    <2> QED BY <1>12, <2>1, <2>2
<1>20. Ready(map.mm, map.pages, img)
    <2>1. Covered(heap) \subseteq DOMAIN map.pages
        BY <1>2, <1>18
    <2>2. heap.start <= heap.start /\ heap.start <= heap.end
        BY <1>7
    <2> QED BY <1>2, <1>7, <1>9, <1>12, <1>13, <1>15, <1>17, <1>19, <2>1, <2>2 DEF Ready
<1>21. map.mm.brk = map.mm.brk_start
    BY <1>2, <1>12
<1>22. \E b, l : Appended(m, pg, b, l, map)
    BY <1>9
<1> QED BY <1>11, <1>12, <1>13, <1>18, <1>20, <1>21, <1>22 DEF map

-----------------------------------------------------------------------------
(* The break.                                                              *)

\* The areas of a laid out process are in order; the heap is around brk_start.
LEMMA ReadyOrder ==
    ASSUME NEW img \in Image, WellFormed(img), NEW m, MmOK(m), NEW pg, Ready(m, pg, img)
    PROVE  /\ DOMAIN m.areas = 1..(Len(img) + 2)
           /\ \A i \in DOMAIN m.areas :
                  /\ m.areas[i].start \in Boundary /\ m.areas[i].end \in Boundary
                  /\ \A j \in 1..(i - 1) : m.areas[j].end <= m.areas[i].start
           /\ FindVm(m, m.brk_start) = Len(img) + 1
<1> DEFINE k == Len(img)
           heap == m.areas[k + 1]
           stack == m.areas[k + 2]
<1>1. k \in Nat \ {0} /\ k \in 0..Len(img)
    BY ImageLength
<1>2. /\ Len(m.areas) = k + 2 /\ SegmentsIn(m, pg, img, k)
      /\ heap.start = EndOf(m, k) /\ heap.start < heap.end
      /\ m.brk_start = heap.start /\ heap.end <= stack.start
    BY DEF Ready
<1>3. \A i \in 1..k : /\ m.areas[i].start < m.areas[i].end /\ m.areas[i].end <= heap.start
                      /\ \A j \in 1..(i - 1) : m.areas[j].end <= m.areas[i].start
    BY <1>1, <1>2, SegmentsBelow
<1>4. DOMAIN m.areas = 1..(k + 2)
    BY <1>2, MmFields
<1>5. \A i \in DOMAIN m.areas : /\ m.areas[i].start \in Boundary /\ m.areas[i].end \in Boundary
                                /\ m.areas[i].start \in Nat /\ m.areas[i].end \in Nat
    BY MmFields, AreasArePages DEF Boundary
<1>6. k + 1 \in DOMAIN m.areas /\ k + 2 \in DOMAIN m.areas
    BY <1>1, <1>4
<1>7. heap.start \in Nat /\ heap.end \in Nat /\ stack.start \in Nat
    BY <1>5, <1>6
<1>8. ASSUME NEW i \in DOMAIN m.areas, NEW j \in 1..(i - 1)
      PROVE  m.areas[j].end <= m.areas[i].start
    <2>1. CASE i = k + 2
        <3>1. CASE j = k + 1
            BY <1>2, <2>1, <3>1
        <3>2. CASE j # k + 1
            <4>1. j \in 1..k /\ j \in DOMAIN m.areas
                BY <1>1, <1>4, <2>1, <3>2
            <4>2. m.areas[j].end <= heap.start /\ m.areas[j].end \in Nat
                BY <1>3, <1>5, <4>1
            <4>3. \A a, b, c, d \in Nat : a <= b /\ b < c /\ c <= d => a <= d
                OBVIOUS
            <4>4. m.areas[j].end <= stack.start
                BY <1>2, <1>7, <4>2, <4>3, Zenon
            <4> QED BY <2>1, <4>4
        <3> QED BY <3>1, <3>2
    <2>2. CASE i = k + 1
        <3>1. j \in 1..k
            BY <1>1, <2>2
        <3> QED BY <1>3, <2>2, <3>1
    <2>3. CASE i # k + 2 /\ i # k + 1
        <3>1. i \in 1..k
            BY <1>1, <1>4, <2>3
        <3> QED BY <1>3, <3>1
    <2> QED BY <2>1, <2>2, <2>3
<1>9. FindVm(m, m.brk_start) = k + 1
    <2>1. ASSUME NEW i \in DOMAIN m.areas, Around(m, i, m.brk_start) PROVE i = k + 1
        <3>1. m.areas[i].start <= heap.start /\ heap.start < m.areas[i].end
            BY <1>2, <2>1 DEF Around
        <3>2. i \notin 1..k
            <4>1. i \in 1..k => m.areas[i].end <= heap.start
                BY <1>3
            <4>2. \A a, b \in Nat : a <= b => ~(b < a)
                OBVIOUS
            <4>3. m.areas[i].end \in Nat
                BY <1>5
            <4> QED BY <1>7, <3>1, <4>1, <4>2, <4>3, Zenon
        <3>3. i # k + 2
            <4>1. i = k + 2 => stack.start <= heap.start
                BY <3>1
            <4> QED BY <1>2, <1>7, <4>1
        <3> QED BY <1>1, <1>4, <3>2, <3>3
    <2>2. Around(m, k + 1, m.brk_start)
        BY <1>2, <1>7 DEF Around
    <2>3. FindVm(m, m.brk_start) # 0
        BY <1>6, <2>2, MmFields, FindVmIs
    <2>4. FindVm(m, m.brk_start) \in DOMAIN m.areas /\ Around(m, FindVm(m, m.brk_start), m.brk_start)
        BY <2>3, MmFields, FindVmIs
    <2> QED BY <2>1, <2>4
<1> QED BY <1>4, <1>5, <1>8, <1>9

\* The pages that brk maps are those the heap grows by.
LEMMA BrkExact ==
    ASSUME NEW m, MmOK(m), NEW pg, NEW addr \in Nat, Exact(m, pg)
    PROVE  Exact(Brk(m, pg, addr).mm, Brk(m, pg, addr).pages)
<1> DEFINE h == FindVm(m, m.brk_start)
           new == PageAlign(addr)
           b == Brk(m, pg, addr)
<1>1. BrkResult(m, pg, h, new, b)
    BY BrkIs
<1>2. h # 0 => h \in DOMAIN m.areas /\ Around(m, h, m.brk_start)
    BY MmFields, FindVmIs, Zenon
<1>3. new \in Boundary
    BY Boundaries
<1> HIDE DEF h, new, b
<1>4. CASE h = 0 \/ m.areas[h].end >= new
    <2>1. b.mm.areas = m.areas /\ b.pages = pg
        BY <1>1, <1>4 DEF BrkResult
    <2> QED BY <2>1 DEF Exact, b
<1>5. CASE ~(h = 0 \/ m.areas[h].end >= new)
    <2> DEFINE old == m.areas[h]
               area == [start |-> old.end, end |-> new]
    <2>1. h # 0 /\ h \in DOMAIN m.areas /\ Around(m, h, m.brk_start)
        BY <1>2, <1>5
    <2>2. /\ old.start \in Boundary /\ old.end \in Boundary
          /\ old.start \in Nat /\ old.end \in Nat /\ new \in Nat
        BY <1>3, <2>1, MmFields, AreasArePages DEF Boundary
    <2>3. m.brk_start \in Nat
        BY MmFields DEF Boundary
    <2>4. old.start <= old.end /\ old.end < new
        BY <1>5, <2>1, <2>2, <2>3 DEF Around
    <2>5. Aligned(old.start) /\ Aligned(old.end) /\ Aligned(new)
        BY <1>3, <2>2 DEF Boundary
    <2> HIDE DEF old
    <2>6. b.mm.areas[h].end = new /\ b.mm.areas[h].start = old.start /\ b.pages = Refreshed(pg, area)
          /\ Len(b.mm.areas) = Len(m.areas) /\ MmOK(b.mm)
          /\ \A i \in DOMAIN m.areas : i # h => b.mm.areas[i] = m.areas[i]
        BY <1>1, <2>1, <2>4 DEF BrkResult, old
    <2>7. PagesOf(old.start, new) = PagesOf(old.start, old.end) \cup PagesOf(old.end, new)
        <3>1. old.start <= old.end /\ old.end <= new
            BY <2>2, <2>4
        <3> QED BY <2>5, <3>1, Parts
    <2>8. Covered(b.mm.areas[h]) = Covered(m.areas[h]) \cup Covered(area)
        BY <2>6, <2>7 DEF Covered, old
    <2>9. DOMAIN b.mm.areas = DOMAIN m.areas
        BY <2>6, MmFields
    <2> HIDE DEF area
    <2>10. DOMAIN b.pages = DOMAIN pg \cup Covered(area)
        BY <2>6 DEF Refreshed
    <2>11. UNION {Covered(b.mm.areas[i]) : i \in DOMAIN b.mm.areas} =
           (UNION {Covered(m.areas[i]) : i \in DOMAIN m.areas}) \cup Covered(area)
        <3>1. ASSUME NEW n
              PROVE  (\E i \in DOMAIN m.areas : n \in Covered(b.mm.areas[i])) <=>
                     (\E i \in DOMAIN m.areas : n \in Covered(m.areas[i])) \/ n \in Covered(area)
            BY <2>1, <2>6, <2>8
        <3> QED BY <2>9, <3>1
    <2>12. DOMAIN pg = UNION {Covered(m.areas[i]) : i \in DOMAIN m.areas}
        BY DEF Exact
    <2>13. DOMAIN b.pages = UNION {Covered(b.mm.areas[i]) : i \in DOMAIN b.mm.areas}
        BY <2>10, <2>11, <2>12, Zenon
    <2> QED BY <2>13 DEF Exact, b
<1> QED BY <1>4, <1>5

\* What brk does to a laid out process: what is below the break has pages, and up
\* to brk_end nothing else changes.
LEMMA BrkReady ==
    ASSUME NEW img \in Image, WellFormed(img), NEW m, MmOK(m), NEW pg, Ready(m, pg, img),
           NEW addr \in Nat, m.brk_start <= addr
    PROVE  LET b == Brk(m, pg, addr)
           IN  /\ PagesOf(m.brk_start, b.mm.brk) \subseteq DOMAIN b.pages
               /\ b.mm.brk <= Top =>
                      /\ Ready(b.mm, b.pages, img) /\ b.mm.stack = m.stack
                      /\ b.mm.areas[Len(img) + 2] = m.areas[Len(img) + 2]
                      /\ \A n \in DOMAIN pg : Top <= n * Page /\ n \in Nat =>
                             n \in DOMAIN b.pages /\ b.pages[n] = pg[n]
<1> DEFINE k == Len(img)
           h == k + 1
           heap == m.areas[h]
           stack == m.areas[k + 2]
           new == PageAlign(addr)
           b == Brk(m, pg, addr)
<1>1. k \in Nat \ {0} /\ k \in 0..Len(img)
    BY ImageLength
<1>2. /\ Len(m.areas) = k + 2 /\ SegmentsIn(m, pg, img, k)
      /\ heap.start = EndOf(m, k) /\ heap.start < heap.end /\ Covered(heap) \subseteq DOMAIN pg
      /\ m.brk_start = heap.start /\ heap.end <= stack.start /\ Top <= stack.start
      /\ stack.end = stack.start + StackSize
    BY DEF Ready
<1>3. DOMAIN m.areas = 1..(k + 2) /\ FindVm(m, m.brk_start) = h
    BY ReadyOrder
<1>4. BrkResult(m, pg, h, new, b)
    BY <1>3, BrkIs
<1>5. h \in DOMAIN m.areas /\ k + 2 \in DOMAIN m.areas /\ k \in DOMAIN m.areas
      /\ k + 2 # h /\ k # h /\ h # 0
    BY <1>1, <1>3
<1>6. /\ new \in Boundary /\ heap.start \in Boundary /\ heap.end \in Boundary
      /\ stack.start \in Boundary
    BY <1>5, Boundaries, MmFields, AreasArePages
<1>7. /\ new \in Nat /\ heap.start \in Nat /\ heap.end \in Nat /\ stack.start \in Nat
      /\ Aligned(new) /\ Aligned(heap.start) /\ Aligned(heap.end)
    BY <1>6 DEF Boundary
<1>8. addr <= new /\ heap.start <= new
    <2>1. addr <= new
        BY Rounding
    <2> QED BY <1>2, <1>7, <2>1
<1> HIDE DEF h, heap, stack, new, b
<1>9. b.mm.brk = new /\ b.mm.brk_start = heap.start /\ b.mm.stack = m.stack
      /\ Len(b.mm.areas) = k + 2 /\ MmOK(b.mm)
      /\ b.mm.areas[k + 2] = stack /\ b.mm.areas[h].start = heap.start
      /\ \A i \in 1..k : b.mm.areas[i] = m.areas[i]
    <2>1. \A i \in 1..k : i \in DOMAIN m.areas /\ i # h
        BY <1>1, <1>3 DEF h
    <2>2. /\ b.mm.brk = new /\ b.mm.brk_start = m.brk_start /\ b.mm.stack = m.stack
          /\ Len(b.mm.areas) = Len(m.areas) /\ MmOK(b.mm)
          /\ \A i \in DOMAIN m.areas : i # h => b.mm.areas[i] = m.areas[i]
          /\ b.mm.areas[h].start = m.areas[h].start
        BY <1>4, <1>5 DEF BrkResult
    <2>3. \A i \in 1..k : b.mm.areas[i] = m.areas[i]
        BY <2>1, <2>2
    <2>4. b.mm.areas[k + 2] = stack
        BY <1>5, <2>2 DEF stack
    <2> QED BY <1>2, <2>2, <2>3, <2>4 DEF heap
<1>10. DOMAIN b.mm.areas = 1..(k + 2)
    BY <1>9, MmFields
<1>11. EndOf(b.mm, k) = heap.start
    <2>1. EndOf(m, k) = m.areas[k].end /\ EndOf(b.mm, k) = b.mm.areas[k].end
        BY <1>1 DEF EndOf
    <2>2. k \in 1..k
        BY <1>1
    <2> QED BY <1>2, <1>9, <2>1, <2>2
<1> DEFINE Pages == /\ PagesOf(heap.start, new) \subseteq DOMAIN b.pages
                    /\ Covered(b.mm.areas[h]) \subseteq DOMAIN b.pages
                    /\ heap.start < b.mm.areas[h].end /\ new <= b.mm.areas[h].end
           Below == /\ b.mm.areas[h].end <= stack.start
                    /\ SegmentsIn(b.mm, b.pages, img, k)
                    /\ \A n \in DOMAIN pg : Top <= n * Page /\ n \in Nat =>
                             n \in DOMAIN b.pages /\ b.pages[n] = pg[n]
<1>12. ASSUME heap.end >= new PROVE Pages /\ (new <= Top => Below)
    <2>1. b.mm.areas = m.areas /\ b.pages = pg
        BY <1>4, <1>12 DEF BrkResult, heap
    <2>2. PagesOf(heap.start, heap.end) = PagesOf(heap.start, new) \cup PagesOf(new, heap.end)
        BY <1>7, <1>8, <1>12, Parts
    <2>3. b.mm.areas[h] = heap /\ Covered(heap) \subseteq DOMAIN b.pages
        BY <1>2, <2>1 DEF heap
    <2>4. PagesOf(heap.start, new) \subseteq DOMAIN b.pages
        BY <2>2, <2>3 DEF Covered
    <2>5. Pages
        BY <1>2, <1>7, <1>12, <2>3, <2>4
    <2>6. SegmentsIn(b.mm, b.pages, img, k)
        BY <1>2, <2>1, Zenon DEF SegmentsIn
    <2>7. Below
        BY <1>2, <2>1, <2>3, <2>6
    <2> QED BY <2>5, <2>7
<1>13. ASSUME ~(heap.end >= new) PROVE Pages /\ (new <= Top => Below)
    <2> DEFINE area == [start |-> heap.end, end |-> new]
    <2>1. heap.end < new
        BY <1>7, <1>13
    <2>2. b.mm.areas[h].end = new /\ b.pages = Refreshed(pg, area)
        BY <1>4, <1>5, <2>1 DEF BrkResult, heap
    <2>3. PagesOf(heap.start, new) = PagesOf(heap.start, heap.end) \cup PagesOf(heap.end, new)
        <3>1. heap.start <= heap.end /\ heap.end <= new
            BY <1>2, <1>7, <2>1
        <3> QED BY <1>7, <3>1, Parts
    <2>4. Covered(b.mm.areas[h]) = PagesOf(heap.start, new)
        BY <1>9, <2>2 DEF Covered
    <2>5. area.start = heap.end /\ area.end = new /\ Covered(area) = PagesOf(heap.end, new)
        BY DEF Covered
    <2> HIDE DEF area
    <2>6. DOMAIN b.pages = DOMAIN pg \cup Covered(area)
        BY <2>2 DEF Refreshed
    <2>7. PagesOf(heap.start, new) \subseteq DOMAIN b.pages
        <3>1. PagesOf(heap.start, heap.end) \subseteq DOMAIN pg
            BY <1>2 DEF Covered
        <3> QED BY <2>3, <2>5, <2>6, <3>1
    <2>8. Pages
        BY <1>2, <1>7, <2>1, <2>2, <2>4, <2>7
    <2>9. ASSUME new <= Top PROVE Below
        <3>1. b.mm.areas[h].end <= stack.start
            BY <1>2, <1>7, <2>2, <2>9, Sizes
        <3>2. SegmentsIn(b.mm, b.pages, img, k)
            <4>1. \A i \in 1..k : i \in DOMAIN b.mm.areas /\ b.mm.areas[i] = m.areas[i]
                BY <1>1, <1>9, <1>10
            <4>2. \A i \in 1..k : AreaOf(img[i]).end <= area.start
                <5> TAKE i \in 1..k
                <5>1. m.areas[i] = AreaOf(img[i]) /\ i \in DOMAIN m.areas
                    BY <1>2 DEF SegmentsIn
                <5>2. m.areas[i].end <= EndOf(m, k)
                    BY <1>1, <1>2, SegmentsBelow
                <5>3. m.areas[i].end \in Nat
                    BY <5>1, MmFields, AreasArePages DEF Boundary
                <5>4. \A a, c, d \in Nat : a <= c /\ c < d => a <= d
                    OBVIOUS
                <5>5. m.areas[i].end <= heap.end
                    BY <1>2, <1>7, <5>2, <5>3, <5>4
                <5> QED BY <2>5, <5>1, <5>5
            <4>3. SegmentsIn(b.mm, Refreshed(pg, area), img, k)
                BY <1>1, <1>2, <1>7, <2>5, <4>1, <4>2, SegmentsRefreshed
            <4> QED BY <2>2, <4>3
        <3>3. ASSUME NEW n \in DOMAIN pg, n \in Nat, Top <= n * Page
              PROVE  n \in DOMAIN b.pages /\ b.pages[n] = pg[n]
            <4>1. n \notin PagesOf(heap.end, new)
                <5>1. n \in PagesOf(heap.end, new) => n * Page + Page <= new
                    BY <1>7, WholePages
                <5>2. n * Page \in Nat /\ Page \in Nat \ {0} /\ Top \in Nat
                    BY <3>3, Sizes
                <5> QED BY <1>7, <2>9, <3>3, <5>1, <5>2
            <4>2. n \notin Covered(area)
                BY <2>5, <4>1
            <4>3. n \in DOMAIN Refreshed(pg, area) /\ Refreshed(pg, area)[n] = pg[n]
                BY <4>2, Zenon DEF Refreshed
            <4> QED BY <2>2, <4>3
        <3> QED BY <3>1, <3>2, <3>3
    <2> QED BY <2>8, <2>9
<1>14. Pages /\ (new <= Top => Below)
    BY <1>12, <1>13
<1> HIDE DEF Pages, Below
<1>15. ASSUME new <= Top PROVE Ready(b.mm, b.pages, img)
    <2>1. Pages /\ Below
        BY <1>14, <1>15
    <2> QED BY <1>2, <1>8, <1>9, <1>11, <2>1 DEF Ready, Pages, Below, h
<1>16. new <= Top => /\ Ready(b.mm, b.pages, img) /\ b.mm.stack = m.stack
                     /\ b.mm.areas[k + 2] = stack
                     /\ \A n \in DOMAIN pg : Top <= n * Page /\ n \in Nat =>
                             n \in DOMAIN b.pages /\ b.pages[n] = pg[n]
    BY <1>9, <1>14, <1>15 DEF Below
<1> QED BY <1>2, <1>9, <1>14, <1>16 DEF Pages, stack, b

\* The page in front of a boundary
LEMMA DividedPage ==
    ASSUME NEW n \in Nat
    PROVE  (n * Page + Page) \div Page - 1 = n
<1>1. Page \in Nat \ {0} /\ n + 1 \in Nat
    BY Sizes
<1>2. (n + 1) * Page = n * Page + Page
    BY Multiples
<1>3. ((n + 1) * Page) \div Page = n + 1
    BY <1>1
<1> QED BY <1>2, <1>3

\* Ready does not look at the stack pointer nor at what pages carry otherwise.
LEMMA ReadyStays ==
    ASSUME NEW img, NEW m, NEW pg, Ready(m, pg, img), NEW mm2, NEW pg2,
           mm2.areas = m.areas /\ mm2.brk_start = m.brk_start /\ mm2.brk = m.brk,
           DOMAIN pg2 = DOMAIN pg, SegmentsIn(m, pg2, img, Len(img))
    PROVE  Ready(mm2, pg2, img)
<1>1. SegmentsIn(mm2, pg2, img, Len(img))
    BY Zenon DEF SegmentsIn
<1>2. EndOf(mm2, Len(img)) = EndOf(m, Len(img))
    BY Zenon DEF EndOf
<1> QED BY <1>1, <1>2, Zenon DEF Ready

\* The stack, and the arguments below the first break
LEMMA StackLoaded ==
    ASSUME NEW img \in Image, WellFormed(img), NEW m, MmOK(m), NEW pg, DOMAIN pg \subseteq Nat,
           WithHeap(m, pg, img), NEW sbrks \in Nat
    PROVE  LET map == Map(m, pg, 0, StackSize)
               brk == Brk(map.mm, map.pages, map.mm.brk + sbrks * Page)
               argsAt == PagesOf(map.mm.brk, brk.mm.brk)
               stackAt == {((map.vma.start + StackSize) \div Page) - 1}
           IN  /\ map.halted = "no" /\ \E base, len : Appended(m, pg, base, len, map)
               /\ argsAt \subseteq DOMAIN brk.pages
               /\ brk.mm.brk <= Top =>
                      Laid([brk.mm EXCEPT !.stack = map.vma.start + StackSize],
                           Write(Write(brk.pages, argsAt, "args"), stackAt, "stack"), img)
<1> DEFINE k == Len(img)
           map == Map(m, pg, 0, StackSize)
           brk == Brk(map.mm, map.pages, map.mm.brk + sbrks * Page)
           argsAt == PagesOf(map.mm.brk, brk.mm.brk)
           stackAt == {((map.vma.start + StackSize) \div Page) - 1}
           mm2 == [brk.mm EXCEPT !.stack = map.vma.start + StackSize]
           pg1 == Write(brk.pages, argsAt, "args")
           pg2 == Write(pg1, stackAt, "stack")
<1>1. /\ map.halted = "no" /\ \E base, len : Appended(m, pg, base, len, map)
      /\ Ready(map.mm, map.pages, img)
      /\ map.mm.brk = map.mm.brk_start
      /\ map.mm.areas[k + 2] = map.vma
      /\ map.vma.end = map.vma.start + StackSize
      /\ map.vma \in WholeArea /\ Covered(map.vma) \subseteq DOMAIN map.pages
    BY StackMapped
<1>2. MmOK(map.mm) /\ DOMAIN map.pages \subseteq Nat
    <2>1. MapOK(map)
        BY MapType, Sizes
    <2> QED BY <2>1 DEF MapOK
<1> HIDE DEF map
<1> DEFINE addr == map.mm.brk + sbrks * Page
<1>3. addr \in Nat /\ map.mm.brk_start <= addr
    <2>1. map.mm.brk \in Nat
        BY <1>2, MmFields DEF Boundary
    <2>2. sbrks * Page \in Nat
        BY Sizes
    <2> QED BY <1>1, <2>1, <2>2
<1>4. /\ PagesOf(map.mm.brk_start, brk.mm.brk) \subseteq DOMAIN brk.pages
      /\ brk.mm.brk <= Top =>
             /\ Ready(brk.mm, brk.pages, img) /\ brk.mm.stack = map.mm.stack
             /\ brk.mm.areas[k + 2] = map.mm.areas[k + 2]
             /\ \A n \in DOMAIN map.pages : Top <= n * Page /\ n \in Nat =>
                    n \in DOMAIN brk.pages /\ brk.pages[n] = map.pages[n]
    <2> HIDE DEF addr
    <2> SUFFICES LET b == Brk(map.mm, map.pages, addr)
                 IN  /\ PagesOf(map.mm.brk_start, b.mm.brk) \subseteq DOMAIN b.pages
                     /\ b.mm.brk <= Top =>
                            /\ Ready(b.mm, b.pages, img) /\ b.mm.stack = map.mm.stack
                            /\ b.mm.areas[k + 2] = map.mm.areas[k + 2]
                            /\ \A n \in DOMAIN map.pages : Top <= n * Page /\ n \in Nat =>
                                   n \in DOMAIN b.pages /\ b.pages[n] = map.pages[n]
        BY DEF addr
    <2> QED BY <1>1, <1>2, <1>3, BrkReady
<1>5. argsAt \subseteq DOMAIN brk.pages
    BY <1>1, <1>4
<1>6. MmOK(brk.mm)
    <2>1. BrkResult(map.mm, map.pages, FindVm(map.mm, map.mm.brk_start), PageAlign(addr), brk)
        BY <1>2, <1>3, BrkIs
    <2> HIDE DEF brk, addr
    <2> QED BY <2>1, Zenon DEF BrkResult
<1> HIDE DEF brk, argsAt
<1>7. ASSUME brk.mm.brk <= Top PROVE Laid(mm2, pg2, img)
    <2>1. /\ Ready(brk.mm, brk.pages, img) /\ brk.mm.areas[k + 2] = map.vma
          /\ \A n \in DOMAIN map.pages : Top <= n * Page /\ n \in Nat =>
                 n \in DOMAIN brk.pages
        BY <1>1, <1>4, <1>7
    <2>2. Top <= map.vma.start
        BY <1>1 DEF Ready
    <2> DEFINE area == map.vma
    <2>3. area.start \in Boundary /\ area.end \in Boundary /\ area.end = area.start + StackSize
        BY <1>1, AreasArePages
    <2>4. /\ Aligned(area.start) /\ Aligned(area.end) /\ area.start < area.end
          /\ area.start \in Nat /\ area.end \in Nat
        BY <2>3, Sizes DEF Boundary
    <2> HIDE DEF area
    <2>5. PICK n \in PagesOf(area.start, area.end) : n \in Nat /\ area.end = n * Page + Page
        BY <2>4, EndPages
    <2>6. area.start <= n * Page /\ n * Page \in Nat
        <3>1. n * Page \in Nat
            BY <2>5, Sizes
        <3> QED BY <2>4, <2>5, <3>1, WholePages
    <2>7. n \in DOMAIN brk.pages
        <3>1. n \in DOMAIN map.pages
            BY <1>1, <2>5 DEF Covered, area
        <3>2. Top <= n * Page
            <4>1. Top <= area.start
                BY <2>2 DEF area
            <4> QED BY <2>4, <2>6, <4>1, Sizes
        <3> QED BY <2>1, <2>5, <3>1, <3>2
    <2>8. n \in stackAt
        <3>1. map.vma.start + StackSize = n * Page + Page
            BY <2>3, <2>5 DEF area
        <3>2. (n * Page + Page) \div Page - 1 = n
            BY <2>5, DividedPage
        <3> QED BY <3>1, <3>2
    <2> HIDE DEF stackAt
    <2>9. DOMAIN pg1 = DOMAIN brk.pages /\ SegmentsIn(brk.mm, pg1, img, k)
        BY <2>1, WriteIs, SegmentsWritten DEF Ready
    <2> HIDE DEF pg1
    <2>10. DOMAIN pg2 = DOMAIN brk.pages /\ SegmentsIn(brk.mm, pg2, img, k)
        BY <2>9, WriteIs, SegmentsWritten
    <2>11. n \in DOMAIN pg2 /\ "stack" \in pg2[n]
        <3>1. n \in DOMAIN pg1 \cap stackAt
            BY <2>7, <2>8, <2>9
        <3> QED BY <2>7, <2>10, <3>1, WriteIs
    <2> HIDE DEF pg2
    <2>12. /\ mm2.areas = brk.mm.areas /\ mm2.brk_start = brk.mm.brk_start /\ mm2.brk = brk.mm.brk
           /\ mm2.stack = map.vma.start + StackSize
        BY <1>6 DEF MmOK
    <2> HIDE DEF mm2
    <2>13. Ready(mm2, pg2, img)
        BY <2>1, <2>10, <2>12, ReadyStays
    <2>14. mm2.stack = mm2.areas[k + 2].end
        BY <1>1, <2>1, <2>12
    <2>15. mm2.stack = n * Page + Page
        BY <2>3, <2>5, <2>12 DEF area
    <2> QED BY <2>11, <2>13, <2>14, <2>15 DEF Laid
<1> QED BY <1>1, <1>5, <1>7, Zenon DEF map, brk, argsAt

\* Up to brk_end, brk leaves a process laid out.
LEMMA BrkLaid ==
    ASSUME NEW img \in Image, WellFormed(img), NEW m, MmOK(m), NEW pg, DOMAIN pg \subseteq Nat,
           Laid(m, pg, img), NEW addr \in Nat, m.brk_start <= addr, Brk(m, pg, addr).mm.brk <= Top
    PROVE  Laid(Brk(m, pg, addr).mm, Brk(m, pg, addr).pages, img)
<1> DEFINE k == Len(img)
           b == Brk(m, pg, addr)
           stack == m.areas[k + 2]
<1>1. Ready(m, pg, img) /\ m.stack = stack.end
    BY DEF Laid
<1>2. PICK n \in DOMAIN pg : m.stack = n * Page + Page /\ "stack" \in pg[n]
    BY DEF Laid
<1>3. /\ Ready(b.mm, b.pages, img) /\ b.mm.stack = m.stack
      /\ b.mm.areas[k + 2] = m.areas[k + 2]
      /\ \A i \in DOMAIN pg : Top <= i * Page /\ i \in Nat =>
             i \in DOMAIN b.pages /\ b.pages[i] = pg[i]
    BY <1>1, BrkReady
<1> HIDE DEF b
<1>4. Top <= stack.start /\ stack.end = stack.start + StackSize
    BY <1>1 DEF Ready
<1>5. stack.start \in Nat
    <2>1. DOMAIN m.areas = 1..(k + 2) /\ k \in Nat
        BY <1>1, ReadyOrder, ImageLength
    <2>2. k + 2 \in DOMAIN m.areas
        BY <2>1
    <2> QED BY <2>2, MmFields, AreasArePages DEF Boundary
<1> HIDE DEF stack
<1>6. Top <= n * Page
    <2>1. Aligned(StackSize) /\ StackSize > 0 /\ Page \in Nat \ {0} /\ Top \in Nat /\ StackSize \in Nat
        BY Sizes
    <2>2. Page <= StackSize
        <3>1. Aligned(0) /\ 0 < StackSize
            BY <2>1, Sizes
        <3>2. 0 + Page <= StackSize
            BY <2>1, <3>1, AlignedSum
        <3> QED BY <2>1, <3>2
    <2>3. n \in Nat /\ n * Page \in Nat
        BY <2>1
    <2>4. n * Page + Page = stack.start + StackSize
        BY <1>1, <1>2, <1>4
    <2> QED BY <1>4, <1>5, <2>1, <2>2, <2>3, <2>4
<1>7. n \in DOMAIN b.pages /\ b.pages[n] = pg[n]
    BY <1>3, <1>6
<1>8. b.mm.stack = b.mm.areas[k + 2].end
    BY <1>1, <1>3 DEF stack
<1> QED BY <1>2, <1>3, <1>7, <1>8 DEF Laid, b

-----------------------------------------------------------------------------
(* The invariant is inductive.                                             *)

\* The processes, and the one that is loaded
LEMMA ProcessesAre ==
    ASSUME TypeInv
    PROVE  /\ pids \in Nat \ {0} /\ 1..pids \subseteq Proc /\ 0 \notin Proc
           /\ loader # Idle => /\ loader.pid \in 1..pids /\ loader.pid \in Proc
                               /\ loader.pid \notin exited /\ loader.pid # 0
                               /\ loader.next \in Nat \ {0} /\ loader.sbrks \in Nat
           /\ loader = Idle => loader.pid = 0
<1>1. LastPid \in Nat \ {0} /\ pids \in 1..LastPid
    BY ProcessMemAssumption DEF TypeInv, Proc
<1>2. pids \in Nat \ {0} /\ 1..pids \subseteq Proc /\ 0 \notin Proc
    BY <1>1 DEF Proc
<1>3. ASSUME loader # Idle
      PROVE  /\ loader.pid \in 1..pids /\ loader.pid \notin exited
             /\ loader.next \in Nat \ {0} /\ loader.sbrks \in Nat
    BY <1>3 DEF TypeInv
<1>4. loader = Idle => loader.pid = 0
    BY DEF Idle
<1> QED BY <1>2, <1>3, <1>4

\* A step gives one process another memory.
LEMMA MemChanges ==
    ASSUME MemInv, NEW p \in Proc, NEW x, NEW pg, MmOK(x), DOMAIN pg \subseteq Nat,
           mm' = [mm EXCEPT ![p] = x], pages' = [pages EXCEPT ![p] = pg]
    PROVE  /\ MemInv' /\ mm'[p] = x /\ pages'[p] = pg
           /\ \A q \in Proc \ {p} : mm'[q] = mm[q] /\ pages'[q] = pages[q]
<1>1. /\ mm = [q \in Proc |-> mm[q]] /\ pages = [q \in Proc |-> pages[q]]
      /\ \A q \in Proc : MmOK(mm[q]) /\ DOMAIN pages[q] \subseteq Nat
    BY DEF MemInv
<1>2. /\ DOMAIN mm' = Proc /\ mm'[p] = x /\ \A q \in Proc \ {p} : mm'[q] = mm[q]
      /\ mm' = [q \in Proc |-> mm'[q]]
    BY <1>1
<1>3. /\ DOMAIN pages' = Proc /\ pages'[p] = pg /\ \A q \in Proc \ {p} : pages'[q] = pages[q]
      /\ pages' = [q \in Proc |-> pages'[q]]
    BY <1>1
<1>4. ASSUME NEW q \in Proc PROVE MmOK(mm'[q]) /\ DOMAIN pages'[q] \subseteq Nat
    <2>1. CASE q = p
        BY <1>2, <1>3, <2>1
    <2>2. CASE q # p
        BY <1>1, <1>2, <1>3, <2>2
    <2> QED BY <2>1, <2>2
<1>5. MemInv'
    BY <1>2, <1>3, <1>4 DEF MemInv
<1> QED BY <1>2, <1>3, <1>5

\* A process that a step does not touch
LEMMA OthersStay ==
    ASSUME NEW q \in Proc, ProcInv(q), mm'[q] = mm[q], pages'[q] = pages[q], image'[q] = image[q],
           q \in sane' => q \in sane, q \in exited' <=> q \in exited,
           loader'.pid # q => loader.pid # q
    PROVE  ProcInv(q)'
<1>1. ASSUME q \in sane'
      PROVE  /\ Exact(mm'[q], pages'[q])
             /\ q \in exited' \/ (image'[q] = NoImage /\ loader'.pid # q) => mm'[q].areas = << >>
             /\ q \notin exited' /\ image'[q] # NoImage =>
                    WellFormed(image'[q]) /\ Laid(mm'[q], pages'[q], image'[q])
    BY <1>1, Zenon DEF ProcInv
<1> QED BY <1>1, Zenon DEF ProcInv

\* What the loader has to show of a step in front of the last
Advances(x, pg, img, next) ==
    /\ next <= Len(img) + 2
    /\ next <= Len(img) + 1 => InLoop(x, pg, img, next)
    /\ next = Len(img) + 2 => WithHeap(x, pg, img)
    /\ Exact(mm[loader.pid], pages[loader.pid]) => Exact(x, pg)

\* A step of the loader that does so keeps the invariant.
LEMMA LoadStep ==
    ASSUME IInv, Loading, NEW x, NEW pg, MmOK(x), DOMAIN pg \subseteq Nat,
           mm' = [mm EXCEPT ![loader.pid] = x], pages' = [pages EXCEPT ![loader.pid] = pg],
           loader' = [loader EXCEPT !.next = @ + 1], UNCHANGED <<image, pids, exited, sane>>,
           halted' \in {"no", "panic", "hang", "corrupt"},
           WellFormed(loader.image) =>
               halted' = "no" /\ Advances(x, pg, loader.image, loader.next + 1)
    PROVE  IInv'
<1> DEFINE p == loader.pid
           img == loader.image
<1>1. loader # Idle /\ halted = "no" /\ MemInv /\ TypeInv /\ HaltInv /\ LoadInv
      /\ \A q \in Proc : ProcInv(q)
    BY DEF IInv, Loading
<1>2. /\ pids \in Nat \ {0} /\ p \in 1..pids /\ p \in Proc /\ p \notin exited /\ p # 0
      /\ loader.next \in Nat \ {0} /\ img \in Image
    BY <1>1, ProcessesAre DEF TypeInv
<1>3. /\ MemInv' /\ mm'[p] = x /\ pages'[p] = pg
      /\ \A q \in Proc \ {p} : mm'[q] = mm[q] /\ pages'[q] = pages[q]
    BY <1>1, <1>2, MemChanges
<1>4. loader \in [pid : (1..pids) \ exited, image : Image \cup {NoImage}, next : Nat \ {0}, sbrks : Nat]
    BY <1>1 DEF TypeInv
<1>5. /\ loader'.pid = p /\ loader'.image = img /\ loader'.next = loader.next + 1
      /\ loader' \in [pid : (1..pids) \ exited, image : Image \cup {NoImage},
                      next : Nat \ {0}, sbrks : Nat]
    BY <1>2, <1>4
<1>6. loader' # Idle'
    BY <1>2, <1>5 DEF Idle
<1> HIDE DEF p, img
<1>7. TypeInv'
    <2>1. loader'.image \in Image
        BY <1>2, <1>5
    <2> QED BY <1>1, <1>5, <2>1, Zenon DEF TypeInv
<1>8. HaltInv'
    <2>1. halted' # "no" => ~WellFormed(loader'.image)
        BY <1>5, Zenon DEF img
    <2>2. loader'.pid \in sane' => WellFormed(loader'.image)
        BY <1>1, <1>5, Zenon DEF HaltInv, p, img
    <2> QED BY <1>6, <2>1, <2>2, Zenon DEF HaltInv
<1>9. WellFormed(img) => image[p] = NoImage
    BY <1>1, Zenon DEF LoadInv, p, img
<1>10. LoadInv'
    <2>1. ASSUME WellFormed(img)
          PROVE  /\ image'[p] = NoImage /\ loader.next + 1 \in 1..(Len(img) + 2)
                 /\ loader.next + 1 <= Len(img) + 1 => InLoop(mm'[p], pages'[p], img, loader.next + 1)
                 /\ loader.next + 1 = Len(img) + 2 => WithHeap(mm'[p], pages'[p], img)
        <3>1. Advances(x, pg, img, loader.next + 1)
            BY <2>1 DEF img
        <3>2. loader.next + 1 \in 1..(Len(img) + 2)
            <4>1. loader.next + 1 <= Len(img) + 2
                BY <3>1 DEF Advances
            <4>2. Len(img) \in Nat
                BY <1>2, <2>1, ImageLength
            <4> QED BY <1>2, <4>1, <4>2
        <3> QED BY <1>3, <1>9, <2>1, <3>1, <3>2, Zenon DEF Advances
    <2> QED BY <1>5, <2>1, Zenon DEF LoadInv
<1>11. ASSUME NEW q \in Proc PROVE ProcInv(q)'
    <2>1. CASE q # p
        <3>1. mm'[q] = mm[q] /\ pages'[q] = pages[q]
            BY <1>3, <2>1
        <3>2. loader'.pid # q => loader.pid # q
            BY <1>5 DEF p
        <3> QED BY <1>1, <3>1, <3>2, OthersStay, Zenon
    <2>2. CASE q = p
        <3>1. ASSUME p \in sane
              PROVE  Exact(mm'[p], pages'[p]) /\ image'[p] = NoImage
            <4>1. WellFormed(img)
                BY <1>1, <3>1, Zenon DEF HaltInv, p, img
            <4>2. Exact(mm[p], pages[p])
                BY <1>1, <1>2, <3>1, Zenon DEF ProcInv
            <4>3. Exact(x, pg)
                BY <4>1, <4>2, Zenon DEF Advances, img, p
            <4> QED BY <1>3, <1>9, <4>1, <4>3
        <3> QED BY <1>2, <1>5, <2>2, <3>1, Zenon DEF ProcInv
    <2> QED BY <2>1, <2>2
<1> QED BY <1>3, <1>7, <1>8, <1>10, <1>11, Zenon DEF IInv

\* Exactness is about the areas and the mapped pages only.
LEMMA ExactStays ==
    ASSUME NEW m, NEW pg, Exact(m, pg), NEW mm2, NEW pg2,
           mm2.areas = m.areas, DOMAIN pg2 = DOMAIN pg
    PROVE  Exact(mm2, pg2)
  BY Zenon DEF Exact

\* The actions, one by one: the turns of the loop ...
LEMMA SegmentStep ==
    ASSUME IInv, Segment
    PROVE  IInv'
<1> DEFINE p == loader.pid
           img == loader.image
           k == loader.next
           s == img[k]
           map == Map(mm[p], pages[p], s.vaddr, s.memsz)
           pg2 == Write(map.pages, Touched(s), k)
           m == mm[p]
           pg == pages[p]
<1>1. Loading /\ loader # Idle /\ halted = "no" /\ k <= Len(img)
    BY Zenon DEF Segment, Loading
<1>2. MemInv /\ TypeInv /\ LoadInv
    BY DEF IInv
<1>3. p \in Proc /\ k \in Nat \ {0} /\ img \in Image
    BY <1>1, <1>2, ProcessesAre DEF TypeInv
<1>4. img \in Seq(SegmentType)
    BY <1>3, ImageIs
<1>5. k \in DOMAIN img /\ s \in SegmentType /\ s.vaddr \in Nat /\ s.memsz \in Nat
    <2> HIDE DEF p, img, k
    <2>1. k \in DOMAIN img
        BY <1>1, <1>3, <1>4
    <2>2. s \in SegmentType
        BY <1>4, <2>1
    <2> HIDE DEF s
    <2> QED BY <2>1, <2>2 DEF SegmentType
<1>6. MmOK(m) /\ DOMAIN pg \subseteq Nat
    BY <1>2, <1>3 DEF MemInv
<1>7. /\ mm' = [mm EXCEPT ![p] = map.mm] /\ pages' = [pages EXCEPT ![p] = pg2]
      /\ halted' = IF map.halted = "no" /\ ~(Touched(s) \subseteq DOMAIN map.pages)
                   THEN "panic" ELSE map.halted
      /\ loader' = [loader EXCEPT !.next = @ + 1] /\ UNCHANGED <<image, pids, exited, sane>>
    BY Zenon DEF Segment
<1> HIDE DEF p, img, k, s
<1>8. MapOK(map)
    BY <1>5, <1>6, MapType
<1>9. ASSUME WellFormed(img)
      PROVE  halted' = "no" /\ Advances(map.mm, pg2, img, k + 1)
    <2>1. InLoop(m, pg, img, k)
        <3>1. k <= Len(img) + 1
            BY <1>1, <1>3, <1>4
        <3> QED BY <1>1, <1>2, <1>9, <3>1 DEF LoadInv, p, img, k
    <2>2. /\ map.halted = "no" /\ Touched(s) \subseteq DOMAIN map.pages
          /\ InLoop(map.mm, pg2, img, k + 1)
        BY <1>3, <1>5, <1>6, <1>9, <2>1, SegmentLoaded DEF s
    <2>3. Appended(m, pg, AreaOf(s).start, PageAlign(s.memsz), map)
        BY <1>3, <1>5, <1>6, <1>9, <2>1, SegmentLands DEF s
    <2> HIDE DEF map, m, pg
    <2>4. ASSUME Exact(m, pg) PROVE Exact(map.mm, pg2)
        <3>1. Exact(map.mm, map.pages)
            BY <1>6, <1>8, <2>3, <2>4, ExactAppended DEF MapOK
        <3>2. DOMAIN pg2 = DOMAIN map.pages
            BY WriteIs
        <3> QED BY <3>1, <3>2, ExactStays
    <2>5. k + 1 <= Len(img) + 2 /\ k + 1 # Len(img) + 2
        BY <1>1, <1>3, <1>4
    <2>6. halted' = "no"
        BY <1>7, <2>2, Zenon
    <2> HIDE DEF pg2
    <2> QED BY <2>2, <2>4, <2>5, <2>6, Zenon DEF Advances, m, pg, p
<1>10. DOMAIN pg2 \subseteq Nat /\ MmOK(map.mm)
    BY <1>8, WriteIs DEF MapOK
<1>11. halted' \in {"no", "panic", "hang", "corrupt"}
    BY <1>7, <1>8 DEF MapOK
<1> HIDE DEF map, pg2
<1>12. WellFormed(loader.image) => halted' = "no" /\ Advances(map.mm, pg2, loader.image, loader.next + 1)
    BY <1>9 DEF img, k
<1> QED BY <1>1, <1>7, <1>10, <1>11, <1>12, LoadStep DEF p

\* ... the heap ...
LEMMA HeapStep ==
    ASSUME IInv, Heap
    PROVE  IInv'
<1> DEFINE p == loader.pid
           img == loader.image
           k == loader.next
           map == Map(mm[p], pages[p], 0, HeapSize)
           mm2 == [map.mm EXCEPT !.brk_start = map.vma.start, !.brk = map.vma.start, !.brk_end = Top]
           m == mm[p]
           pg == pages[p]
<1>1. Loading /\ loader # Idle /\ halted = "no" /\ k = Len(img) + 1
    BY Zenon DEF Heap, Loading
<1>2. MemInv /\ TypeInv /\ LoadInv
    BY DEF IInv
<1>3. p \in Proc /\ img \in Image
    BY <1>1, <1>2, ProcessesAre DEF TypeInv
<1>4. MmOK(m) /\ DOMAIN pg \subseteq Nat
    BY <1>2, <1>3 DEF MemInv
<1>5. /\ mm' = [mm EXCEPT ![p] = mm2] /\ pages' = [pages EXCEPT ![p] = map.pages]
      /\ halted' = map.halted
      /\ loader' = [loader EXCEPT !.next = @ + 1] /\ UNCHANGED <<image, pids, exited, sane>>
    BY Zenon DEF Heap
<1> HIDE DEF p, img, k
<1>6. MapOK(map)
    BY <1>4, MapType, Sizes
<1>7. MmOK(mm2) /\ mm2.areas = map.mm.areas
    <2>1. MmOK(map.mm) /\ map.vma.start \in Boundary
        BY <1>6, AreasArePages DEF MapOK
    <2>2. Top \in Boundary
        BY Sizes DEF Boundary
    <2> HIDE DEF map
    <2> QED BY <2>1, <2>2 DEF MmOK
<1>8. ASSUME WellFormed(img)
      PROVE  halted' = "no" /\ Advances(mm2, map.pages, img, k + 1)
    <2>1. InLoop(m, pg, img, Len(img) + 1)
        <3>1. k <= Len(img) + 1
            BY <1>1, <1>3, <1>8, ImageLength
        <3>2. InLoop(m, pg, img, k)
            BY <1>1, <1>2, <1>8, <3>1 DEF LoadInv, p, img, k
        <3> QED BY <1>1, <3>2
    <2>2. /\ map.halted = "no" /\ \E base, len : Appended(m, pg, base, len, map)
          /\ WithHeap(mm2, map.pages, img)
        BY <1>3, <1>4, <1>8, <2>1, HeapLoaded, Zenon
    <2> HIDE DEF map, m, pg, mm2
    <2>3. ASSUME Exact(m, pg) PROVE Exact(mm2, map.pages)
        <3>1. Exact(map.mm, map.pages)
            BY <1>4, <1>6, <2>2, <2>3, ExactAppended DEF MapOK
        <3> QED BY <1>7, <3>1, ExactStays
    <2>4. k + 1 = Len(img) + 2 /\ k + 1 <= Len(img) + 2 /\ ~(k + 1 <= Len(img) + 1)
        BY <1>1, <1>3, <1>8, ImageLength
    <2>5. halted' = "no"
        BY <1>5, <2>2, Zenon
    <2> QED BY <2>2, <2>3, <2>4, <2>5, Zenon DEF Advances, m, pg, p
<1>9. DOMAIN map.pages \subseteq Nat
    BY <1>6 DEF MapOK
<1>10. halted' \in {"no", "panic", "hang", "corrupt"}
    BY <1>5, <1>6 DEF MapOK
<1> HIDE DEF map, mm2
<1>11. WellFormed(loader.image) => halted' = "no" /\ Advances(mm2, map.pages, loader.image, loader.next + 1)
    BY <1>8 DEF img, k
<1> QED BY <1>1, <1>5, <1>7, <1>9, <1>10, <1>11, LoadStep DEF p

\* What holds when execve, brk, fork and exit are called
LEMMA Running ==
    ASSUME IInv, NEW p \in Proc, Runs(p)
    PROVE  /\ halted = "no" /\ loader = Idle /\ loader.pid = 0
           /\ p \in 1..pids /\ p \notin exited
           /\ MmOK(mm[p]) /\ DOMAIN pages[p] \subseteq Nat /\ ProcInv(p)
           /\ image[p] # NoImage => image[p] \in Image
           /\ \A q \in Proc : q # 0
<1>1. halted = "no" /\ loader = Idle /\ p \in (1..pids) \ exited
    BY DEF Runs
<1>2. MmOK(mm[p]) /\ DOMAIN pages[p] \subseteq Nat /\ ProcInv(p) /\ TypeInv
    BY DEF IInv, MemInv
<1>3. image[p] \in Image \cup {NoImage}
    BY <1>2 DEF TypeInv
<1>4. \A q \in Proc : q # 0
    BY <1>2, ProcessesAre
<1> QED BY <1>1, <1>2, <1>3, <1>4 DEF Idle

\* A memory without areas, as it is before and after unloading
LEMMA NoAreas ==
    /\ MmOK(NoMm) /\ NoMm.areas = << >> /\ NoMm.brk_end = 0 /\ NoMm.cache = 0
    /\ \A m, pg : m.areas = << >> /\ DOMAIN pg = {} => Exact(m, pg)
    /\ \A m, pg : Exact(m, pg) => DOMAIN Unmapped(m, pg) = {}
<1>1. 0 \in Boundary
    BY Boundaries
<1>2. MmOK(NoMm) /\ NoMm.areas = << >> /\ NoMm.brk_end = 0 /\ NoMm.cache = 0
    BY <1>1 DEF MmOK, NoMm
<1>3. \A m, pg : m.areas = << >> /\ DOMAIN pg = {} => Exact(m, pg)
    BY DEF Exact
<1>4. ASSUME NEW m, NEW pg, Exact(m, pg) PROVE DOMAIN Unmapped(m, pg) = {}
    <2>1. DOMAIN Unmapped(m, pg) = DOMAIN pg \ UNION {Covered(m.areas[i]) : i \in DOMAIN m.areas}
        BY DEF Unmapped
    <2>2. DOMAIN pg = UNION {Covered(m.areas[i]) : i \in DOMAIN m.areas}
        BY <1>4 DEF Exact
    <2> QED BY <2>1, <2>2
<1> QED BY <1>2, <1>3, <1>4

\* The unloading in front of a load
LEMMA ExecStep ==
    ASSUME IInv, NEW p \in Proc, NEW img \in Image \cup {NoImage}, NEW args \in 0..MaxArgs,
           Exec(p, img, args)
    PROVE  IInv'
<1> DEFINE pg == Unmapped(mm[p], pages[p])
<1>1. /\ pages' = [pages EXCEPT ![p] = Unmapped(mm[p], @)] /\ mm' = [mm EXCEPT ![p] = NoMm]
      /\ image' = [image EXCEPT ![p] = NoImage]
      /\ loader' = [pid |-> p, image |-> img, next |-> 1,
                    sbrks |-> IF image[p] = NoImage THEN 0 ELSE args + 2]
      /\ sane' = IF WellFormed(img) THEN sane ELSE sane \ {p}
      /\ halted' = IF img = NoImage THEN "panic" ELSE "no"
      /\ UNCHANGED <<pids, exited>> /\ Runs(p)
    BY DEF Exec
<1>2. /\ halted = "no" /\ loader = Idle /\ loader.pid = 0 /\ p \in 1..pids /\ p \notin exited
      /\ DOMAIN pages[p] \subseteq Nat /\ ProcInv(p) /\ \A q \in Proc : q # 0
    BY <1>1, Running
<1>3. MemInv /\ TypeInv /\ \A q \in Proc : ProcInv(q)
    BY DEF IInv
<1>4. pages' = [pages EXCEPT ![p] = pg] /\ DOMAIN pg \subseteq Nat
    <2>1. pages' = [pages EXCEPT ![p] = pg]
        BY <1>1
    <2> QED BY <1>2, <2>1 DEF Unmapped
<1> HIDE DEF pg
<1>5. /\ MemInv' /\ mm'[p] = NoMm /\ pages'[p] = pg
      /\ \A q \in Proc \ {p} : mm'[q] = mm[q] /\ pages'[q] = pages[q]
    BY <1>1, <1>3, <1>4, NoAreas, MemChanges
<1>6. loader'.pid = p /\ loader'.image = img /\ loader'.next = 1 /\ loader' # Idle' /\ loader'.sbrks \in Nat
    <2>1. loader'.pid = p /\ loader'.image = img /\ loader'.next = 1
          /\ loader'.sbrks = IF image[p] = NoImage THEN 0 ELSE args + 2
        BY <1>1
    <2>2. (IF image[p] = NoImage THEN 0 ELSE args + 2) \in Nat
        OBVIOUS
    <2>3. loader' # Idle'
        BY <1>2, <2>1 DEF Idle
    <2> QED BY <2>1, <2>2, <2>3
<1>7. image' \in [Proc -> Image \cup {NoImage}] /\ image'[p] = NoImage
      /\ \A q \in Proc \ {p} : image'[q] = image[q]
    BY <1>1, <1>3 DEF TypeInv
<1>8. sane' \subseteq sane /\ (p \in sane' => WellFormed(img))
    BY <1>1
<1>9. TypeInv'
    <2>1. loader' \in [pid : (1..pids) \ exited, image : Image \cup {NoImage}, next : Nat \ {0}, sbrks : Nat]
        <3>1. loader' = [pid |-> loader'.pid, image |-> loader'.image, next |-> loader'.next,
                         sbrks |-> loader'.sbrks]
            BY <1>1
        <3> QED BY <1>2, <1>6, <3>1
    <2>2. halted' \in {"no", "panic", "hang", "corrupt"} /\ (halted' = "no" => loader'.image \in Image)
        BY <1>1, <1>6
    <2>3. sane' \subseteq 1..pids
        BY <1>3, <1>8 DEF TypeInv
    <2> QED BY <1>1, <1>3, <1>7, <2>1, <2>2, <2>3 DEF TypeInv
<1>10. HaltInv'
    <2>1. halted' # "no" => ~WellFormed(img)
        BY <1>1 DEF WellFormed
    <2> QED BY <1>6, <1>8, <2>1, Zenon DEF HaltInv
<1>11. LoadInv'
    <2>1. ASSUME WellFormed(img)
          PROVE  /\ 1 \in 1..(Len(img) + 2) /\ 1 # Len(img) + 2
                 /\ InLoop(NoMm, pg, img, 1)
        <3>1. img \in Image
            BY <2>1 DEF WellFormed
        <3>2. Len(img) \in Nat \ {0}
            BY <2>1, <3>1, ImageLength
        <3>3. 1 - 1 = 0 /\ 1..0 = {}
            OBVIOUS
        <3>4. SegmentsIn(NoMm, pg, img, 0)
            BY <3>3 DEF SegmentsIn
        <3>5. EndOf(NoMm, 0) = 0
            BY DEF EndOf
        <3>6. InLoop(NoMm, pg, img, 1)
            <4>1. Len(NoMm.areas) = 0
                BY NoAreas
            <4> QED BY <3>3, <3>4, <3>5, <4>1, NoAreas DEF InLoop
        <3> QED BY <3>2, <3>6
    <2> QED BY <1>5, <1>6, <1>7, <2>1, Zenon DEF LoadInv
<1>12. ASSUME NEW q \in Proc PROVE ProcInv(q)'
    <2>1. CASE q # p
        <3>1. /\ mm'[q] = mm[q] /\ pages'[q] = pages[q] /\ image'[q] = image[q]
              /\ (q \in sane' => q \in sane) /\ (q \in exited' <=> q \in exited) /\ loader.pid # q
            BY <1>1, <1>2, <1>5, <1>7, <1>8, <2>1
        <3> QED BY <1>3, <3>1, OthersStay, Zenon
    <2>2. CASE q = p
        <3>1. ASSUME p \in sane' PROVE Exact(NoMm, pg)
            <4>1. Exact(mm[p], pages[p])
                BY <1>2, <1>8, <3>1 DEF ProcInv
            <4>2. DOMAIN pg = {}
                BY <4>1, NoAreas DEF pg
            <4> QED BY <4>2, NoAreas
        <3>2. p \notin exited'
            BY <1>1, <1>2
        <3> QED BY <1>5, <1>6, <1>7, <2>2, <3>1, <3>2, Zenon DEF ProcInv
    <2> QED BY <2>1, <2>2
<1> QED BY <1>5, <1>9, <1>10, <1>11, <1>12, Zenon DEF IInv

\* A break of a running program
LEMMA SetBrkStep ==
    ASSUME IInv, NEW p \in Proc, NEW addr \in Asked, SetBrk(p, addr)
    PROVE  IInv'
<1> DEFINE brk == Brk(mm[p], pages[p], addr)
<1>1. /\ mm' = [mm EXCEPT ![p] = brk.mm] /\ pages' = [pages EXCEPT ![p] = brk.pages]
      /\ sane' = IF brk.mm.brk > Top THEN sane \ {p} ELSE sane
      /\ UNCHANGED <<image, loader, pids, exited, halted>>
      /\ Runs(p) /\ image[p] # NoImage /\ addr >= mm[p].brk_start
    BY DEF SetBrk
<1>2. /\ halted = "no" /\ loader = Idle /\ loader.pid = 0 /\ p \in 1..pids /\ p \notin exited
      /\ MmOK(mm[p]) /\ DOMAIN pages[p] \subseteq Nat /\ ProcInv(p) /\ \A q \in Proc : q # 0
      /\ image[p] \in Image
    BY <1>1, Running
<1>3. MemInv /\ TypeInv /\ \A q \in Proc : ProcInv(q)
    BY DEF IInv
<1>4. addr \in Nat
    BY ProcessMemAssumption
<1>5. MmOK(brk.mm) /\ DOMAIN brk.pages \subseteq Nat /\ brk.mm.brk \in Nat
    <2>1. BrkResult(mm[p], pages[p], FindVm(mm[p], mm[p].brk_start), PageAlign(addr), brk)
        BY <1>2, <1>4, BrkIs
    <2>2. DOMAIN brk.pages \subseteq Nat
        BY <1>2, <1>4, BrkPages
    <2> HIDE DEF brk
    <2>3. MmOK(brk.mm)
        BY <2>1 DEF BrkResult
    <2> QED BY <2>2, <2>3, MmFields DEF Boundary
<1>6. mm[p].brk_start <= addr
    <2>1. mm[p].brk_start \in Nat
        BY <1>2, MmFields DEF Boundary
    <2> QED BY <1>1, <1>4, <2>1
<1>7. ASSUME p \in sane, brk.mm.brk <= Top
      PROVE  Exact(brk.mm, brk.pages) /\ WellFormed(image[p]) /\ Laid(brk.mm, brk.pages, image[p])
    <2>1. Exact(mm[p], pages[p]) /\ WellFormed(image[p]) /\ Laid(mm[p], pages[p], image[p])
        BY <1>1, <1>2, <1>7 DEF ProcInv
    <2>2. Exact(brk.mm, brk.pages)
        BY <1>2, <1>4, <2>1, BrkExact
    <2>3. Laid(brk.mm, brk.pages, image[p])
        BY <1>2, <1>4, <1>6, <1>7, <2>1, BrkLaid
    <2> QED BY <2>1, <2>2, <2>3
<1> HIDE DEF brk
<1>8. /\ MemInv' /\ mm'[p] = brk.mm /\ pages'[p] = brk.pages
      /\ \A q \in Proc \ {p} : mm'[q] = mm[q] /\ pages'[q] = pages[q]
    BY <1>1, <1>3, <1>5, MemChanges
<1>9. sane' \subseteq sane /\ (p \in sane' => brk.mm.brk <= Top)
    BY <1>1, <1>5, Sizes
<1>10. TypeInv'
    <2>1. sane' \subseteq 1..pids
        BY <1>3, <1>9 DEF TypeInv
    <2> QED BY <1>1, <1>2, <1>3, <2>1 DEF TypeInv
<1>11. loader' = Idle' /\ halted' = "no"
    BY <1>1, <1>2 DEF Idle
<1>12. HaltInv' /\ LoadInv'
    BY <1>11, Zenon DEF HaltInv, LoadInv
<1>13. ASSUME NEW q \in Proc PROVE ProcInv(q)'
    <2>1. CASE q # p
        <3>1. /\ mm'[q] = mm[q] /\ pages'[q] = pages[q] /\ image'[q] = image[q]
              /\ (q \in sane' => q \in sane) /\ (q \in exited' <=> q \in exited) /\ loader.pid # q
            BY <1>1, <1>2, <1>8, <1>9, <2>1
        <3> QED BY <1>3, <3>1, OthersStay, Zenon
    <2>2. CASE q = p
        <3>1. p \notin exited' /\ image'[p] = image[p] /\ image'[p] # NoImage
            BY <1>1, <1>2
        <3>2. p \in sane' => Exact(brk.mm, brk.pages) /\ WellFormed(image[p]) /\ Laid(brk.mm, brk.pages, image[p])
            BY <1>7, <1>9
        <3> QED BY <1>8, <2>2, <3>1, <3>2, Zenon DEF ProcInv
    <2> QED BY <2>1, <2>2
<1> QED BY <1>8, <1>10, <1>12, <1>13, Zenon DEF IInv

\* The end of a load
LEMMA StackStep ==
    ASSUME IInv, Stack
    PROVE  IInv'
<1> DEFINE p == loader.pid
           img == loader.image
           m == mm[p]
           pg == pages[p]
           map == Map(m, pg, 0, StackSize)
           brk == Brk(map.mm, map.pages, map.mm.brk + loader.sbrks * Page)
           argsAt == PagesOf(map.mm.brk, brk.mm.brk)
           stackAt == {((map.vma.start + StackSize) \div Page) - 1}
           mm2 == [brk.mm EXCEPT !.stack = map.vma.start + StackSize]
           pg2 == Write(Write(brk.pages, argsAt, "args"), stackAt, "stack")
<1>0. Loading /\ loader.next = Len(img) + 2
    BY Zenon DEF Stack
<1>1. /\ mm' = [mm EXCEPT ![p] = mm2] /\ pages' = [pages EXCEPT ![p] = pg2]
      /\ halted' = IF argsAt \subseteq DOMAIN brk.pages THEN map.halted ELSE "panic"
      /\ sane' = IF brk.mm.brk > Top THEN sane \ {p} ELSE sane
      /\ image' = [image EXCEPT ![p] = img]
      /\ loader' = (IF halted' = "no" THEN Idle ELSE loader)
      /\ UNCHANGED <<pids, exited>>
    BY Zenon DEF Stack
<1>2. MemInv /\ TypeInv /\ HaltInv /\ LoadInv /\ \A q \in Proc : ProcInv(q)
    BY DEF IInv
<1>3. loader # Idle /\ halted = "no"
    BY <1>0, Zenon DEF Loading
<1>4. /\ p \in Proc /\ p \in 1..pids /\ p \notin exited /\ p # 0 /\ loader.sbrks \in Nat
      /\ img \in Image /\ img # NoImage
    BY <1>2, <1>3, ProcessesAre, ImageIs DEF TypeInv
<1>5. MmOK(m) /\ DOMAIN pg \subseteq Nat
    BY <1>2, <1>4 DEF MemInv
<1> HIDE DEF p, img
<1>6. MapOK(map)
    BY <1>5, MapType, Sizes
<1> DEFINE addr == map.mm.brk + loader.sbrks * Page
<1>7. addr \in Nat /\ map.vma.start \in Boundary
    <2>1. MmOK(map.mm) /\ map.vma \in WholeArea
        BY <1>6 DEF MapOK
    <2> HIDE DEF map
    <2>2. map.mm.brk \in Nat /\ map.vma.start \in Boundary
        BY <2>1, MmFields, AreasArePages DEF Boundary
    <2>3. loader.sbrks * Page \in Nat
        BY <1>4, Sizes
    <2> QED BY <2>2, <2>3
<1>8. MmOK(brk.mm) /\ DOMAIN brk.pages \subseteq Nat /\ brk.mm.brk \in Nat
      /\ (Exact(map.mm, map.pages) => Exact(brk.mm, brk.pages))
    <2>1. MmOK(map.mm) /\ DOMAIN map.pages \subseteq Nat
        BY <1>6 DEF MapOK
    <2> DEFINE b == Brk(map.mm, map.pages, addr)
    <2>2. b = brk
        OBVIOUS
    <2> HIDE DEF map, addr, brk
    <2>3. BrkResult(map.mm, map.pages, FindVm(map.mm, map.mm.brk_start), PageAlign(addr), b)
        BY <1>7, <2>1, BrkIs
    <2>4. DOMAIN b.pages \subseteq Nat /\ (Exact(map.mm, map.pages) => Exact(b.mm, b.pages))
        BY <1>7, <2>1, BrkPages, BrkExact
    <2> HIDE DEF b
    <2>5. MmOK(b.mm)
        BY <2>3 DEF BrkResult
    <2>6. b.mm.brk \in Nat
        BY <2>5, MmFields DEF Boundary
    <2> QED BY <2>2, <2>4, <2>5, <2>6, Zenon
<1>9. MmOK(mm2) /\ mm2.areas = brk.mm.areas
    <2>1. map.vma.start + StackSize \in Boundary
        <3>1. StackSize \in Boundary
            BY Sizes DEF Boundary
        <3> HIDE DEF map
        <3> QED BY <1>7, <3>1, Boundaries
    <2> HIDE DEF brk, map
    <2> QED BY <1>8, <2>1 DEF MmOK
<1>10. DOMAIN pg2 = DOMAIN brk.pages
    BY WriteIs
<1>11. ASSUME WellFormed(img)
       PROVE  /\ map.halted = "no" /\ \E base, len : Appended(m, pg, base, len, map)
              /\ argsAt \subseteq DOMAIN brk.pages
              /\ brk.mm.brk <= Top => Laid(mm2, pg2, img)
    <2>1. WithHeap(m, pg, img)
        <3>1. ~(loader.next <= Len(img) + 1) /\ loader.next = Len(img) + 2
            BY <1>0, <1>4, <1>11, ImageLength
        <3> QED BY <1>2, <1>3, <1>11, <3>1, Zenon DEF LoadInv, p, img, m, pg
    <2> QED BY <1>4, <1>5, <1>11, <2>1, StackLoaded, Zenon
<1> HIDE DEF map, brk, argsAt, stackAt, mm2, pg2, m, pg
<1>12. WellFormed(img) => halted' = "no"
    BY <1>1, <1>11, Zenon
<1>13. ASSUME p \in sane
       PROVE  /\ WellFormed(img) /\ Exact(mm2, pg2)
              /\ brk.mm.brk <= Top => Laid(mm2, pg2, img)
    <2>1. WellFormed(img)
        BY <1>2, <1>3, <1>13, Zenon DEF HaltInv, p, img
    <2>2. Exact(m, pg)
        BY <1>2, <1>4, <1>13, Zenon DEF ProcInv, m, pg
    <2>3. Exact(map.mm, map.pages)
        BY <1>5, <1>6, <1>11, <2>1, <2>2, ExactAppended DEF MapOK
    <2>4. Exact(mm2, pg2)
        BY <1>8, <1>9, <1>10, <2>3, ExactStays
    <2> QED BY <1>11, <2>1, <2>4
<1>14. /\ MemInv' /\ mm'[p] = mm2 /\ pages'[p] = pg2
       /\ \A q \in Proc \ {p} : mm'[q] = mm[q] /\ pages'[q] = pages[q]
    BY <1>1, <1>2, <1>4, <1>8, <1>9, <1>10, MemChanges
<1>15. /\ image' \in [Proc -> Image \cup {NoImage}] /\ image'[p] = img
       /\ \A q \in Proc \ {p} : image'[q] = image[q]
    BY <1>1, <1>2, <1>4 DEF TypeInv
<1>16. sane' \subseteq sane /\ (p \in sane' => brk.mm.brk <= Top)
    BY <1>1, <1>8, Sizes
<1>17. /\ halted' = "no" => loader' = Idle
       /\ halted' # "no" => loader' = loader
       /\ halted' \in {"no", "panic", "hang", "corrupt"}
    <2>1. map.halted \in {"no", "panic", "hang", "corrupt"}
        BY <1>6 DEF MapOK
    <2> QED BY <1>1, <2>1
<1>18. Idle' = Idle
    BY DEF Idle
<1>19. TypeInv'
    <2>1. sane' \subseteq 1..pids
        BY <1>2, <1>16 DEF TypeInv
    <2>2. loader' = Idle' \/ loader' = loader
        BY <1>17, <1>18
    <2>3. halted' = "no" /\ loader' # Idle' => loader'.image \in Image
        BY <1>17, <1>18
    <2>4. loader' = Idle' \/ loader' \in [pid : (1..pids') \ exited', image : Image \cup {NoImage},
                                         next : Nat \ {0}, sbrks : Nat]
        BY <1>1, <1>2, <1>3, <2>2, Zenon DEF TypeInv
    <2> QED BY <1>1, <1>2, <1>15, <1>17, <2>1, <2>3, <2>4, Zenon DEF TypeInv
<1>20. HaltInv'
    <2>1. halted' # "no" => loader' # Idle' /\ ~WellFormed(loader'.image)
        BY <1>3, <1>12, <1>17, <1>18, Zenon DEF img
    <2>2. loader' # Idle' /\ loader'.pid \in sane' => WellFormed(loader'.image)
        BY <1>13, <1>16, <1>17, <1>18, Zenon DEF img, p
    <2> QED BY <2>1, <2>2, Zenon DEF HaltInv
<1>21. LoadInv'
    BY <1>17, <1>18, Zenon DEF LoadInv
<1>22. ASSUME NEW q \in Proc PROVE ProcInv(q)'
    <2>1. CASE q # p
        <3>1. /\ mm'[q] = mm[q] /\ pages'[q] = pages[q] /\ image'[q] = image[q]
              /\ (q \in sane' => q \in sane) /\ (q \in exited' <=> q \in exited) /\ loader.pid # q
            BY <1>1, <1>14, <1>15, <1>16, <2>1 DEF p
        <3> QED BY <1>2, <3>1, OthersStay, Zenon
    <2>2. CASE q = p
        <3>1. p \notin exited' /\ image'[p] # NoImage
            BY <1>1, <1>4, <1>15
        <3>2. p \in sane' => Exact(mm2, pg2) /\ WellFormed(img) /\ Laid(mm2, pg2, img)
            BY <1>13, <1>16
        <3> QED BY <1>14, <1>15, <2>2, <3>1, <3>2, Zenon DEF ProcInv
    <2> QED BY <2>1, <2>2
<1> QED BY <1>14, <1>19, <1>20, <1>21, <1>22, Zenon DEF IInv

\* A child gets its parent's memory.
LEMMA ForkStep ==
    ASSUME IInv, NEW p \in Proc, Fork(p)
    PROVE  IInv'
<1> DEFINE c == pids + 1
<1>1. /\ pids < LastPid /\ pids' = c
      /\ mm' = [mm EXCEPT ![pids'] = mm[p]] /\ pages' = [pages EXCEPT ![pids'] = pages[p]]
      /\ image' = [image EXCEPT ![pids'] = image[p]]
      /\ sane' = IF p \in sane THEN sane \cup {pids'} ELSE sane \ {pids'}
      /\ UNCHANGED <<loader, exited, halted>>
      /\ Runs(p) /\ image[p] # NoImage
    BY DEF Fork
<1>2. /\ halted = "no" /\ loader = Idle /\ loader.pid = 0 /\ p \in 1..pids /\ p \notin exited
      /\ MmOK(mm[p]) /\ DOMAIN pages[p] \subseteq Nat /\ ProcInv(p) /\ \A q \in Proc : q # 0
      /\ image[p] \in Image
    BY <1>1, Running
<1>3. MemInv /\ TypeInv /\ \A q \in Proc : ProcInv(q)
    BY DEF IInv
<1>4. pids \in Nat \ {0} /\ c \in Proc /\ c \in 1..c /\ 1..pids \subseteq 1..c /\ c \notin 1..pids
    <2>1. pids \in Nat \ {0} /\ LastPid \in Nat
        BY <1>3, ProcessesAre, ProcessMemAssumption
    <2> QED BY <1>1, <2>1 DEF Proc
<1>5. exited \subseteq 1..pids /\ sane \subseteq 1..pids
    BY <1>3 DEF TypeInv
<1> HIDE DEF c
<1>6. /\ mm' = [mm EXCEPT ![c] = mm[p]] /\ pages' = [pages EXCEPT ![c] = pages[p]]
      /\ image' = [image EXCEPT ![c] = image[p]]
      /\ sane' = IF p \in sane THEN sane \cup {c} ELSE sane \ {c}
    BY <1>1
<1>7. /\ MemInv' /\ mm'[c] = mm[p] /\ pages'[c] = pages[p]
      /\ \A q \in Proc \ {c} : mm'[q] = mm[q] /\ pages'[q] = pages[q]
    BY <1>2, <1>3, <1>4, <1>6, MemChanges
<1>8. /\ image' \in [Proc -> Image \cup {NoImage}] /\ image'[c] = image[p]
      /\ \A q \in Proc \ {c} : image'[q] = image[q]
    BY <1>2, <1>3, <1>4, <1>6 DEF TypeInv
<1>9. loader' = Idle' /\ halted' = "no"
    BY <1>1, <1>2 DEF Idle
<1>10. TypeInv'
    <2>1. sane' \subseteq 1..c /\ exited' \subseteq 1..c
        BY <1>1, <1>4, <1>5, <1>6
    <2> QED BY <1>1, <1>4, <1>8, <1>9, <2>1, Zenon DEF TypeInv
<1>11. HaltInv' /\ LoadInv'
    BY <1>9, Zenon DEF HaltInv, LoadInv
<1>12. ASSUME NEW q \in Proc PROVE ProcInv(q)'
    <2>1. CASE q # c
        <3>1. /\ mm'[q] = mm[q] /\ pages'[q] = pages[q] /\ image'[q] = image[q]
              /\ (q \in sane' => q \in sane) /\ (q \in exited' <=> q \in exited) /\ loader.pid # q
            BY <1>1, <1>2, <1>6, <1>7, <1>8, <2>1
        <3> QED BY <1>3, <3>1, OthersStay, Zenon
    <2>2. CASE q = c
        <3>1. c \notin exited' /\ image'[c] # NoImage /\ (c \in sane' => p \in sane)
            BY <1>1, <1>4, <1>5, <1>6, <1>8
        <3>2. p \in sane => /\ Exact(mm[p], pages[p]) /\ WellFormed(image[p])
                            /\ Laid(mm[p], pages[p], image[p])
            BY <1>1, <1>2, Zenon DEF ProcInv
        <3> QED BY <1>7, <1>8, <2>2, <3>1, <3>2, Zenon DEF ProcInv
    <2> QED BY <2>1, <2>2
<1> QED BY <1>7, <1>10, <1>11, <1>12, Zenon DEF IInv

\* A process that exits loses it.
LEMMA ExitStep ==
    ASSUME IInv, NEW p \in Proc, Exit(p)
    PROVE  IInv'
<1> DEFINE rest == Unmapped(mm[p], pages[p])
           pg == [n \in DOMAIN rest \ PagesOf(mm[p].stack - StackSize, mm[p].stack) |-> rest[n]]
           x == [mm[p] EXCEPT !.areas = << >>]
<1>1. /\ mm' = [mm EXCEPT ![p].areas = << >>] /\ pages' = [pages EXCEPT ![p] = pg]
      /\ exited' = exited \cup {p}
      /\ UNCHANGED <<image, loader, pids, sane, halted>>
      /\ Runs(p)
    BY DEF Exit
<1>2. /\ halted = "no" /\ loader = Idle /\ loader.pid = 0 /\ p \in 1..pids /\ p \notin exited
      /\ MmOK(mm[p]) /\ DOMAIN pages[p] \subseteq Nat /\ ProcInv(p) /\ \A q \in Proc : q # 0
    BY <1>1, Running
<1>3. MemInv /\ TypeInv /\ \A q \in Proc : ProcInv(q)
    BY DEF IInv
<1>4. mm' = [mm EXCEPT ![p] = x] /\ MmOK(x) /\ x.areas = << >>
    <2>1. mm' = [mm EXCEPT ![p] = x]
        BY <1>1
    <2> DEFINE none == << >>
    <2>2. none \in Seq(WholeArea) /\ x = [mm[p] EXCEPT !.areas = none]
        OBVIOUS
    <2> HIDE DEF none, x
    <2>3. MmOK(x) /\ x.areas = none
        BY <1>2, <2>2 DEF MmOK
    <2> QED BY <2>1, <2>3 DEF none, x
<1>5. DOMAIN pg \subseteq DOMAIN rest /\ DOMAIN rest \subseteq DOMAIN pages[p]
    BY DEF Unmapped
<1>6. p \in sane => DOMAIN pg = {}
    <2>1. p \in sane => Exact(mm[p], pages[p])
        BY <1>2 DEF ProcInv
    <2>2. p \in sane => DOMAIN rest = {}
        BY <2>1, NoAreas
    <2> QED BY <1>5, <2>2
<1> HIDE DEF x, pg, rest
<1>7. /\ MemInv' /\ mm'[p] = x /\ pages'[p] = pg
      /\ \A q \in Proc \ {p} : mm'[q] = mm[q] /\ pages'[q] = pages[q]
    <2>1. DOMAIN pg \subseteq Nat
        BY <1>2, <1>5
    <2> QED BY <1>1, <1>3, <1>4, <2>1, MemChanges
<1>8. loader' = Idle' /\ halted' = "no"
    BY <1>1, <1>2 DEF Idle
<1>9. TypeInv'
    <2>1. exited' \subseteq 1..pids
        BY <1>1, <1>2, <1>3 DEF TypeInv
    <2> QED BY <1>1, <1>3, <1>8, <2>1, Zenon DEF TypeInv
<1>10. HaltInv' /\ LoadInv'
    BY <1>8, Zenon DEF HaltInv, LoadInv
<1>11. ASSUME NEW q \in Proc PROVE ProcInv(q)'
    <2>1. CASE q # p
        <3>1. /\ mm'[q] = mm[q] /\ pages'[q] = pages[q] /\ image'[q] = image[q]
              /\ (q \in sane' => q \in sane) /\ (q \in exited' <=> q \in exited) /\ loader.pid # q
            BY <1>1, <1>2, <1>7, <2>1
        <3> QED BY <1>3, <3>1, OthersStay, Zenon
    <2>2. CASE q = p
        <3>1. p \in exited' /\ sane' = sane
            BY <1>1
        <3>2. p \in sane => Exact(x, pg)
            BY <1>4, <1>6, NoAreas
        <3> QED BY <1>4, <1>7, <2>2, <3>1, <3>2, Zenon DEF ProcInv
    <2> QED BY <2>1, <2>2
<1> QED BY <1>7, <1>9, <1>10, <1>11, Zenon DEF IInv

\* The invariant holds at the start ...
LEMMA InitInv == Init => IInv
<1> SUFFICES ASSUME Init PROVE IInv
    OBVIOUS
<1>1. /\ mm = [p \in Proc |-> NoMm] /\ pages = [p \in Proc |-> << >>]
      /\ image = [p \in Proc |-> NoImage] /\ loader = Idle
      /\ pids = 1 /\ exited = {} /\ sane = {1} /\ halted = "no"
    BY DEF Init
<1>2. 1 \in Proc
    BY ProcessMemAssumption DEF Proc
<1>3. ASSUME NEW p \in Proc
      PROVE  mm[p] = NoMm /\ DOMAIN pages[p] = {} /\ image[p] = NoImage
    BY <1>1
<1>4. MemInv
    BY <1>1, <1>3, NoAreas DEF MemInv
<1>5. TypeInv
    BY <1>1, <1>2 DEF TypeInv
<1>6. HaltInv /\ LoadInv
    BY <1>1, Zenon DEF HaltInv, LoadInv
<1>7. ASSUME NEW p \in Proc PROVE ProcInv(p)
    <2>1. Exact(mm[p], pages[p])
        BY <1>3, NoAreas
    <2>2. mm[p].areas = << >>
        BY <1>3, NoAreas
    <2> QED BY <1>3, <2>1, <2>2, Zenon DEF ProcInv
<1> QED BY <1>4, <1>5, <1>6, <1>7, Zenon DEF IInv

\* ... while nothing happens ...
LEMMA StutterInv ==
    ASSUME IInv, UNCHANGED vars
    PROVE  IInv'
<1>1. /\ mm' = mm /\ pages' = pages /\ image' = image /\ loader' = loader
      /\ pids' = pids /\ exited' = exited /\ sane' = sane /\ halted' = halted
    BY DEF vars
<1>2. MemInv' /\ TypeInv' /\ HaltInv' /\ LoadInv'
    <2>1. MemInv /\ TypeInv /\ HaltInv /\ LoadInv
        BY DEF IInv
    <2>2. MemInv'
        BY <1>1, <2>1 DEF MemInv
    <2>3. TypeInv'
        BY <1>1, <2>1 DEF TypeInv, Idle
    <2>4. HaltInv'
        BY <1>1, <2>1 DEF HaltInv, Idle
    <2>5. LoadInv'
        BY <1>1, <2>1, Zenon DEF LoadInv, Idle
    <2> QED BY <2>2, <2>3, <2>4, <2>5
<1>3. ASSUME NEW q \in Proc PROVE ProcInv(q)'
    <2>1. ProcInv(q)
        BY DEF IInv
    <2> QED BY <1>1, <2>1, OthersStay, Zenon
<1> QED BY <1>2, <1>3, Zenon DEF IInv

\* ... and after every step.
LEMMA NextInv ==
    ASSUME IInv, [Next]_vars
    PROVE  IInv'
<1>1. CASE UNCHANGED vars
    BY <1>1, StutterInv
<1>2. CASE \E p \in Proc, img \in Image \cup {NoImage}, args \in 0..MaxArgs : Exec(p, img, args)
    BY <1>2, ExecStep
<1>3. CASE Segment
    BY <1>3, SegmentStep
<1>4. CASE Heap
    BY <1>4, HeapStep
<1>5. CASE Stack
    BY <1>5, StackStep
<1>6. CASE \E p \in Proc, addr \in Asked : SetBrk(p, addr)
    BY <1>6, SetBrkStep
<1>7. CASE \E p \in Proc : Fork(p) \/ Exit(p)
    BY <1>7, ForkStep, ExitStep
<1>8. CASE Halted
    BY <1>8, StutterInv DEF Halted
<1> QED BY <1>1, <1>2, <1>3, <1>4, <1>5, <1>6, <1>7, <1>8, Zenon DEF Next

\* What the loader, brk, fork and exit keep of the memory of processes, and what
\* the properties follow from.
THEOREM Inductive == Spec => []IInv
<1>1. IInv /\ [Next]_vars => IInv'
    BY NextInv
<1> QED BY InitInv, <1>1, PTL DEF Spec

-----------------------------------------------------------------------------
(* What follows from it.                                                   *)

\* The list of areas has this order while the image of a sane process is
\* loaded, while it runs, and behind sched_exit.
LEMMA SortedAreas ==
    ASSUME IInv, NEW p \in sane
    PROVE  /\ \A i, j \in DOMAIN mm[p].areas : i < j => mm[p].areas[i].end <= mm[p].areas[j].start
           /\ image[p] # NoImage /\ p \notin exited => FindVm(mm[p], mm[p].brk_start) # 0
<1> DEFINE m == mm[p]
           pg == pages[p]
<1>1. MemInv /\ TypeInv /\ HaltInv /\ LoadInv /\ \A q \in Proc : ProcInv(q)
    BY DEF IInv
<1>2. p \in Proc
    BY <1>1, ProcessesAre DEF TypeInv
<1>3. MmOK(m) /\ ProcInv(p)
    BY <1>1, <1>2 DEF MemInv
<1> DEFINE Sorted == \A i, j \in DOMAIN m.areas : i < j => m.areas[i].end <= m.areas[j].start
<1>4. DOMAIN m.areas = 1..Len(m.areas) /\ Len(m.areas) \in Nat
    BY <1>3, MmFields
<1>5. ASSUME p \in exited \/ (image[p] = NoImage /\ loader.pid # p) PROVE Sorted
    <2>1. m.areas = << >>
        BY <1>3, <1>5 DEF ProcInv
    <2> QED BY <2>1
<1>6. ASSUME p \notin exited, image[p] # NoImage
      PROVE  Sorted /\ FindVm(m, m.brk_start) # 0
    <2>1. WellFormed(image[p]) /\ Ready(m, pg, image[p])
        BY <1>3, <1>6 DEF ProcInv, Laid
    <2>2. image[p] \in Image
        BY <1>1, <1>2, <1>6 DEF TypeInv
    <2>3. /\ \A i \in DOMAIN m.areas : \A j \in 1..(i - 1) : m.areas[j].end <= m.areas[i].start
          /\ FindVm(m, m.brk_start) = Len(image[p]) + 1
        BY <1>3, <2>1, <2>2, ReadyOrder
    <2>4. \A i, j \in DOMAIN m.areas : i < j => i \in 1..(j - 1)
        BY <1>4
    <2>5. Len(image[p]) + 1 # 0
        BY <2>1, <2>2, ImageLength
    <2> QED BY <2>3, <2>4, <2>5
<1>7. ASSUME p \notin exited, loader.pid = p PROVE Sorted
    <2>1. loader # Idle
        BY <1>1, <1>2, <1>7, ProcessesAre
    <2>2. halted = "no" /\ WellFormed(loader.image)
        BY <1>1, <1>7, <2>1 DEF HaltInv
    <2>3. loader.image \in Image
        BY <1>1, <2>1, <2>2 DEF TypeInv
    <2> DEFINE img == loader.image
               k == Len(img)
    <2>4. /\ loader.next \in 1..(k + 2) /\ k \in Nat
          /\ loader.next <= k + 1 => InLoop(m, pg, img, loader.next)
          /\ loader.next = k + 2 => WithHeap(m, pg, img)
        <3>1. k \in Nat
            BY <2>2, <2>3, ImageLength
        <3> QED BY <1>1, <1>7, <2>1, <2>2, <3>1 DEF LoadInv
    <2>5. CASE loader.next <= k + 1
        <3>1. Len(m.areas) = loader.next - 1 /\ SegmentsIn(m, pg, img, loader.next - 1)
            BY <2>4, <2>5 DEF InLoop
        <3>2. loader.next - 1 \in 0..k
            BY <2>4, <2>5
        <3>3. \A i \in 1..(loader.next - 1) : \A j \in 1..(i - 1) : m.areas[j].end <= m.areas[i].start
            BY <2>2, <2>3, <3>1, <3>2, SegmentsBelow
        <3>4. \A i, j \in DOMAIN m.areas : i < j => i \in 1..(j - 1) /\ j \in 1..(loader.next - 1)
            BY <1>4, <3>1
        <3> QED BY <3>3, <3>4
    <2>6. CASE loader.next = k + 2
        <3>1. /\ Len(m.areas) = k + 1 /\ SegmentsIn(m, pg, img, k)
              /\ m.areas[k + 1].start = EndOf(m, k)
            BY <2>4, <2>6 DEF WithHeap
        <3>2. \A i \in 1..k : /\ m.areas[i].end <= EndOf(m, k)
                              /\ \A j \in 1..(i - 1) : m.areas[j].end <= m.areas[i].start
            <4>1. k \in 0..k
                BY <2>4
            <4> HIDE DEF m, pg
            <4> QED BY <2>2, <2>3, <3>1, <4>1, SegmentsBelow
        <3>3. ASSUME NEW i \in 1..(k + 1), NEW j \in 1..(k + 1), i < j
              PROVE  m.areas[i].end <= m.areas[j].start
            <4>1. i \in 1..k /\ i \in 1..(j - 1) /\ (j \in 1..k \/ j = k + 1)
                <5>1. k \in Nat
                    BY <2>4
                <5> HIDE DEF k
                <5> QED BY <3>3, <5>1
            <4> QED BY <3>1, <3>2, <4>1
        <3>4. DOMAIN m.areas = 1..(k + 1)
            BY <1>4, <3>1
        <3> QED BY <3>3, <3>4
    <2> QED BY <2>4, <2>5, <2>6
<1> HIDE DEF Sorted
<1>8. Sorted
    BY <1>5, <1>6, <1>7
<1> QED BY <1>6, <1>8 DEF Sorted

\* The parts of AreasSound
LEMMA SortedFollows == IInv => AreasSorted
  BY SortedAreas, Zenon DEF AreasSorted

LEMMA TypeFollows == IInv => TypeOK
<1> SUFFICES ASSUME IInv PROVE TypeOK
    OBVIOUS
<1>1. MemInv /\ TypeInv
    BY DEF IInv
<1>2. ASSUME NEW p \in Proc
      PROVE  /\ \A f \in {"brk_start", "brk", "brk_end", "cache", "stack"} : mm[p][f] \in Nat
             /\ \A f \in {"brk_start", "brk", "cache", "stack"} : mm[p][f] % Page = 0
             /\ mm[p].areas \in Seq(Area)
             /\ \A i \in DOMAIN mm[p].areas : mm[p].areas[i].end % Page = 0
             /\ DOMAIN pages[p] \subseteq Nat
             /\ image[p] \in Image \cup {NoImage}
    <2> DEFINE m == mm[p]
    <2>1. MmOK(m) /\ DOMAIN pages[p] \subseteq Nat
        BY <1>1 DEF MemInv
    <2>2. image[p] \in Image \cup {NoImage}
        BY <1>1 DEF TypeInv
    <2> HIDE DEF m
    <2>3. /\ m.brk_start \in Boundary /\ m.brk \in Boundary /\ m.brk_end \in Boundary
          /\ m.cache \in Boundary /\ m.stack \in Boundary /\ m.areas \in Seq(WholeArea)
        BY <2>1, MmFields
    <2>4. \A x \in Boundary : x \in Nat /\ x % Page = 0
        BY DEF Boundary, Aligned
    <2>5. m.areas \in Seq(Area)
        <3>1. WholeArea \subseteq Area
            BY DEF WholeArea, Area, Boundary
        <3>2. Len(m.areas) \in Nat /\ m.areas \in [1..Len(m.areas) -> WholeArea]
            BY <2>3
        <3>3. m.areas \in [1..Len(m.areas) -> Area]
            BY <3>1, <3>2
        <3> HIDE DEF Area
        <3> QED BY <3>2, <3>3
    <2>6. \A i \in DOMAIN m.areas : m.areas[i].end % Page = 0
        BY <2>1, <2>4, MmFields, AreasArePages
    <2>7. /\ \A f \in {"brk_start", "brk", "brk_end", "cache", "stack"} : m[f] \in Boundary
        <3>1. m.brk_start \in Boundary /\ m.brk \in Boundary /\ m.brk_end \in Boundary
              /\ m.cache \in Boundary /\ m.stack \in Boundary
            BY <2>3
        <3> QED BY <3>1
    <2>8. /\ \A f \in {"brk_start", "brk", "brk_end", "cache", "stack"} : m[f] \in Nat
          /\ \A f \in {"brk_start", "brk", "cache", "stack"} : m[f] % Page = 0
        BY <2>4, <2>7
    <2> QED BY <2>1, <2>2, <2>5, <2>6, <2>8 DEF m
<1>3. /\ loader = Idle \/ loader.pid \in (1..pids) \ exited
      /\ pids \in Proc /\ exited \subseteq 1..pids /\ sane \subseteq Proc
      /\ halted \in {"no", "panic", "hang", "corrupt"}
    BY <1>1, ProcessesAre DEF TypeInv
<1> QED BY <1>2, <1>3, Zenon DEF TypeOK

LEMMA BrkFollows == IInv => BrkBacked
<1> SUFFICES ASSUME IInv, NEW p \in sane \ exited, image[p] # NoImage
             PROVE  /\ PagesOf(mm[p].brk_start, mm[p].brk) \subseteq DOMAIN pages[p]
                    /\ mm[p].brk_start <= mm[p].brk
    BY DEF BrkBacked
<1> DEFINE m == mm[p]
           pg == pages[p]
           heap == m.areas[Len(image[p]) + 1]
<1>1. MemInv /\ TypeInv /\ \A q \in Proc : ProcInv(q)
    BY DEF IInv
<1>2. p \in Proc /\ image[p] \in Image
    BY <1>1, ProcessesAre DEF TypeInv
<1>3. MmOK(m) /\ WellFormed(image[p]) /\ Ready(m, pg, image[p])
    BY <1>1, <1>2 DEF MemInv, ProcInv, Laid
<1> HIDE DEF m, pg
<1>4. /\ m.brk_start = heap.start /\ heap.start <= m.brk /\ m.brk <= heap.end
      /\ Covered(heap) \subseteq DOMAIN pg
    BY <1>3 DEF Ready
<1>5. heap.start \in Boundary /\ heap.end \in Boundary /\ m.brk \in Boundary
    <2>1. Len(image[p]) + 1 \in DOMAIN m.areas
        <3>1. DOMAIN m.areas = 1..(Len(image[p]) + 2) /\ Len(image[p]) \in Nat
            BY <1>2, <1>3, ReadyOrder, ImageLength
        <3> QED BY <3>1
    <2> QED BY <1>3, <2>1, MmFields, AreasArePages
<1> HIDE DEF heap
<1>6. Aligned(heap.start) /\ Aligned(heap.end) /\ Aligned(m.brk)
    BY <1>5 DEF Boundary
<1>7. PagesOf(heap.start, m.brk) \subseteq PagesOf(heap.start, heap.end)
    BY <1>4, <1>6, Parts
<1> QED BY <1>4, <1>7 DEF Covered, m, pg

\* The list of areas is in order, has the heap around brk_start, and every page
\* below the break is mapped: what mmap_brk, mmap_find_unmapped_vm and sched_exit
\* rely on, for all well-formed images and breaks up to HEAP_USER_TOP.
THEOREM AreasOfProcesses == Spec => []AreasSound
<1>1. IInv => AreasSound
    BY TypeFollows, SortedFollows, BrkFollows DEF AreasSound
<1> QED BY Inductive, <1>1, PTL

\* No execve, fork or exit leaves a page of an earlier image mapped, and no
\* area of mmap_map or mmap_brk lacks one.
THEOREM NothingIsLeft == Spec => []MappedExactly
<1>1. IInv => MappedExactly
    <2> SUFFICES ASSUME IInv, NEW p \in sane PROVE Exact(mm[p], pages[p])
        BY DEF MappedExactly, Exact
    <2>1. TypeInv /\ \A q \in Proc : ProcInv(q)
        BY DEF IInv
    <2>2. p \in Proc
        BY <2>1, ProcessesAre DEF TypeInv
    <2> QED BY <2>1, <2>2 DEF ProcInv
<1> QED BY Inductive, <1>1, PTL

\* What elf32_load and execve wrote stays where the program looks for it, in
\* copies of the process too.
THEOREM ImageStaysInPlace == Spec => []ImageInPlace
<1>1. IInv => ImageInPlace
    <2> SUFFICES ASSUME IInv, NEW p \in sane \ exited, image[p] # NoImage
                 PROVE  /\ \A i \in DOMAIN image[p] : \A n \in Touched(image[p][i]) : i \in pages[p][n]
                        /\ "stack" \in pages[p][(mm[p].stack \div Page) - 1]
        BY DEF ImageInPlace
    <2> DEFINE img == image[p]
               m == mm[p]
               pg == pages[p]
    <2>1. MemInv /\ TypeInv /\ \A q \in Proc : ProcInv(q)
        BY DEF IInv
    <2>2. p \in Proc /\ img \in Image
        BY <2>1, ProcessesAre DEF TypeInv
    <2>3. DOMAIN pg \subseteq Nat /\ WellFormed(img) /\ Laid(m, pg, img)
        BY <2>1, <2>2 DEF MemInv, ProcInv
    <2> HIDE DEF img, m, pg
    <2>4. SegmentsIn(m, pg, img, Len(img)) /\ DOMAIN img = 1..Len(img)
        BY <2>2, <2>3, ImageLength DEF Laid, Ready
    <2>5. \A i \in DOMAIN img : \A n \in Touched(img[i]) : i \in pg[n]
        <3> TAKE i \in DOMAIN img
        <3>1. Touched(img[i]) = Covered(AreaOf(img[i]))
            BY <2>2, <2>3, SegmentsAscend
        <3> QED BY <2>4, <3>1 DEF SegmentsIn
    <2>6. PICK n \in DOMAIN pg : m.stack = n * Page + Page /\ "stack" \in pg[n]
        BY <2>3 DEF Laid
    <2>7. (m.stack \div Page) - 1 = n
        <3>1. n \in Nat
            BY <2>3
        <3> QED BY <2>6, <3>1, DividedPage
    <2>8. "stack" \in pg[(m.stack \div Page) - 1]
        BY <2>6, <2>7
    <2> QED BY <2>5, <2>8 DEF img, m, pg
<1> QED BY Inductive, <1>1, PTL

\* A well-formed image is always loaded: mmap_map returns an area for each of its
\* segments, the heap and the stack, and elf32_load and execve write nowhere else.
THEOREM GoodImagesLoad == Spec => []OnlyBadImagesHalt
<1>1. IInv => OnlyBadImagesHalt
    BY DEF IInv, HaltInv, OnlyBadImagesHalt
<1> QED BY Inductive, <1>1, PTL
=============================================================================
