---------------------------- MODULE VirtMemProofs ----------------------------
(***************************************************************************)
(* Memory is kept apart for every number of pages, slots, directories and  *)
(* frames: programs share no frame with one another nor with the kernel,   *)
(* each finds what it wrote, and the heap is the same in all directories   *)
(* until one of them gets a table of the heap that the others do not.      *)
(*                                                                         *)
(* The page tables are only changed by a few elementary steps: a frame is  *)
(* taken, a slot gets an empty table, an entry is set.  The proofs say of  *)
(* each what it keeps, and put the operations together from them.          *)
(***************************************************************************)
EXTENDS VirtMem, TLAPS

\* One factor more.
LEMMA TimesSuccessor ==
    ASSUME NEW a \in Nat, NEW b \in Nat
    PROVE  (a + 1) * b = a * b + b
  OBVIOUS

\* Products grow with their factors.
LEMMA TimesMonotone ==
    ASSUME NEW a \in Nat, NEW b \in Nat, NEW y \in Nat, a <= b
    PROVE  a * y <= b * y
  OBVIOUS

\* Division rounds down.
LEMMA DivFacts ==
    ASSUME NEW a \in Nat, NEW y \in Nat \ {0}
    PROVE  /\ a \div y \in Nat
           /\ (a \div y) * y <= a
           /\ a < (a \div y) * y + y
  OBVIOUS

Slot == 0..(Slots - 1)
Index == 0..(N - 1)

\* What a page table record is.
Shape(m) ==
    /\ m = [dirs |-> m.dirs, tables |-> m.tables, next |-> m.next]
    /\ m.dirs \in [Dir -> [Slot -> Nat]]
    /\ m.next \in 1..(LastFrame + 1)
    /\ DOMAIN m.tables \subseteq 1..(m.next - 1)
    /\ m.tables \in [DOMAIN m.tables -> [Index -> 0..(m.next - 1) \cup {Junk}]]
    /\ \A d \in Dir, s \in Slot : m.dirs[d][s] \in {0} \cup DOMAIN m.tables

\* A table is of one slot and, when it is a program's, of one directory; the one
\* under way in a fork, tbl, is of none yet.
Exclusive(m, tbl) ==
    /\ \A d, e \in Dir, s, r \in Slot :
           m.dirs[d][s] # 0 /\ m.dirs[d][s] = m.dirs[e][r] => s = r /\ (s < UserSlots => d = e)
    /\ tbl # 0 => tbl \in DOMAIN m.tables /\ \A d \in Dir, s \in Slot : m.dirs[d][s] # tbl

OfUser(m, tbl, t) ==
    t # 0 /\ (t = tbl \/ \E d \in Dir, s \in Slot : s < UserSlots /\ m.dirs[d][s] = t)

\* Entry j of table u is that of a window, a page in W that a fork copies through.
AtWindow(m, W, u, j) == \E p \in W : u = m.dirs[loaded][p \div N] /\ j = p % N

\* What a program's table holds is no table and in no other entry but a window's.
Private(m, tbl, W) ==
    \A t \in DOMAIN m.tables, i \in Index :
        LET frame == m.tables[t][i]
        IN  OfUser(m, tbl, t) /\ frame # 0 =>
                /\ frame < m.next /\ frame \notin DOMAIN m.tables
                /\ \A u \in DOMAIN m.tables, j \in Index :
                       m.tables[u][j] = frame => (u = t /\ j = i) \/ AtWindow(m, W, u, j)

\* Directories 1..k have the same heap below b, and nothing but windows above.
HeapIs(m, W, k, b) ==
    /\ \A d \in 1..k, s \in KernelSlots : m.dirs[d][s] = m.dirs[1][s]
    /\ \A p \in KernelPage : /\ p < b => Trans(m, 1, p) \in 1..(m.next - 1)
                             /\ p >= b /\ p \notin W => Trans(m, 1, p) = 0

\* What process d is to find at a page, where x is the entry there.
Finds(x, d, p) ==
    IF expected[d][p] = Absent THEN x = 0 ELSE x # 0 /\ content[x] = expected[d][p]

Windows == IF fork.tbl # 0 THEN {fork.window} ELSE {}
Born == IF fork = NoFork THEN created ELSE created + 1

\* The pages that a fork has copied, and where to.
Copied(p) ==
    p \div N < fork.slot \/ (fork.tbl # 0 /\ p \div N = fork.slot /\ p % N < fork.entry)
CopyOf(p) ==
    IF p \div N < fork.slot THEN Trans(mem, fork.child, p) ELSE mem.tables[fork.tbl][p % N]

ForkInv ==
    fork # NoFork =>
        /\ fork \in [child : {created + 1}, slot : 0..UserSlots, tbl : Nat,
                     window : Nat, entry : 0..N, at : brk..(Slots * N)]
        /\ created + 1 \in Dir
        /\ fork.tbl # 0 =>
               /\ fork.slot < UserSlots /\ mem.dirs[loaded][fork.slot] # 0
               /\ fork.window \in brk..(fork.at - 1)
               /\ \A i \in fork.entry..(N - 1) : mem.tables[fork.tbl][i] = 0
        /\ \A s \in fork.slot..(UserSlots - 1) : mem.dirs[fork.child][s] = 0
        /\ \A p \in UserPage : Copied(p) => Finds(CopyOf(p), loaded, p)

TablesInv ==
    Shape(mem) /\ Exclusive(mem, fork.tbl) /\ Private(mem, fork.tbl, Windows)
HeapInv == (~crossed => HeapIs(mem, Windows, Born, brk)) /\ (halted => crossed)
KeptInv == \A d \in 1..created, p \in UserPage : Finds(Trans(mem, d, p), d, p)
RestInv ==
    /\ content \in [Frame -> Value]
    /\ brk \in UserSlots * N..Slots * N
    /\ created \in Dir /\ loaded \in 1..created
    /\ expected \in [Dir -> [UserPage -> Value \cup {Absent}]]
    /\ crossed \in BOOLEAN /\ halted \in BOOLEAN

IInv == TablesInv /\ HeapInv /\ KeptInv /\ ForkInv /\ RestInv

-----------------------------------------------------------------------------
(* Pages, slots and entries                                                *)

\* A number and its remainder
LEMMA ModFacts ==
    ASSUME NEW a \in Nat, NEW y \in Nat \ {0}
    PROVE  a % y \in 0..(y - 1) /\ a = (a \div y) * y + (a % y)
  OBVIOUS

\* The slot and the entry of a page.
LEMMA PageFacts ==
    ASSUME NEW p \in 0..(Slots * N - 1)
    PROVE  /\ p \div N \in Slot /\ p % N \in Index
           /\ p \div N >= UserSlots <=> p >= UserSlots * N
<1>1. N \in Nat \ {0} /\ Slots \in Nat /\ UserSlots \in Nat
    BY VirtMemAssumption
<1>2. p \in Nat
    BY <1>1
<1>3. /\ p \div N \in Nat /\ (p \div N) * N <= p
      /\ p < (p \div N) * N + N /\ p % N \in Index
    BY <1>1, <1>2, DivFacts, ModFacts DEF Index
<1>4. PICK q \in Nat : q = p \div N
    BY <1>3
<1>5. q * N <= p /\ p < (q + 1) * N
    <2>1. (q + 1) * N = q * N + N
        BY <1>1, TimesSuccessor
    <2> QED BY <1>3, <1>4, <2>1
<1>6. q * N \in Nat /\ Slots * N \in Nat /\ UserSlots * N \in Nat /\ (q + 1) * N \in Nat
    BY <1>1
<1>7. q < Slots
    <2> SUFFICES ASSUME q >= Slots PROVE FALSE
        BY <1>1
    <2>1. Slots * N <= q * N
        BY <1>1, TimesMonotone
    <2> QED BY <1>2, <1>5, <1>6, <2>1
<1>8. q >= UserSlots => p >= UserSlots * N
    <2> SUFFICES ASSUME q >= UserSlots PROVE p >= UserSlots * N
        OBVIOUS
    <2>1. UserSlots * N <= q * N
        BY <1>1, TimesMonotone
    <2> QED BY <1>2, <1>5, <1>6, <2>1
<1>9. p >= UserSlots * N => q >= UserSlots
    <2> SUFFICES ASSUME p >= UserSlots * N, q + 1 <= UserSlots PROVE FALSE
        BY <1>1
    <2>1. (q + 1) * N <= UserSlots * N
        BY <1>1, TimesMonotone
    <2> QED BY <1>2, <1>5, <1>6, <2>1
<1> QED BY <1>1, <1>3, <1>4, <1>7, <1>8, <1>9 DEF Slot

\* They tell pages apart.
LEMMA SamePage ==
    ASSUME NEW p \in Nat, NEW q \in Nat, p \div N = q \div N, p % N = q % N
    PROVE  p = q
<1>1. N \in Nat \ {0}
    BY VirtMemAssumption
<1>2. p = (p \div N) * N + (p % N) /\ q = (q \div N) * N + (q % N)
    BY <1>1, ModFacts
<1> QED BY <1>2

\* A page of the heap is in a slot of the kernel.
LEMMA KernelPages ==
    ASSUME NEW p \in KernelPage
    PROVE  /\ p \in Nat /\ p \div N \in Slot /\ p \div N \in KernelSlots /\ p % N \in Index
           /\ p \div N >= UserSlots
<1>1. N \in Nat \ {0} /\ Slots \in Nat /\ UserSlots \in Nat
    BY VirtMemAssumption
<1>2. UserSlots * N \in Nat /\ Slots * N \in Nat
    BY <1>1
<1>3. p \in 0..(Slots * N - 1) /\ p >= UserSlots * N
    BY <1>2 DEF KernelPage
<1>4. p \div N \in Slot /\ p % N \in Index /\ p \div N >= UserSlots
    BY <1>3, PageFacts
<1> QED BY <1>1, <1>2, <1>3, <1>4 DEF Slot, KernelSlots

\* A page of a program is in a slot of programs.
LEMMA UserPages ==
    ASSUME NEW p \in UserPage
    PROVE  p \in Nat /\ p \div N \in Slot /\ p % N \in Index /\ p \div N < UserSlots
<1>1. N \in Nat \ {0} /\ Slots \in Nat /\ UserSlots \in Nat /\ UserSlots <= Slots
      /\ p \in 0..(UserSlots * N - 1)
    BY VirtMemAssumption
<1>2. UserSlots * N \in Nat /\ Slots * N \in Nat /\ UserSlots * N <= Slots * N
    BY <1>1, TimesMonotone
<1>3. p \in 0..(Slots * N - 1) /\ p < UserSlots * N /\ p \in Nat
    BY <1>1, <1>2
<1>4. p \div N \in Slot /\ p % N \in Index /\ ~(p \div N >= UserSlots)
    BY <1>2, <1>3, PageFacts
<1> QED BY <1>1, <1>3, <1>4 DEF Slot

-----------------------------------------------------------------------------
(* The elementary steps                                                    *)

\* r is m with a table more, for slot s of directory d, that holds x everywhere.
Gains(m, r, d, s, x) ==
    /\ r.next = m.next + 1
    /\ DOMAIN r.tables = DOMAIN m.tables \cup {m.next}
    /\ \A e \in Dir, q \in Slot :
           r.dirs[e][q] = IF e = d /\ q = s THEN m.next ELSE m.dirs[e][q]
    /\ \A t \in DOMAIN m.tables, i \in Index : r.tables[t][i] = m.tables[t][i]
    /\ \A i \in Index : r.tables[m.next][i] = x

\* r is m but for the entries in E of table t, which are f.
Sets(m, r, t, E, f) ==
    /\ r.next = m.next /\ DOMAIN r.tables = DOMAIN m.tables
    /\ \A e \in Dir, q \in Slot : r.dirs[e][q] = m.dirs[e][q]
    /\ \A u \in DOMAIN m.tables, j \in Index :
           r.tables[u][j] = IF u = t /\ j \in E THEN f ELSE m.tables[u][j]

\* The fields of a record that is changed.
LEMMA Fields ==
    ASSUME NEW m, m = [dirs |-> m.dirs, tables |-> m.tables, next |-> m.next],
           NEW D, NEW T, NEW n
    PROVE  /\ [m EXCEPT !.tables = T] = [dirs |-> m.dirs, tables |-> T, next |-> m.next]
           /\ [m EXCEPT !.next = n] = [dirs |-> m.dirs, tables |-> m.tables, next |-> n]
           /\ [m EXCEPT !.dirs = D, !.next = n, !.tables = T] =
                  [dirs |-> D, tables |-> T, next |-> n]
<1>1. [m EXCEPT !.tables = T] = [dirs |-> m.dirs, tables |-> T, next |-> m.next]
    OBVIOUS
<1>2. [m EXCEPT !.next = n] = [dirs |-> m.dirs, tables |-> m.tables, next |-> n]
    OBVIOUS
<1>3. [m EXCEPT !.dirs = D, !.next = n, !.tables = T] = [dirs |-> D, tables |-> T, next |-> n]
    <2> DEFINE a == [m EXCEPT !.dirs = D]
               b == [a EXCEPT !.next = n]
    <2>1. a = [dirs |-> D, tables |-> m.tables, next |-> m.next]
        OBVIOUS
    <2>2. b = [dirs |-> D, tables |-> m.tables, next |-> n]
        <3> HIDE DEF a
        <3> QED BY <2>1
    <2>3. [b EXCEPT !.tables = T] = [dirs |-> D, tables |-> T, next |-> n]
        <3> HIDE DEF b
        <3> QED BY <2>2
    <2> QED BY <2>3
<1> QED BY <1>1, <1>2, <1>3

\* A table that nobody cleared
LEMMA WithTableIs ==
    ASSUME NEW m, Shape(m), NEW d \in Dir, NEW s \in Slot, m.next <= LastFrame
    PROVE  Shape(WithTable(m, d, s)) /\ Gains(m, WithTable(m, d, s), d, s, Junk)
<1> DEFINE r == WithTable(m, d, s)
           T == [t \in DOMAIN m.tables \cup {m.next} |->
                    IF t = m.next THEN [i \in 0..(N - 1) |-> Junk] ELSE m.tables[t]]
           D == [m.dirs EXCEPT ![d][s] = m.next]
<1>1. r = [dirs |-> D, tables |-> T, next |-> m.next + 1]
    <2>1. m = [dirs |-> m.dirs, tables |-> m.tables, next |-> m.next]
        BY DEF Shape
    <2>2. r = [m EXCEPT !.dirs = D, !.next = m.next + 1, !.tables = T]
        BY <2>1 DEF WithTable
    <2> HIDE DEF r, D, T
    <2> QED BY <2>1, <2>2, Fields, Zenon
<1>2. LastFrame \in Nat /\ m.next \in 1..(LastFrame + 1)
    BY VirtMemAssumption DEF Shape
<1>3. \A t \in DOMAIN m.tables : t # m.next /\ m.tables[t] \in [Index -> 0..(m.next - 1) \cup {Junk}]
    BY <1>2 DEF Shape
<1>4. T \in [DOMAIN m.tables \cup {m.next} -> [Index -> 0..m.next \cup {Junk}]]
    <2> SUFFICES ASSUME NEW t \in DOMAIN m.tables \cup {m.next}
                 PROVE  T[t] \in [Index -> 0..m.next \cup {Junk}]
        BY Zenon
    <2>1. CASE t = m.next
        <3> DEFINE z == [i \in 0..(N - 1) |-> Junk]
        <3>1. T[t] = z
            BY <2>1
        <3>2. z \in [Index -> 0..m.next \cup {Junk}]
            BY DEF Index
        <3> HIDE DEF T, z
        <3> QED BY <3>1, <3>2
    <2>2. CASE t # m.next
        <3>1. T[t] = m.tables[t] /\ t \in DOMAIN m.tables
            BY <2>2
        <3>2. m.tables[t] \in [Index -> 0..(m.next - 1) \cup {Junk}]
            BY <1>3, <3>1
        <3>3. 0..(m.next - 1) \subseteq 0..m.next
            BY <1>2
        <3> HIDE DEF T
        <3> QED BY <3>1, <3>2, <3>3
    <2> HIDE DEF T
    <2> QED BY <2>1, <2>2
<1>5. \A e \in Dir, q \in Slot : D[e][q] = IF e = d /\ q = s THEN m.next ELSE m.dirs[e][q]
    BY DEF Shape
<1>6. D \in [Dir -> [Slot -> Nat]]
    BY <1>2 DEF Shape
<1>7. DOMAIN T = DOMAIN m.tables \cup {m.next}
    OBVIOUS
<1>8. \A t \in DOMAIN m.tables : T[t] = m.tables[t]
    BY <1>3
<1>9. \A i \in Index : T[m.next][i] = Junk
    BY DEF Index
<1> HIDE DEF T, D, r
<1>10. r.dirs = D /\ r.tables = T /\ r.next = m.next + 1
    BY <1>1
<1>11. Gains(m, r, d, s, Junk)
    BY <1>5, <1>7, <1>8, <1>9, <1>10 DEF Gains
<1>12. Shape(r)
    <2>1. r = [dirs |-> r.dirs, tables |-> r.tables, next |-> r.next]
        BY <1>1, <1>10
    <2>2. r.next \in 1..(LastFrame + 1) /\ r.next - 1 = m.next
        BY <1>2, <1>10
    <2>3. DOMAIN r.tables \subseteq 1..(r.next - 1)
        <3>1. DOMAIN m.tables \subseteq 1..(m.next - 1)
            BY DEF Shape
        <3> QED BY <1>2, <1>7, <1>10, <2>2, <3>1
    <2>4. \A e \in Dir, q \in Slot : r.dirs[e][q] \in {0} \cup DOMAIN r.tables
        <3>1. \A e \in Dir, q \in Slot : m.dirs[e][q] \in {0} \cup DOMAIN m.tables
            BY DEF Shape
        <3> QED BY <1>5, <1>7, <1>10, <3>1
    <2>5. r.tables \in [DOMAIN r.tables -> [Index -> 0..(r.next - 1) \cup {Junk}]]
        BY <1>4, <1>7, <1>10, <2>2
    <2>6. r.dirs \in [Dir -> [Slot -> Nat]]
        BY <1>6, <1>10
    <2> QED BY <2>1, <2>2, <2>3, <2>4, <2>5, <2>6, Zenon DEF Shape
<1> QED BY <1>11, <1>12 DEF r

\* A table is cleared.
LEMMA ClearedIs ==
    ASSUME NEW m, Shape(m), NEW t \in DOMAIN m.tables
    PROVE  Shape(Cleared(m, t)) /\ Sets(m, Cleared(m, t), t, Index, 0)
<1> DEFINE r == Cleared(m, t)
           T == [m.tables EXCEPT ![t] = [i \in 0..(N - 1) |-> 0]]
<1>1. m = [dirs |-> m.dirs, tables |-> m.tables, next |-> m.next]
    BY DEF Shape
<1>2. r = [dirs |-> m.dirs, tables |-> T, next |-> m.next]
    <2>1. r = [m EXCEPT !.tables = T]
        BY DEF Cleared
    <2> HIDE DEF r, T
    <2> QED BY <1>1, <2>1, Fields, Zenon
<1>3. /\ m.tables \in [DOMAIN m.tables -> [Index -> 0..(m.next - 1) \cup {Junk}]]
      /\ m.next \in 1..(LastFrame + 1) /\ LastFrame \in Nat
    BY VirtMemAssumption DEF Shape
<1>4. DOMAIN T = DOMAIN m.tables /\ T \in [DOMAIN m.tables -> [Index -> 0..(m.next - 1) \cup {Junk}]]
    BY <1>3 DEF Index
<1>5. \A u \in DOMAIN m.tables, j \in Index :
          T[u][j] = IF u = t /\ j \in Index THEN 0 ELSE m.tables[u][j]
    BY <1>3 DEF Index
<1> HIDE DEF T, r
<1>6. r.dirs = m.dirs /\ r.tables = T /\ r.next = m.next
    BY <1>2
<1>7. Sets(m, r, t, Index, 0)
    BY <1>4, <1>5, <1>6 DEF Sets
<1>8. Shape(r)
    BY <1>2, <1>4, <1>6 DEF Shape
<1> QED BY <1>7, <1>8 DEF r

\* An entry is set.
LEMMA EntryIs ==
    ASSUME NEW m, Shape(m), NEW t \in DOMAIN m.tables, NEW i \in Index,
           NEW f \in 0..(m.next - 1), NEW r, r = [m EXCEPT !.tables[t][i] = f]
    PROVE  Shape(r) /\ Sets(m, r, t, {i}, f)
<1> DEFINE T == [m.tables EXCEPT ![t][i] = f]
<1>1. m = [dirs |-> m.dirs, tables |-> m.tables, next |-> m.next]
    BY DEF Shape
<1>2. r = [dirs |-> m.dirs, tables |-> T, next |-> m.next]
    <2>1. r = [m EXCEPT !.tables = T]
        OBVIOUS
    <2> HIDE DEF T
    <2> QED BY <1>1, <2>1, Fields, Zenon
<1>3. m.tables \in [DOMAIN m.tables -> [Index -> 0..(m.next - 1) \cup {Junk}]]
    BY DEF Shape
<1>4. DOMAIN T = DOMAIN m.tables /\ T \in [DOMAIN m.tables -> [Index -> 0..(m.next - 1) \cup {Junk}]]
    BY <1>3
<1>5. \A u \in DOMAIN m.tables, j \in Index :
          T[u][j] = IF u = t /\ j \in {i} THEN f ELSE m.tables[u][j]
    BY <1>3
<1> HIDE DEF T
<1>6. r.dirs = m.dirs /\ r.tables = T /\ r.next = m.next
    BY <1>2
<1>7. Sets(m, r, t, {i}, f)
    BY <1>4, <1>5, <1>6 DEF Sets
<1>8. Shape(r)
    BY <1>2, <1>4, <1>6 DEF Shape
<1> QED BY <1>7, <1>8

\* A frame is taken.
LEMMA TookIs ==
    ASSUME NEW m, Shape(m), m.next <= LastFrame
    PROVE  /\ Shape(Took(m)) /\ Took(m).next = m.next + 1
           /\ Took(m).dirs = m.dirs /\ Took(m).tables = m.tables
<1> DEFINE r == Took(m)
<1>1. m = [dirs |-> m.dirs, tables |-> m.tables, next |-> m.next]
    BY DEF Shape
<1>2. r = [dirs |-> m.dirs, tables |-> m.tables, next |-> m.next + 1]
    BY <1>1, Fields, Zenon DEF Took
<1>3. /\ m.tables \in [DOMAIN m.tables -> [Index -> 0..(m.next - 1) \cup {Junk}]]
      /\ DOMAIN m.tables \subseteq 1..(m.next - 1)
      /\ m.next \in 1..(LastFrame + 1) /\ LastFrame \in Nat
    BY VirtMemAssumption DEF Shape
<1> HIDE DEF r
<1>4. r.dirs = m.dirs /\ r.tables = m.tables /\ r.next = m.next + 1
    BY <1>2
<1>5. r.next \in 1..(LastFrame + 1) /\ r.next - 1 = m.next /\ 0..(m.next - 1) \subseteq 0..m.next
      /\ 1..(m.next - 1) \subseteq 1..m.next
    BY <1>3, <1>4
<1>6. /\ r.tables \in [DOMAIN r.tables -> [Index -> 0..(r.next - 1) \cup {Junk}]]
      /\ DOMAIN r.tables \subseteq 1..(r.next - 1)
    BY <1>3, <1>4, <1>5
<1>7. Shape(r)
    BY <1>2, <1>4, <1>5, <1>6 DEF Shape
<1> QED BY <1>4, <1>7 DEF r

\* An empty table for a slot: what the loaded directory has there is new.
LEMMA EmptyTable ==
    ASSUME NEW m, Shape(m), NEW d \in Dir, NEW s \in Slot, m.next <= LastFrame
    PROVE  /\ Shape(Cleared(WithTable(m, d, s), m.next))
           /\ Gains(m, Cleared(WithTable(m, d, s), m.next), d, s, 0)
<1> DEFINE w == WithTable(m, d, s)
           r == Cleared(w, m.next)
<1>1. Shape(w) /\ Gains(m, w, d, s, Junk)
    BY WithTableIs
<1>2. m.next \in DOMAIN w.tables
    BY <1>1 DEF Gains
<1> HIDE DEF w
<1>3. Shape(r) /\ Sets(w, r, m.next, Index, 0)
    BY <1>1, <1>2, ClearedIs
<1> HIDE DEF r
<1>4. \A t \in DOMAIN m.tables : t # m.next
    BY DEF Shape
<1>5. Gains(m, r, d, s, 0)
    BY <1>1, <1>3, <1>4 DEF Gains, Sets
<1> QED BY <1>3, <1>5 DEF r, w

-----------------------------------------------------------------------------
(* What they keep of the tables                                            *)

Good(m, tbl, W) == Shape(m) /\ Exclusive(m, tbl) /\ Private(m, tbl, W)

\* No program's table holds x.
Foreign(m, tbl, x) ==
    \A t \in DOMAIN m.tables, i \in Index : OfUser(m, tbl, t) => m.tables[t][i] # x

\* A frame that is nowhere in the tables.
Fresh(m, f) ==
    /\ f \in 1..(m.next - 1) /\ f \notin DOMAIN m.tables
    /\ \A u \in DOMAIN m.tables, j \in Index : m.tables[u][j] # f

\* One entry of a program: Private, one at a time.
PrivateEntry(m, tbl, W, x, t, i) ==
    /\ x < m.next /\ x \notin DOMAIN m.tables
    /\ \A u \in DOMAIN m.tables, j \in Index :
           m.tables[u][j] = x => (u = t /\ j = i) \/ AtWindow(m, W, u, j)

\* Private, one entry at a time
LEMMA ByEntry ==
    ASSUME NEW m, NEW tbl, NEW W
    PROVE  Private(m, tbl, W) <=>
               \A t \in DOMAIN m.tables, i \in Index :
                   OfUser(m, tbl, t) /\ m.tables[t][i] # 0
                       => PrivateEntry(m, tbl, W, m.tables[t][i], t, i)
  BY Zenon DEF Private, PrivateEntry

\* What follows from the shape: 0 is no table, and the next frame is not one yet.
LEMMA ShapeFacts ==
    ASSUME NEW m, Shape(m)
    PROVE  /\ m.next \in Nat /\ m.next >= 1 /\ m.next <= Junk /\ Junk \in Nat
           /\ DOMAIN m.tables \subseteq 1..(m.next - 1)
           /\ \A t \in DOMAIN m.tables : t \in Nat /\ t # 0 /\ t < m.next
           /\ \A t \in DOMAIN m.tables, i \in Index :
                  m.tables[t][i] \in 0..(m.next - 1) \cup {Junk} /\ m.tables[t][i] \in Nat
           /\ \A d \in Dir, s \in Slot : m.dirs[d][s] \in {0} \cup DOMAIN m.tables
<1>1. m.next \in 1..(LastFrame + 1) /\ LastFrame \in Nat /\ Junk = LastFrame + 1
    BY VirtMemAssumption DEF Shape, Junk
<1>2. m.tables \in [DOMAIN m.tables -> [Index -> 0..(m.next - 1) \cup {Junk}]]
    BY DEF Shape
<1>3. DOMAIN m.tables \subseteq 1..(m.next - 1)
    BY DEF Shape
<1>4. \A t \in DOMAIN m.tables, i \in Index : m.tables[t][i] \in 0..(m.next - 1) \cup {Junk}
    BY <1>2
<1>5. \A t \in 1..(m.next - 1) : t \in Nat /\ t # 0 /\ t < m.next
    BY <1>1
<1>6. \A x \in 0..(m.next - 1) \cup {Junk} : x \in Nat
    BY <1>1
<1>7. \A d \in Dir, s \in Slot : m.dirs[d][s] \in {0} \cup DOMAIN m.tables
    BY DEF Shape
<1>8. m.next \in Nat /\ m.next >= 1 /\ m.next <= Junk /\ Junk \in Nat
    BY <1>1
<1> QED BY <1>3, <1>4, <1>5, <1>6, <1>7, <1>8

\* The window of a page stays where it is when a slot without a table gets one.
LEMMA WindowStaysAt ==
    ASSUME NEW m, NEW r, NEW d \in Dir, NEW s \in Slot, NEW x, NEW W,
           Gains(m, r, d, s, x), Shape(m), m.dirs[d][s] = 0, loaded \in Dir, W \subseteq KernelPage,
           NEW u \in DOMAIN m.tables, NEW j, AtWindow(m, W, u, j)
    PROVE  AtWindow(r, W, u, j)
<1>1. PICK p \in W : u = m.dirs[loaded][p \div N] /\ j = p % N
    BY DEF AtWindow
<1>2. p \div N \in Slot /\ u # 0
    BY KernelPages, ShapeFacts
<1>3. r.dirs[loaded][p \div N] = m.dirs[loaded][p \div N]
    BY <1>1, <1>2 DEF Gains
<1> QED BY <1>1, <1>3 DEF AtWindow

\* A slot without a table gets one: empty, or the kernel's with anything in it.
LEMMA GainKeeps ==
    ASSUME NEW m, NEW r, NEW d \in Dir, NEW s \in Slot, NEW x, NEW tbl, NEW W,
           Good(m, tbl, W), Shape(r), Gains(m, r, d, s, x), m.dirs[d][s] = 0,
           x = 0 \/ (x = Junk /\ s >= UserSlots), loaded \in Dir, W \subseteq KernelPage
    PROVE  Good(r, tbl, W)
<1>1. /\ m.next \in Nat /\ m.next <= Junk /\ Junk \in Nat
      /\ \A t \in DOMAIN m.tables : t \in Nat /\ t # 0 /\ t < m.next
      /\ \A e \in Dir, q \in Slot : m.dirs[e][q] \in {0} \cup DOMAIN m.tables
    BY ShapeFacts DEF Good
<1>2. m.next # 0 /\ m.next \notin DOMAIN m.tables
    BY <1>1, ShapeFacts DEF Good
<1>3. \A e \in Dir, q \in Slot : m.dirs[e][q] # m.next
    BY <1>1, <1>2
<1>4. \A e \in Dir, q \in Slot : r.dirs[e][q] = IF e = d /\ q = s THEN m.next ELSE m.dirs[e][q]
    BY DEF Gains
<1>5. tbl # 0 => tbl \in DOMAIN m.tables /\ \A e \in Dir, q \in Slot : m.dirs[e][q] # tbl
    BY DEF Good, Exclusive
<1>6. DOMAIN r.tables = DOMAIN m.tables \cup {m.next} /\ r.next = m.next + 1
    BY DEF Gains
<1>7. Exclusive(r, tbl)
    <2>1. ASSUME NEW e \in Dir, NEW g \in Dir, NEW q \in Slot, NEW p \in Slot,
                 r.dirs[e][q] # 0, r.dirs[e][q] = r.dirs[g][p]
          PROVE  q = p /\ (q < UserSlots => e = g)
        <3>1. CASE e = d /\ q = s
            BY <1>3, <1>4, <2>1, <3>1
        <3>2. CASE ~(e = d /\ q = s)
            <4>1. m.dirs[e][q] # 0 /\ m.dirs[e][q] = m.dirs[g][p]
                BY <1>3, <1>4, <2>1, <3>2
            <4> QED BY <4>1 DEF Good, Exclusive
        <3> QED BY <3>1, <3>2
    <2>2. tbl # 0 => tbl \in DOMAIN r.tables /\ \A e \in Dir, q \in Slot : r.dirs[e][q] # tbl
        BY <1>2, <1>4, <1>5, <1>6
    <2> QED BY <2>1, <2>2 DEF Exclusive
<1>8. Private(r, tbl, W)
    <2> SUFFICES ASSUME NEW t \in DOMAIN r.tables, NEW i \in Index,
                        OfUser(r, tbl, t), r.tables[t][i] # 0
                 PROVE  PrivateEntry(r, tbl, W, r.tables[t][i], t, i)
        BY ByEntry
    <2>1. t # m.next
        <3> SUFFICES ASSUME t = m.next PROVE FALSE
            OBVIOUS
        <3>1. r.tables[t][i] = x
            BY DEF Gains
        <3>2. x # 0 /\ s >= UserSlots
            BY <3>1
        <3>3. t # tbl
            BY <1>2, <1>5
        <3>4. PICK e \in Dir, q \in Slot : q < UserSlots /\ r.dirs[e][q] = t
            BY <3>3 DEF OfUser
        <3>5. q = s
            BY <1>3, <1>4, <3>4
        <3> QED BY <3>2, <3>4, <3>5, VirtMemAssumption DEF Slot
    <2>2. t \in DOMAIN m.tables /\ r.tables[t][i] = m.tables[t][i]
        BY <1>6, <2>1 DEF Gains
    <2>3. OfUser(m, tbl, t)
        BY <1>4, <2>1 DEF OfUser
    <2> DEFINE f == m.tables[t][i]
    <2>4. PrivateEntry(m, tbl, W, f, t, i)
        BY <2>2, <2>3, ByEntry DEF Good
    <2>5. f \in Nat /\ f # 0
        BY <2>2, ShapeFacts DEF Good
    <2> HIDE DEF f
    <2>6. f < m.next /\ f \notin DOMAIN m.tables
        BY <2>4 DEF PrivateEntry
    <2>7. f < r.next /\ f \notin DOMAIN r.tables
        BY <1>1, <1>6, <2>5, <2>6
    <2>8. ASSUME NEW u \in DOMAIN r.tables, NEW j \in Index, r.tables[u][j] = f
          PROVE  (u = t /\ j = i) \/ AtWindow(r, W, u, j)
        <3>1. u # m.next
            <4> SUFFICES ASSUME u = m.next PROVE FALSE
                OBVIOUS
            <4>1. f = x
                BY <2>8 DEF Gains
            <4> QED BY <1>1, <2>5, <2>6, <4>1
        <3>2. u \in DOMAIN m.tables /\ m.tables[u][j] = f
            BY <1>6, <2>8, <3>1 DEF Gains
        <3>3. (u = t /\ j = i) \/ AtWindow(m, W, u, j)
            BY <2>4, <3>2 DEF PrivateEntry
        <3> QED BY <3>2, <3>3, WindowStaysAt DEF Good
    <2>9. PrivateEntry(r, tbl, W, f, t, i)
        BY <2>7, <2>8 DEF PrivateEntry
    <2> QED BY <2>2, <2>9 DEF f
<1> QED BY <1>7, <1>8 DEF Good

\* Directories and tables are the same, so are owners and windows.
LEMMA SetsFacts ==
    ASSUME NEW m, NEW r, NEW t, NEW E, NEW f, Shape(m), Sets(m, r, t, E, f), NEW tbl,
           loaded \in Dir
    PROVE  /\ \A u : OfUser(r, tbl, u) <=> OfUser(m, tbl, u)
           /\ \A W \in SUBSET KernelPage : \A u, j : AtWindow(r, W, u, j) <=> AtWindow(m, W, u, j)
           /\ Exclusive(m, tbl) => Exclusive(r, tbl)
<1>1. \A e \in Dir, q \in Slot : r.dirs[e][q] = m.dirs[e][q]
    BY DEF Sets
<1>2. DOMAIN r.tables = DOMAIN m.tables
    BY DEF Sets
<1>3. \A u : OfUser(r, tbl, u) <=> OfUser(m, tbl, u)
    BY <1>1 DEF OfUser
<1>4. ASSUME NEW W \in SUBSET KernelPage
      PROVE  \A u, j : AtWindow(r, W, u, j) <=> AtWindow(m, W, u, j)
    <2>1. \A p \in W : r.dirs[loaded][p \div N] = m.dirs[loaded][p \div N]
        BY <1>1, KernelPages
    <2> QED BY <2>1 DEF AtWindow
<1>5. Exclusive(m, tbl) => Exclusive(r, tbl)
    BY <1>1, <1>2 DEF Exclusive
<1> QED BY <1>3, <1>4, <1>5

\* Entries of the kernel's tables: nothing, or a window to anything.
LEMMA SetKernelKeeps ==
    ASSUME NEW m, NEW r, NEW t \in DOMAIN m.tables, NEW E \in SUBSET Index, NEW f, NEW tbl,
           NEW W, NEW V, Good(m, tbl, W), Shape(r), Sets(m, r, t, E, f), ~OfUser(m, tbl, t),
           loaded \in Dir, W \subseteq V, V \subseteq KernelPage,
           f = 0 \/ \A j \in E : AtWindow(m, V, t, j)
    PROVE  Good(r, tbl, V)
<1>1. /\ \A u : OfUser(r, tbl, u) <=> OfUser(m, tbl, u)
      /\ \A u, j : AtWindow(r, V, u, j) <=> AtWindow(m, V, u, j)
      /\ Exclusive(r, tbl)
    BY SetsFacts DEF Good
<1>2. /\ DOMAIN r.tables = DOMAIN m.tables /\ r.next = m.next
      /\ \A u \in DOMAIN m.tables, j \in Index :
             r.tables[u][j] = IF u = t /\ j \in E THEN f ELSE m.tables[u][j]
    BY DEF Sets
<1>3. Private(r, tbl, V)
    <2> SUFFICES ASSUME NEW u \in DOMAIN r.tables, NEW i \in Index,
                        OfUser(r, tbl, u), r.tables[u][i] # 0
                 PROVE  PrivateEntry(r, tbl, V, r.tables[u][i], u, i)
        BY ByEntry
    <2>1. u # t /\ OfUser(m, tbl, u) /\ u \in DOMAIN m.tables
        BY <1>1, <1>2
    <2>2. r.tables[u][i] = m.tables[u][i]
        BY <1>2, <2>1
    <2> DEFINE x == m.tables[u][i]
    <2>3. PrivateEntry(m, tbl, W, x, u, i) /\ x # 0
        BY <2>1, <2>2, ByEntry DEF Good
    <2> HIDE DEF x
    <2>4. ASSUME NEW k \in DOMAIN r.tables, NEW j \in Index, r.tables[k][j] = x
          PROVE  (k = u /\ j = i) \/ AtWindow(r, V, k, j)
        <3>1. CASE k = t /\ j \in E
            <4>1. f # 0
                BY <1>2, <2>3, <2>4, <3>1
            <4> QED BY <1>1, <3>1, <4>1
        <3>2. CASE ~(k = t /\ j \in E)
            <4>1. k \in DOMAIN m.tables /\ m.tables[k][j] = x
                BY <1>2, <2>4, <3>2
            <4>2. (k = u /\ j = i) \/ AtWindow(m, W, k, j)
                BY <2>3, <4>1 DEF PrivateEntry
            <4>3. AtWindow(m, W, k, j) => AtWindow(m, V, k, j)
                BY DEF AtWindow
            <4> QED BY <1>1, <4>2, <4>3
        <3> QED BY <3>1, <3>2
    <2>5. PrivateEntry(r, tbl, V, x, u, i)
        BY <1>2, <2>3, <2>4 DEF PrivateEntry
    <2> QED BY <2>2, <2>5 DEF x
<1> QED BY <1>1, <1>3 DEF Good

\* A page is no window any more when no program has what it shows.
LEMMA DropWindow ==
    ASSUME NEW m, NEW tbl, NEW W, NEW p, Good(m, tbl, W),
           LET t == m.dirs[loaded][p \div N]
           IN  t \in DOMAIN m.tables => Foreign(m, tbl, m.tables[t][p % N]) \/ m.tables[t][p % N] = 0
    PROVE  Good(m, tbl, W \ {p})
<1>1. Private(m, tbl, W \ {p})
    <2> SUFFICES ASSUME NEW t \in DOMAIN m.tables, NEW i \in Index,
                        OfUser(m, tbl, t), m.tables[t][i] # 0
                 PROVE  PrivateEntry(m, tbl, W \ {p}, m.tables[t][i], t, i)
        BY ByEntry
    <2> DEFINE x == m.tables[t][i]
    <2>1. PrivateEntry(m, tbl, W, x, t, i) /\ x # 0
        BY ByEntry DEF Good
    <2>2. ~Foreign(m, tbl, x)
        BY DEF Foreign
    <2> HIDE DEF x
    <2>3. ASSUME NEW u \in DOMAIN m.tables, NEW j \in Index, m.tables[u][j] = x
          PROVE  (u = t /\ j = i) \/ AtWindow(m, W \ {p}, u, j)
        <3>1. (u = t /\ j = i) \/ AtWindow(m, W, u, j)
            BY <2>1, <2>3 DEF PrivateEntry
        <3>2. ASSUME NEW q \in W, u = m.dirs[loaded][q \div N], j = q % N
              PROVE  q # p
            BY <2>1, <2>2, <2>3, <3>2
        <3> QED BY <3>1, <3>2 DEF AtWindow
    <2>4. PrivateEntry(m, tbl, W \ {p}, x, t, i)
        BY <2>1, <2>3 DEF PrivateEntry
    <2> QED BY <2>4 DEF x
<1> QED BY <1>1 DEF Good

\* An entry of a program: nothing, or a frame that is nowhere yet.
LEMMA SetUserKeeps ==
    ASSUME NEW m, NEW r, NEW t \in DOMAIN m.tables, NEW i \in Index, NEW f, NEW tbl,
           NEW W \in SUBSET KernelPage, Good(m, tbl, W), Shape(r), Sets(m, r, t, {i}, f),
           loaded \in Dir, f = 0 \/ Fresh(m, f)
    PROVE  Good(r, tbl, W)
<1>1. /\ \A u : OfUser(r, tbl, u) <=> OfUser(m, tbl, u)
      /\ \A u, j : AtWindow(r, W, u, j) <=> AtWindow(m, W, u, j)
      /\ Exclusive(r, tbl)
    BY SetsFacts DEF Good
<1>2. /\ DOMAIN r.tables = DOMAIN m.tables /\ r.next = m.next
      /\ \A u \in DOMAIN m.tables, j \in Index :
             r.tables[u][j] = IF u = t /\ j \in {i} THEN f ELSE m.tables[u][j]
    BY DEF Sets
<1>3. m.next \in Nat
    BY ShapeFacts DEF Good
<1>4. Private(r, tbl, W)
    <2> SUFFICES ASSUME NEW u \in DOMAIN r.tables, NEW j \in Index,
                        OfUser(r, tbl, u), r.tables[u][j] # 0
                 PROVE  PrivateEntry(r, tbl, W, r.tables[u][j], u, j)
        BY ByEntry
    <2>1. CASE u = t /\ j = i
        <3>1. r.tables[u][j] = f /\ Fresh(m, f)
            BY <1>2, <2>1
        <3>2. f < r.next /\ f \notin DOMAIN r.tables
            BY <1>2, <1>3, <3>1 DEF Fresh
        <3>3. \A k \in DOMAIN r.tables, l \in Index : r.tables[k][l] = f => k = u /\ l = j
            BY <1>2, <2>1, <3>1 DEF Fresh
        <3> QED BY <3>1, <3>2, <3>3 DEF PrivateEntry
    <2>2. CASE ~(u = t /\ j = i)
        <3> DEFINE x == m.tables[u][j]
        <3>1. r.tables[u][j] = x /\ x # 0
            BY <1>2, <2>2
        <3>2. PrivateEntry(m, tbl, W, x, u, j)
            BY <1>1, <1>2, <3>1, ByEntry DEF Good
        <3>3. ~Fresh(m, x)
            BY <1>2 DEF Fresh
        <3> HIDE DEF x
        <3>4. ASSUME NEW k \in DOMAIN r.tables, NEW l \in Index, r.tables[k][l] = x
              PROVE  (k = u /\ l = j) \/ AtWindow(r, W, k, l)
            <4>1. ~(k = t /\ l = i)
                BY <1>2, <3>1, <3>3, <3>4
            <4>2. k \in DOMAIN m.tables /\ m.tables[k][l] = x
                BY <1>2, <3>4, <4>1
            <4> QED BY <1>1, <3>2, <4>2 DEF PrivateEntry
        <3>5. PrivateEntry(r, tbl, W, x, u, j)
            BY <1>2, <3>2, <3>4 DEF PrivateEntry
        <3> QED BY <3>1, <3>5
    <2> QED BY <2>1, <2>2
<1> QED BY <1>1, <1>4 DEF Good

\* The frame that is taken is nowhere in the tables.
LEMMA TookKeeps ==
    ASSUME NEW m, NEW tbl, NEW W, Good(m, tbl, W), m.next <= LastFrame
    PROVE  Good(Took(m), tbl, W) /\ Fresh(Took(m), m.next)
<1> DEFINE r == Took(m)
<1>1. Shape(r) /\ r.next = m.next + 1 /\ r.dirs = m.dirs /\ r.tables = m.tables
    BY TookIs DEF Good
<1> HIDE DEF r
<1>2. /\ m.next \in Nat /\ m.next >= 1 /\ \A t \in DOMAIN m.tables : t # m.next
      /\ \A t \in DOMAIN m.tables, i \in Index :
             m.tables[t][i] \in 0..(m.next - 1) \cup {Junk} /\ m.tables[t][i] \in Nat
    BY ShapeFacts DEF Good
<1>3. m.next # Junk /\ LastFrame \in Nat
    BY <1>2, VirtMemAssumption DEF Junk
<1>4. Exclusive(r, tbl)
    BY <1>1 DEF Exclusive, Good
<1>5. Private(r, tbl, W)
    <2> SUFFICES ASSUME NEW t \in DOMAIN r.tables, NEW i \in Index,
                        OfUser(r, tbl, t), r.tables[t][i] # 0
                 PROVE  PrivateEntry(r, tbl, W, r.tables[t][i], t, i)
        BY ByEntry
    <2>1. OfUser(m, tbl, t)
        BY <1>1 DEF OfUser
    <2>2. PrivateEntry(m, tbl, W, m.tables[t][i], t, i)
        BY <1>1, <2>1, ByEntry DEF Good
    <2>3. m.tables[t][i] < r.next
        BY <1>1, <1>2, <2>2 DEF PrivateEntry
    <2> QED BY <1>1, <2>2, <2>3 DEF PrivateEntry, AtWindow
<1>6. Fresh(r, m.next)
    <2>1. m.next \in 1..(r.next - 1) /\ m.next \notin DOMAIN r.tables
        BY <1>1, <1>2
    <2>2. \A u \in DOMAIN r.tables, j \in Index : r.tables[u][j] # m.next
        BY <1>1, <1>2, <1>3
    <2> QED BY <2>1, <2>2 DEF Fresh
<1> QED BY <1>1, <1>4, <1>5, <1>6 DEF Good, r

-----------------------------------------------------------------------------
(* What they do to the pages                                               *)

\* The programs' slots and their tables are the same in r.
SameUser(m, r, tbl) ==
    /\ \A d \in Dir, s \in Slot : s < UserSlots => r.dirs[d][s] = m.dirs[d][s]
    /\ \A t \in DOMAIN m.tables : OfUser(m, tbl, t) =>
           t \in DOMAIN r.tables /\ \A i \in Index : r.tables[t][i] = m.tables[t][i]

\* Then the programs' pages are the same.
LEMMA SameUserPages ==
    ASSUME NEW m, NEW r, NEW tbl, Shape(m), SameUser(m, r, tbl),
           NEW d \in Dir, NEW p \in UserPage
    PROVE  Trans(r, d, p) = Trans(m, d, p)
<1> DEFINE t == m.dirs[d][p \div N]
<1>1. p \div N \in Slot /\ p % N \in Index /\ p \div N < UserSlots
    BY UserPages
<1>2. r.dirs[d][p \div N] = t /\ t \in {0} \cup DOMAIN m.tables
    BY <1>1, ShapeFacts DEF SameUser
<1>3. t # 0 => OfUser(m, tbl, t)
    BY <1>1 DEF OfUser
<1>4. t # 0 => r.tables[t][p % N] = m.tables[t][p % N]
    BY <1>1, <1>2, <1>3 DEF SameUser
<1> QED BY <1>2, <1>4 DEF Trans

\* Two steps that leave the programs alone
LEMMA SameUserAgain ==
    ASSUME NEW m, NEW r, NEW q, NEW tbl, SameUser(m, r, tbl), SameUser(r, q, tbl)
    PROVE  SameUser(m, q, tbl)
<1>1. \A d \in Dir, s \in Slot : s < UserSlots => q.dirs[d][s] = m.dirs[d][s]
    BY DEF SameUser
<1>2. ASSUME NEW t \in DOMAIN m.tables, OfUser(m, tbl, t)
      PROVE  t \in DOMAIN q.tables /\ \A i \in Index : q.tables[t][i] = m.tables[t][i]
    <2>1. t \in DOMAIN r.tables /\ \A i \in Index : r.tables[t][i] = m.tables[t][i]
        BY <1>2 DEF SameUser
    <2>2. OfUser(r, tbl, t)
        BY <1>2 DEF SameUser, OfUser
    <2>3. t \in DOMAIN q.tables /\ \A i \in Index : q.tables[t][i] = r.tables[t][i]
        BY <2>1, <2>2 DEF SameUser
    <2> QED BY <2>1, <2>3
<1> QED BY <1>1, <1>2 DEF SameUser

\* A table of the kernel is no program's.
LEMMA KernelTable ==
    ASSUME NEW m, NEW tbl, NEW W, Good(m, tbl, W), NEW d \in Dir, NEW s \in Slot, s >= UserSlots,
           m.dirs[d][s] # 0
    PROVE  ~OfUser(m, tbl, m.dirs[d][s]) /\ m.dirs[d][s] \in DOMAIN m.tables
<1> DEFINE t == m.dirs[d][s]
<1>1. UserSlots \in Nat /\ Slots \in Nat
    BY VirtMemAssumption
<1>2. t # tbl
    BY DEF Good, Exclusive
<1>3. ASSUME NEW e \in Dir, NEW q \in Slot, q < UserSlots, m.dirs[e][q] = t PROVE FALSE
    <2>1. q = s
        BY <1>3 DEF Good, Exclusive
    <2> QED BY <1>1, <1>3, <2>1 DEF Slot
<1>4. t \in DOMAIN m.tables
    BY ShapeFacts DEF Good
<1> QED BY <1>2, <1>3, <1>4 DEF OfUser

\* An empty table changes no page.
LEMMA GainPages ==
    ASSUME NEW m, NEW r, NEW d \in Dir, NEW s \in Slot, Shape(m),
           Gains(m, r, d, s, 0), m.dirs[d][s] = 0,
           NEW e \in Dir, NEW p, p \div N \in Slot, p % N \in Index
    PROVE  Trans(r, e, p) = Trans(m, e, p)
<1> DEFINE q == p \div N
           t == m.dirs[e][q]
<1>1. t \in {0} \cup DOMAIN m.tables /\ m.next # 0 /\ \A u \in DOMAIN m.tables : u # 0
    BY ShapeFacts
<1>2. CASE e = d /\ q = s
    <2>1. r.dirs[e][q] = m.next /\ r.tables[m.next][p % N] = 0 /\ t = 0
        BY <1>2 DEF Gains
    <2> QED BY <1>1, <2>1 DEF Trans
<1>3. CASE ~(e = d /\ q = s)
    <2>1. r.dirs[e][q] = t
        BY <1>3 DEF Gains
    <2>2. t # 0 => r.tables[t][p % N] = m.tables[t][p % N]
        BY <1>1 DEF Gains
    <2> QED BY <2>1, <2>2 DEF Trans
<1> QED BY <1>2, <1>3

\* An entry that is set changes the pages that are there.
LEMMA SetPages ==
    ASSUME NEW m, NEW r, NEW t \in DOMAIN m.tables, NEW E, NEW f, Shape(m), Sets(m, r, t, E, f),
           NEW e \in Dir, NEW p, p \div N \in Slot, p % N \in Index
    PROVE  Trans(r, e, p) =
               IF m.dirs[e][p \div N] = t /\ p % N \in E THEN f ELSE Trans(m, e, p)
<1> DEFINE u == m.dirs[e][p \div N]
<1>1. u \in {0} \cup DOMAIN m.tables /\ t # 0
    BY ShapeFacts
<1>2. r.dirs[e][p \div N] = u
    BY DEF Sets
<1>3. u # 0 => r.tables[u][p % N] = IF u = t /\ p % N \in E THEN f ELSE m.tables[u][p % N]
    BY <1>1 DEF Sets
<1>4. Trans(m, e, p) = IF u = 0 THEN 0 ELSE m.tables[u][p % N]
    BY DEF Trans
<1>5. Trans(r, e, p) = IF u = 0 THEN 0 ELSE r.tables[u][p % N]
    BY <1>2 DEF Trans
<1> HIDE DEF u
<1> QED BY <1>1, <1>3, <1>4, <1>5 DEF u

\* The directory that is loaded gets a table for a slot that has none.
LEMMA TableForIs ==
    ASSUME NEW m, Shape(m), NEW s \in Slot, loaded \in Dir,
           m.dirs[loaded][s] = 0 => m.next <= LastFrame
    PROVE  LET r == TableFor(m, loaded, s)
           IN  /\ Shape(r)
               /\ r = m \/ (m.dirs[loaded][s] = 0 /\ Gains(m, r, loaded, s, 0))
               /\ r.dirs[loaded][s] # 0
               /\ r.next = m.next + (IF m.dirs[loaded][s] = 0 THEN 1 ELSE 0)
<1>1. m.next \in Nat /\ m.next # 0
    BY ShapeFacts
<1>2. CASE m.dirs[loaded][s] # 0
    <2>1. TableFor(m, loaded, s) = m
        BY <1>2 DEF TableFor
    <2> QED BY <1>1, <1>2, <2>1
<1>3. CASE m.dirs[loaded][s] = 0
    <2> DEFINE w == WithTable(m, loaded, s)
    <2>1. Gains(m, w, loaded, s, Junk)
        BY <1>3, WithTableIs
    <2>2. w.dirs[loaded][s] = m.next
        BY <2>1 DEF Gains
    <2>3. TableFor(m, loaded, s) = Cleared(w, m.next)
        BY <1>1, <1>3, <2>2 DEF TableFor
    <2> DEFINE r == Cleared(w, m.next)
    <2>4. Shape(r) /\ Gains(m, r, loaded, s, 0)
        BY <1>3, EmptyTable
    <2> HIDE DEF r
    <2>5. r.dirs[loaded][s] = m.next /\ r.next = m.next + 1
        BY <2>4 DEF Gains
    <2>6. /\ Shape(r) /\ (r = m \/ (m.dirs[loaded][s] = 0 /\ Gains(m, r, loaded, s, 0)))
          /\ r.dirs[loaded][s] # 0
          /\ r.next = m.next + (IF m.dirs[loaded][s] = 0 THEN 1 ELSE 0)
        BY <1>1, <1>3, <2>4, <2>5
    <2> QED BY <2>3, <2>6 DEF r
<1> QED BY <1>2, <1>3

\* And in doing so changes no page.
LEMMA TableForKeeps ==
    ASSUME NEW m, NEW tbl, NEW W \in SUBSET KernelPage, Good(m, tbl, W), NEW s \in Slot,
           loaded \in Dir, m.dirs[loaded][s] = 0 => m.next <= LastFrame, NEW r,
           r = TableFor(m, loaded, s)
    PROVE  /\ Good(r, tbl, W)
           /\ SameUser(m, r, tbl) \/ s < UserSlots
           /\ \A e \in Dir, q \in Slot : m.dirs[e][q] # 0 => r.dirs[e][q] = m.dirs[e][q]
           /\ \A e \in Dir : \A p : p \div N \in Slot /\ p % N \in Index =>
                  Trans(r, e, p) = Trans(m, e, p)
           /\ \A f : Fresh(m, f) => Fresh(r, f)
           /\ \A k \in 1..LastDir : \A b : (m.dirs[loaded][s] = 0 => s < UserSlots \/ k = 1)
                  /\ HeapIs(m, W, k, b) => HeapIs(r, W, k, b)
<1>1. Shape(m) /\ UserSlots \in Nat /\ Slots \in Nat
    BY VirtMemAssumption DEF Good
<1>2. Shape(r) /\ (r = m \/ (m.dirs[loaded][s] = 0 /\ Gains(m, r, loaded, s, 0)))
    BY <1>1, TableForIs
<1>3. CASE r = m
    BY <1>3 DEF SameUser
<1>4. CASE m.dirs[loaded][s] = 0 /\ Gains(m, r, loaded, s, 0)
    <2>1. Good(r, tbl, W)
        <3>1. PICK x : x = 0
            OBVIOUS
        <3>2. Gains(m, r, loaded, s, x) /\ (x = 0 \/ (x = Junk /\ s >= UserSlots))
            BY <1>4, <3>1
        <3> QED BY <1>2, <1>4, <3>2, GainKeeps
    <2>2. \A e \in Dir, q \in Slot : r.dirs[e][q] = IF e = loaded /\ q = s THEN m.next ELSE m.dirs[e][q]
        BY <1>4 DEF Gains
    <2>3. /\ DOMAIN r.tables = DOMAIN m.tables \cup {m.next} /\ r.next = m.next + 1
          /\ \A t \in DOMAIN m.tables, i \in Index : r.tables[t][i] = m.tables[t][i]
          /\ \A i \in Index : r.tables[m.next][i] = 0
        BY <1>4 DEF Gains
    <2>4. SameUser(m, r, tbl) \/ s < UserSlots
        <3> SUFFICES ASSUME ~(s < UserSlots) PROVE SameUser(m, r, tbl)
            OBVIOUS
        <3>1. \A d \in Dir, q \in Slot : q < UserSlots => r.dirs[d][q] = m.dirs[d][q]
            BY <2>2
        <3> QED BY <2>3, <3>1 DEF SameUser
    <2>5. \A e \in Dir, q \in Slot : m.dirs[e][q] # 0 => r.dirs[e][q] = m.dirs[e][q]
        BY <1>4, <2>2
    <2>6. \A e \in Dir : \A p : p \div N \in Slot /\ p % N \in Index => Trans(r, e, p) = Trans(m, e, p)
        BY <1>1, <1>4, GainPages
    <2>7. ASSUME NEW f, Fresh(m, f) PROVE Fresh(r, f)
        <3>1. m.next \in Nat
            BY <1>1, ShapeFacts
        <3>2. f \in 1..(m.next - 1) /\ f \notin DOMAIN m.tables
              /\ \A u \in DOMAIN m.tables, j \in Index : m.tables[u][j] # f
            BY <2>7 DEF Fresh
        <3>3. f \in 1..(r.next - 1) /\ f # m.next /\ f # 0
            BY <2>3, <3>1, <3>2
        <3>4. \A u \in DOMAIN r.tables, j \in Index : r.tables[u][j] # f
            BY <2>3, <3>2, <3>3
        <3> QED BY <2>3, <3>2, <3>3, <3>4 DEF Fresh
    <2>8. ASSUME NEW k \in 1..LastDir, NEW b, s < UserSlots \/ k = 1, HeapIs(m, W, k, b)
          PROVE  HeapIs(r, W, k, b)
        <3>1. LastDir \in Nat /\ m.next \in Nat
            BY <1>1, VirtMemAssumption, ShapeFacts
        <3>2. \A d \in 1..k, q \in KernelSlots : r.dirs[d][q] = r.dirs[1][q]
            <4>1. CASE k = 1
                BY <4>1
            <4>2. CASE s < UserSlots
                <5>1. \A d \in 1..k : d \in Dir /\ 1 \in Dir
                    BY <3>1 DEF Dir
                <5>2. \A q \in KernelSlots : q \in Slot /\ q # s
                    BY <1>1, <4>2 DEF KernelSlots, Slot
                <5>3. \A d \in 1..k, q \in KernelSlots : m.dirs[d][q] = m.dirs[1][q]
                    BY <2>8 DEF HeapIs
                <5> QED BY <2>2, <5>1, <5>2, <5>3
            <4> QED BY <2>8, <4>1, <4>2
        <3>3. ASSUME NEW p \in KernelPage PROVE Trans(r, 1, p) = Trans(m, 1, p)
            BY <2>6, <3>1, KernelPages DEF Dir
        <3>4. 1..(m.next - 1) \subseteq 1..(r.next - 1)
            BY <2>3, <3>1
        <3> QED BY <2>8, <3>2, <3>3, <3>4 DEF HeapIs
    <2> QED BY <1>4, <2>1, <2>4, <2>5, <2>6, <2>7, <2>8
<1> QED BY <1>2, <1>3, <1>4

\* r is m but for the entry of a page in the loaded directory.
SetsPage(m, r, page, f) ==
    /\ m.dirs[loaded][page \div N] # 0
    /\ Sets(m, r, m.dirs[loaded][page \div N], {page % N}, f)

\* An entry of the kernel in the loaded directory is that of one page, in all
\* directories that have the same table.
LEMMA EntryPages ==
    ASSUME NEW m, NEW tbl, NEW W, Good(m, tbl, W), NEW page \in KernelPage, loaded \in Dir,
           NEW f, NEW r, SetsPage(m, r, page, f), NEW d \in Dir,
           m.dirs[d][page \div N] = m.dirs[loaded][page \div N], NEW q \in KernelPage
    PROVE  Trans(r, d, q) = IF q = page THEN f ELSE Trans(m, d, q)
<1> DEFINE t == m.dirs[loaded][page \div N]
<1>1. /\ page \in Nat /\ page \div N \in Slot /\ page % N \in Index
      /\ page \div N \in KernelSlots
    BY KernelPages
<1>2. t \in DOMAIN m.tables /\ Shape(m) /\ t # 0 /\ Sets(m, r, t, {page % N}, f)
    BY <1>1, ShapeFacts DEF Good, SetsPage
<1>3. q \in Nat /\ q \div N \in Slot /\ q % N \in Index
    BY KernelPages
<1>4. Trans(r, d, q) = IF m.dirs[d][q \div N] = t /\ q % N \in {page % N} THEN f ELSE Trans(m, d, q)
    BY <1>2, <1>3, SetPages
<1>5. m.dirs[d][q \div N] = t => q \div N = page \div N
    BY <1>1, <1>2, <1>3 DEF Good, Exclusive
<1>6. m.dirs[d][q \div N] = t /\ q % N = page % N => q = page
    BY <1>1, <1>3, <1>5, SamePage
<1> QED BY <1>4, <1>6

\* So a window opens or closes in all of them, or the heap is a page longer.
LEMMA EntryHeap ==
    ASSUME NEW m, NEW tbl, NEW W, Good(m, tbl, W), NEW page \in KernelPage, loaded \in Dir,
           NEW f, NEW r, SetsPage(m, r, page, f), NEW k \in 1..LastDir,
           loaded \in 1..k, NEW b \in Nat, HeapIs(m, W, k, b)
    PROVE  /\ page >= b => HeapIs(r, W \cup {page}, k, b)
           /\ page >= b /\ f = 0 => HeapIs(r, W \ {page}, k, b)
           /\ page = b /\ f \in 1..(m.next - 1) => HeapIs(r, W, k, b + 1)
<1>1. \A q \in KernelPage : Trans(r, 1, q) = IF q = page THEN f ELSE Trans(m, 1, q)
    <2>1. m.dirs[loaded][page \div N] = m.dirs[1][page \div N]
        BY KernelPages DEF HeapIs
    <2>2. 1 \in Dir
        BY VirtMemAssumption DEF Dir
    <2> QED BY <2>1, <2>2, EntryPages
<1>2. \A d \in 1..k, s \in KernelSlots : r.dirs[d][s] = r.dirs[1][s]
    <2>1. \A d \in 1..k : d \in Dir /\ 1 \in Dir
        BY VirtMemAssumption DEF Dir
    <2>2. \A s \in KernelSlots : s \in Slot
        BY VirtMemAssumption DEF KernelSlots, Slot
    <2>3. \A d \in 1..k, s \in KernelSlots : m.dirs[d][s] = m.dirs[1][s]
        BY DEF HeapIs
    <2> QED BY <2>1, <2>2, <2>3 DEF SetsPage, Sets
<1>3. r.next = m.next
    BY DEF SetsPage, Sets
<1>4. \A p \in KernelPage : /\ p \in Nat /\ (p < b => Trans(m, 1, p) \in 1..(m.next - 1))
                            /\ p >= b /\ p \notin W => Trans(m, 1, p) = 0
    BY KernelPages DEF HeapIs
<1>5. page >= b => HeapIs(r, W \cup {page}, k, b)
    BY <1>1, <1>2, <1>3, <1>4 DEF HeapIs
<1>6. page >= b /\ f = 0 => HeapIs(r, W \ {page}, k, b)
    BY <1>1, <1>2, <1>3, <1>4 DEF HeapIs
<1>7. page = b /\ f \in 1..(m.next - 1) => HeapIs(r, W, k, b + 1)
    <2> SUFFICES ASSUME page = b, f \in 1..(m.next - 1)
                 PROVE  \A p \in KernelPage : /\ p < b + 1 => Trans(r, 1, p) \in 1..(r.next - 1)
                                              /\ p >= b + 1 /\ p \notin W => Trans(r, 1, p) = 0
        BY <1>2 DEF HeapIs
    <2> QED BY <1>1, <1>3, <1>4
<1> QED BY <1>5, <1>6, <1>7

-----------------------------------------------------------------------------
(* Mapping and unmapping                                                   *)

\* SetEntry sets the entry of the page in the table that the loaded directory has.
LEMMA SetEntryIs ==
    ASSUME NEW m, Shape(m), loaded \in Dir, NEW page, page \div N \in Slot, page % N \in Index,
           NEW f \in 0..(m.next - 1), NEW r, r = SetEntry(m, loaded, page, f)
    PROVE  Shape(r) /\ (SetsPage(m, r, page, f) \/ (r = m /\ m.dirs[loaded][page \div N] = 0))
<1> DEFINE t == m.dirs[loaded][page \div N]
<1>1. t \in {0} \cup DOMAIN m.tables
    BY ShapeFacts
<1>2. CASE t = 0
    BY <1>2 DEF SetEntry
<1>3. CASE t # 0
    <2>1. r = [m EXCEPT !.tables[t][page % N] = f]
        BY <1>3 DEF SetEntry
    <2> HIDE DEF t
    <2>2. Shape(r) /\ Sets(m, r, t, {page % N}, f)
        BY <1>1, <1>3, <2>1, EntryIs
    <2> QED BY <1>3, <2>2 DEF SetsPage, t
<1> QED BY <1>2, <1>3

\* What the loaded directory shows when a page of the kernel is set to f.
Shows(m, r, page, f) ==
    /\ \A s \in Slot : m.dirs[loaded][s] # 0 => r.dirs[loaded][s] # 0
    /\ \A q \in KernelPage : Trans(r, loaded, q) = IF q = page THEN f ELSE Trans(m, loaded, q)

\* An entry of the kernel, in the loaded directory
LEMMA SetKernelPage ==
    ASSUME NEW m, NEW tbl, NEW W \in SUBSET KernelPage, Good(m, tbl, W), NEW page \in KernelPage,
           loaded \in Dir, NEW f, NEW r, Shape(r), SetsPage(m, r, page, f)
    PROVE  /\ Good(r, tbl, W \cup {page}) /\ SameUser(m, r, tbl) /\ Shows(m, r, page, f)
           /\ r.next = m.next
<1> DEFINE t == m.dirs[loaded][page \div N]
           V == W \cup {page}
<1>1. /\ page \div N \in Slot /\ page % N \in Index /\ page \div N >= UserSlots
      /\ t # 0 /\ Sets(m, r, t, {page % N}, f)
    BY KernelPages DEF SetsPage
<1>2. ~OfUser(m, tbl, t) /\ t \in DOMAIN m.tables
    BY <1>1, KernelTable
<1>3. V \in SUBSET KernelPage /\ W \subseteq V /\ {page % N} \in SUBSET Index
    BY <1>1
<1>4. \A j \in {page % N} : AtWindow(m, V, t, j)
    BY DEF AtWindow
<1> HIDE DEF V, t
<1>5. Good(r, tbl, V)
    BY <1>1, <1>2, <1>3, <1>4, SetKernelKeeps
<1>6. SameUser(m, r, tbl)
    <2>1. \A u \in DOMAIN m.tables : OfUser(m, tbl, u) => u # t
        BY <1>2
    <2> QED BY <1>1, <2>1 DEF SameUser, Sets
<1>7. Shows(m, r, page, f)
    <2>1. \A s \in Slot : m.dirs[loaded][s] # 0 => r.dirs[loaded][s] # 0
        BY <1>1 DEF Sets
    <2>2. ASSUME NEW q \in KernelPage
          PROVE  Trans(r, loaded, q) = IF q = page THEN f ELSE Trans(m, loaded, q)
        BY EntryPages
    <2> QED BY <2>1, <2>2 DEF Shows
<1>8. r.next = m.next
    BY <1>1 DEF Sets
<1> QED BY <1>5, <1>6, <1>7, <1>8 DEF V

\* It is cleared.
LEMMA ClearKernelPage ==
    ASSUME NEW m, NEW tbl, NEW W \in SUBSET KernelPage, Good(m, tbl, W), NEW page \in KernelPage,
           loaded \in Dir, NEW f, f = 0, NEW r, Shape(r), SetsPage(m, r, page, f)
    PROVE  Good(r, tbl, W \ {page})
<1> DEFINE V == W \cup {page}
<1>1. Good(r, tbl, V)
    BY SetKernelPage
<1>2. page \div N \in Slot /\ page % N \in Index /\ Shape(m)
    BY KernelPages DEF Good
<1>3. r.dirs[loaded][page \div N] = m.dirs[loaded][page \div N]
    BY <1>2 DEF SetsPage, Sets
<1>4. m.dirs[loaded][page \div N] \in DOMAIN m.tables
    BY <1>2, ShapeFacts DEF SetsPage
<1>5. r.tables[r.dirs[loaded][page \div N]][page % N] = 0
    BY <1>2, <1>3, <1>4 DEF SetsPage, Sets
<1> HIDE DEF V
<1>6. Good(r, tbl, V \ {page})
    BY <1>1, <1>5, DropWindow
<1>7. V \ {page} = W \ {page}
    BY DEF V
<1> QED BY <1>6, <1>7

\* The heap, in directories 1..k, when a page behind its end is set to f.
HeapKept(m, r, W, page, f) ==
    \A k \in 1..LastDir, b \in Nat :
        /\ loaded \in 1..k /\ HeapIs(m, W, k, b) /\ page >= b
        /\ m.dirs[loaded][page \div N] = 0 => k = 1
        => HeapIs(r, W \cup {page}, k, b) /\ (page = b /\ f # 0 => HeapIs(r, W, k, b + 1))

\* virt_mm_map_addr, of a page of the kernel
LEMMA MapKernel ==
    ASSUME NEW m, NEW tbl, NEW W \in SUBSET KernelPage, Good(m, tbl, W), NEW page \in KernelPage,
           loaded \in Dir, NEW f \in 0..(m.next - 1), NEW r, r = MapAddr(m, loaded, page, f),
           NewTable(m, loaded, page) = 1 => m.next <= LastFrame
    PROVE  /\ Good(r, tbl, W \cup {page}) /\ SameUser(m, r, tbl) /\ Shows(m, r, page, f)
           /\ r.dirs[loaded][page \div N] # 0
           /\ r.next = m.next + NewTable(m, loaded, page) /\ HeapKept(m, r, W, page, f)
<1> DEFINE s == page \div N
           n == TableFor(m, loaded, s)
<1>1. s \in Slot /\ page % N \in Index /\ s >= UserSlots /\ UserSlots \in Nat /\ s \in Nat
    BY KernelPages, VirtMemAssumption DEF Slot
<1>2. m.dirs[loaded][s] = 0 => m.next <= LastFrame
    BY DEF NewTable
<1>3. Shape(m) /\ m.next \in Nat
    BY ShapeFacts DEF Good
<1> HIDE DEF s
<1>4. /\ Shape(n) /\ n.dirs[loaded][s] # 0
      /\ n.next = m.next + (IF m.dirs[loaded][s] = 0 THEN 1 ELSE 0)
    BY <1>1, <1>2, <1>3, TableForIs
<1>5. r = SetEntry(n, loaded, page, f)
    BY DEF MapAddr, s
<1>6. PICK e : e = n
    OBVIOUS
<1> HIDE DEF n
<1>7. /\ Good(e, tbl, W) /\ SameUser(m, e, tbl)
      /\ \A a \in Dir, q \in Slot : m.dirs[a][q] # 0 => e.dirs[a][q] = m.dirs[a][q]
      /\ \A a \in Dir : \A p : p \div N \in Slot /\ p % N \in Index => Trans(e, a, p) = Trans(m, a, p)
      /\ \A k \in 1..LastDir : \A b : (m.dirs[loaded][s] = 0 => s < UserSlots \/ k = 1)
             /\ HeapIs(m, W, k, b) => HeapIs(e, W, k, b)
    <2>1. e = TableFor(m, loaded, s)
        BY <1>6 DEF n
    <2> HIDE DEF n
    <2>2. ~(s < UserSlots)
        BY <1>1
    <2> QED BY <1>1, <1>2, <2>1, <2>2, TableForKeeps
<1>8. f \in 0..(e.next - 1)
    BY <1>3, <1>4, <1>6
<1>9. Shape(r) /\ SetsPage(e, r, page, f)
    <2>1. r = SetEntry(e, loaded, page, f) /\ Shape(e) /\ e.dirs[loaded][page \div N] # 0
          /\ page \div N \in Slot
        BY <1>1, <1>4, <1>5, <1>6 DEF s
    <2> QED BY <1>1, <1>8, <2>1, SetEntryIs
<1>10. /\ Good(r, tbl, W \cup {page}) /\ SameUser(e, r, tbl) /\ Shows(e, r, page, f)
       /\ r.next = e.next
    <2>1. Good(e, tbl, W)
        BY <1>7
    <2> QED BY <1>9, <2>1, SetKernelPage
<1>11. SameUser(m, r, tbl)
    BY <1>7, <1>10, SameUserAgain
<1>12. Shows(m, r, page, f)
    <2>1. \A q \in KernelPage : Trans(e, loaded, q) = Trans(m, loaded, q)
        BY <1>7, KernelPages
    <2>2. \A q \in Slot : m.dirs[loaded][q] # 0 => e.dirs[loaded][q] # 0
        BY <1>7
    <2> QED BY <1>10, <2>1, <2>2 DEF Shows
<1>13. r.dirs[loaded][page \div N] # 0
    BY <1>1, <1>4, <1>6, <1>10 DEF Shows, s
<1>14. r.next = m.next + NewTable(m, loaded, page)
    BY <1>4, <1>6, <1>10 DEF NewTable, s
<1>15. ASSUME NEW k \in 1..LastDir, NEW b \in Nat, loaded \in 1..k, HeapIs(m, W, k, b), page >= b,
              m.dirs[loaded][page \div N] = 0 => k = 1
       PROVE  HeapIs(r, W \cup {page}, k, b) /\ (page = b /\ f # 0 => HeapIs(r, W, k, b + 1))
    <2>1. HeapIs(e, W, k, b)
        BY <1>7, <1>15 DEF s
    <2>2. f # 0 => f \in 1..(e.next - 1)
        BY <1>8
    <2> QED BY <1>7, <1>9, <1>15, <2>1, <2>2, EntryHeap
<1>16. HeapKept(m, r, W, page, f)
    BY <1>15 DEF HeapKept
<1> QED BY <1>10, <1>11, <1>12, <1>13, <1>14, <1>16

\* virt_mm_addr_unmap, of a page of the kernel
LEMMA UnmapKernel ==
    ASSUME NEW m, NEW tbl, NEW W \in SUBSET KernelPage, Good(m, tbl, W), NEW page \in KernelPage,
           loaded \in Dir, NEW r, r = Unmap(m, page)
    PROVE  /\ Good(r, tbl, W \ {page}) /\ SameUser(m, r, tbl) /\ r.next = m.next
           /\ \A k \in 1..LastDir, b \in Nat :
                  loaded \in 1..k /\ HeapIs(m, W, k, b) /\ page >= b => HeapIs(r, W \ {page}, k, b)
<1>1. page \div N \in Slot /\ page % N \in Index /\ page \div N \in KernelSlots /\ page \in Nat
    BY KernelPages
<1>2. Shape(m) /\ m.next \in Nat /\ m.next >= 1
    BY ShapeFacts DEF Good
<1>3. PICK z \in 0..(m.next - 1) : z = 0
    BY <1>2
<1>4. r = SetEntry(m, loaded, page, z)
    BY <1>3 DEF Unmap
<1>5. Shape(r) /\ (SetsPage(m, r, page, z) \/ (r = m /\ m.dirs[loaded][page \div N] = 0))
    BY <1>1, <1>2, <1>4, SetEntryIs
<1>6. CASE SetsPage(m, r, page, z)
    <2>1. SameUser(m, r, tbl) /\ r.next = m.next
        BY <1>5, <1>6, SetKernelPage
    <2>3. Good(r, tbl, W \ {page})
        BY <1>3, <1>5, <1>6, ClearKernelPage
    <2>2. ASSUME NEW k \in 1..LastDir, NEW b \in Nat, loaded \in 1..k, HeapIs(m, W, k, b), page >= b
          PROVE  HeapIs(r, W \ {page}, k, b)
        BY <1>3, <1>6, <2>2, EntryHeap
    <2> QED BY <2>1, <2>2, <2>3
<1>7. CASE r = m /\ m.dirs[loaded][page \div N] = 0
    <2>1. Good(m, tbl, W \ {page})
        <3>1. m.dirs[loaded][page \div N] \notin DOMAIN m.tables
            BY <1>2, <1>7, ShapeFacts
        <3> QED BY <3>1, DropWindow
    <2>2. SameUser(m, m, tbl)
        BY DEF SameUser
    <2>3. ASSUME NEW k \in 1..LastDir, NEW b \in Nat, loaded \in 1..k, HeapIs(m, W, k, b), page >= b
          PROVE  HeapIs(m, W \ {page}, k, b)
        <3>1. m.dirs[1][page \div N] = 0
            BY <1>1, <1>7, <2>3 DEF HeapIs
        <3>2. Trans(m, 1, page) = 0
            BY <3>1 DEF Trans
        <3> QED BY <2>3, <3>2 DEF HeapIs
    <2> QED BY <1>7, <2>1, <2>2, <2>3
<1> QED BY <1>5, <1>6, <1>7

\* r shows f at a page of the loaded directory's program, and all else as m.
ShowsUser(m, r, page, f) ==
    \A d \in Dir, p \in UserPage :
        Trans(r, d, p) = IF d = loaded /\ p = page THEN f ELSE Trans(m, d, p)

\* A program's page is set in the loaded directory, and no other page with it.
LEMMA SetUserPage ==
    ASSUME NEW m, NEW tbl, NEW W \in SUBSET KernelPage, Good(m, tbl, W), NEW page \in UserPage,
           loaded \in Dir, NEW f, f = 0 \/ Fresh(m, f), NEW r, Shape(r), SetsPage(m, r, page, f)
    PROVE  /\ Good(r, tbl, W) /\ ShowsUser(m, r, page, f)
           /\ \A k \in 1..LastDir, b \in Nat : HeapIs(m, W, k, b) => HeapIs(r, W, k, b)
<1> DEFINE t == m.dirs[loaded][page \div N]
<1>1. /\ page \div N \in Slot /\ page % N \in Index /\ page \div N < UserSlots /\ page \in Nat
      /\ t # 0 /\ Sets(m, r, t, {page % N}, f) /\ Shape(m)
    BY UserPages DEF SetsPage, Good
<1>2. t \in DOMAIN m.tables
    BY <1>1, ShapeFacts
<1>3. ASSUME NEW d \in Dir, NEW s \in Slot, m.dirs[d][s] = t
      PROVE  s = page \div N /\ d = loaded
    BY <1>1, <1>3 DEF Good, Exclusive
<1> HIDE DEF t
<1>4. Good(r, tbl, W)
    BY <1>1, <1>2, SetUserKeeps
<1>5. ShowsUser(m, r, page, f)
    <2> SUFFICES ASSUME NEW d \in Dir, NEW p \in UserPage
                 PROVE  Trans(r, d, p) = IF d = loaded /\ p = page THEN f ELSE Trans(m, d, p)
        BY DEF ShowsUser
    <2>1. p \in Nat /\ p \div N \in Slot /\ p % N \in Index
        BY UserPages
    <2>2. Trans(r, d, p) = IF m.dirs[d][p \div N] = t /\ p % N \in {page % N} THEN f ELSE Trans(m, d, p)
        BY <1>1, <1>2, <2>1, SetPages
    <2>3. m.dirs[d][p \div N] = t /\ p % N = page % N => d = loaded /\ p = page
        BY <1>1, <1>3, <2>1, SamePage
    <2>4. m.dirs[loaded][page \div N] = t
        BY DEF t
    <2> QED BY <2>2, <2>3, <2>4
<1>6. ASSUME NEW k \in 1..LastDir, NEW b \in Nat, HeapIs(m, W, k, b) PROVE HeapIs(r, W, k, b)
    <2>1. /\ \A s \in KernelSlots : s \in Slot /\ ~(s < UserSlots)
          /\ 1 \in Dir /\ \A d \in 1..k : d \in Dir
        BY VirtMemAssumption DEF KernelSlots, Slot, Dir
    <2>2. ASSUME NEW p \in KernelPage PROVE Trans(r, 1, p) = Trans(m, 1, p)
        <3>1. p \div N \in Slot /\ p % N \in Index /\ p \div N \in KernelSlots
            BY KernelPages
        <3>2. m.dirs[1][p \div N] # t
            BY <1>1, <1>3, <2>1, <3>1
        <3>3. PICK d \in Dir : d = 1
            BY <2>1
        <3>4. Trans(r, d, p) = IF m.dirs[d][p \div N] = t /\ p % N \in {page % N} THEN f ELSE Trans(m, d, p)
            BY <1>1, <1>2, <3>1, SetPages
        <3> QED BY <3>2, <3>3, <3>4
    <2>3. \A d \in 1..k, s \in KernelSlots : r.dirs[d][s] = r.dirs[1][s]
        <3>1. \A d \in 1..k, s \in KernelSlots : m.dirs[d][s] = m.dirs[1][s]
            BY <1>6 DEF HeapIs
        <3> QED BY <1>1, <2>1, <3>1 DEF Sets
    <2>4. r.next = m.next
        BY <1>1 DEF Sets
    <2> QED BY <1>6, <2>2, <2>3, <2>4 DEF HeapIs
<1> QED BY <1>4, <1>5, <1>6

\* virt_mm_map_addr, of a page of a program
LEMMA MapProgram ==
    ASSUME NEW m, NEW tbl, NEW W \in SUBSET KernelPage, Good(m, tbl, W), NEW page \in UserPage,
           loaded \in Dir, NEW f, Fresh(m, f), NEW r, r = MapAddr(m, loaded, page, f),
           NewTable(m, loaded, page) = 1 => m.next <= LastFrame
    PROVE  /\ Good(r, tbl, W) /\ ShowsUser(m, r, page, f)
           /\ \A k \in 1..LastDir, b \in Nat : HeapIs(m, W, k, b) => HeapIs(r, W, k, b)
<1> DEFINE s == page \div N
<1>1. s \in Slot /\ page % N \in Index /\ s < UserSlots /\ page \in Nat
    BY UserPages
<1>2. m.dirs[loaded][s] = 0 => m.next <= LastFrame
    BY DEF NewTable
<1>3. Shape(m) /\ m.next \in Nat
    BY ShapeFacts DEF Good
<1> HIDE DEF s
<1>4. PICK e : e = TableFor(m, loaded, s)
    OBVIOUS
<1>5. /\ Shape(e) /\ e.dirs[loaded][s] # 0
      /\ e.next = m.next + (IF m.dirs[loaded][s] = 0 THEN 1 ELSE 0)
    BY <1>1, <1>2, <1>3, <1>4, TableForIs
<1>6. /\ Good(e, tbl, W)
      /\ \A a \in Dir : \A p : p \div N \in Slot /\ p % N \in Index => Trans(e, a, p) = Trans(m, a, p)
      /\ Fresh(m, f) => Fresh(e, f)
      /\ \A k \in 1..LastDir : \A b : HeapIs(m, W, k, b) => HeapIs(e, W, k, b)
    BY <1>1, <1>2, <1>4, TableForKeeps
<1>7. r = SetEntry(e, loaded, page, f)
    BY <1>4 DEF MapAddr, s
<1>8. f \in 0..(e.next - 1)
    BY <1>3, <1>5 DEF Fresh
<1>9. Shape(r) /\ SetsPage(e, r, page, f)
    <2>1. page \div N \in Slot /\ e.dirs[loaded][page \div N] # 0
        BY <1>1, <1>5 DEF s
    <2> QED BY <1>1, <1>5, <1>7, <1>8, <2>1, SetEntryIs
<1>10. /\ Good(r, tbl, W) /\ ShowsUser(e, r, page, f)
       /\ \A k \in 1..LastDir, b \in Nat : HeapIs(e, W, k, b) => HeapIs(r, W, k, b)
    <2>1. Good(e, tbl, W) /\ (f = 0 \/ Fresh(e, f))
        BY <1>6
    <2> QED BY <1>9, <2>1, SetUserPage
<1>11. ShowsUser(m, r, page, f)
    <2>1. \A a \in Dir, p \in UserPage : Trans(e, a, p) = Trans(m, a, p)
        BY <1>6, UserPages
    <2> QED BY <1>10, <2>1 DEF ShowsUser
<1> QED BY <1>6, <1>10, <1>11

\* virt_mm_addr_unmap, of a page of a program
LEMMA UnmapProgram ==
    ASSUME NEW m, NEW tbl, NEW W \in SUBSET KernelPage, Good(m, tbl, W), NEW page \in UserPage,
           loaded \in Dir, NEW r, r = Unmap(m, page)
    PROVE  /\ Good(r, tbl, W) /\ ShowsUser(m, r, page, 0)
           /\ \A k \in 1..LastDir, b \in Nat : HeapIs(m, W, k, b) => HeapIs(r, W, k, b)
<1>1. page \div N \in Slot /\ page % N \in Index
    BY UserPages
<1>2. Shape(m) /\ m.next \in Nat /\ m.next >= 1
    BY ShapeFacts DEF Good
<1>3. PICK z \in 0..(m.next - 1) : z = 0
    BY <1>2
<1>4. r = SetEntry(m, loaded, page, z)
    BY <1>3 DEF Unmap
<1>5. Shape(r) /\ (SetsPage(m, r, page, z) \/ (r = m /\ m.dirs[loaded][page \div N] = 0))
    BY <1>1, <1>2, <1>4, SetEntryIs
<1>6. CASE SetsPage(m, r, page, z)
    <2>1. /\ Good(r, tbl, W) /\ ShowsUser(m, r, page, z)
          /\ \A k \in 1..LastDir, b \in Nat : HeapIs(m, W, k, b) => HeapIs(r, W, k, b)
        BY <1>3, <1>5, <1>6, SetUserPage
    <2> QED BY <1>3, <2>1
<1>7. CASE r = m /\ m.dirs[loaded][page \div N] = 0
    <2>1. Trans(m, loaded, page) = 0
        BY <1>7 DEF Trans
    <2> QED BY <1>7, <2>1 DEF ShowsUser
<1> QED BY <1>5, <1>6, <1>7

-----------------------------------------------------------------------------
(* The steps                                                               *)

\* What the invariant says of the constants and of the state, for the steps below.
LEMMA InvFacts ==
    ASSUME IInv
    PROVE  /\ Good(mem, fork.tbl, Windows) /\ Windows \in SUBSET KernelPage
           /\ loaded \in Dir /\ 1 \in Dir /\ loaded \in 1..created /\ created \in 1..LastDir
           /\ brk \in Nat /\ brk <= Slots * N /\ UserSlots * N <= brk
           /\ Slots * N \in Nat /\ UserSlots * N \in Nat
           /\ mem.next \in Nat /\ Shape(mem)
           /\ fork = NoFork => fork.tbl = 0 /\ Windows = {} /\ Born = created
<1>1. N \in Nat /\ UserSlots \in Nat /\ Slots \in Nat /\ LastDir \in Nat \ {0}
    BY VirtMemAssumption
<1>2. Slots * N \in Nat /\ UserSlots * N \in Nat
    BY <1>1
<1>3. /\ brk \in UserSlots * N..Slots * N /\ created \in Dir /\ loaded \in 1..created
      /\ Shape(mem) /\ Exclusive(mem, fork.tbl) /\ Private(mem, fork.tbl, Windows)
    BY DEF IInv, RestInv, TablesInv
<1>4. /\ brk \in Nat /\ brk <= Slots * N /\ UserSlots * N <= brk
    BY <1>2, <1>3
<1>5. loaded \in Dir /\ 1 \in Dir /\ created \in 1..LastDir
    BY <1>1, <1>3 DEF Dir
<1>6. fork = NoFork => fork.tbl = 0 /\ Windows = {} /\ Born = created
    BY DEF NoFork, Windows, Born
<1>7. Windows \in SUBSET KernelPage
    <2>1. CASE fork = NoFork
        BY <1>6, <2>1
    <2>2. CASE fork # NoFork /\ fork.tbl # 0
        <3>1. fork.window \in brk..(fork.at - 1) /\ fork.at \in brk..(Slots * N)
            BY <2>2 DEF IInv, ForkInv
        <3>2. fork.window \in KernelPage
            BY <1>2, <1>4, <3>1 DEF KernelPage
        <3> QED BY <3>2 DEF Windows
    <2>3. CASE fork.tbl = 0
        BY <2>3 DEF Windows
    <2> QED BY <2>1, <2>2, <2>3
<1>8. mem.next \in Nat
    BY <1>3, ShapeFacts
<1> QED BY <1>2, <1>3, <1>4, <1>5, <1>6, <1>7, <1>8 DEF Good

\* Where the windows are depends on the directory that is loaded.
LEMMA TablesNext ==
    ASSUME loaded' = loaded \/ Windows' = {}, Good(mem', fork'.tbl, Windows')
    PROVE  TablesInv'
<1>1. Shape(mem') /\ Exclusive(mem', fork'.tbl) /\ Private(mem', fork'.tbl, Windows')
    BY DEF Good
<1>2. Shape(mem)' /\ Exclusive(mem, fork.tbl)'
    BY <1>1 DEF Shape, Exclusive
<1>3. ASSUME NEW u, NEW j, AtWindow(mem', Windows', u, j)
      PROVE  \E p \in Windows' : u = mem'.dirs[loaded'][p \div N] /\ j = p % N
    BY <1>3 DEF AtWindow
<1>4. \A t \in DOMAIN mem'.tables, i \in Index :
          LET frame == mem'.tables[t][i]
          IN  OfUser(mem', fork'.tbl, t) /\ frame # 0 =>
                  /\ frame < mem'.next /\ frame \notin DOMAIN mem'.tables
                  /\ \A u \in DOMAIN mem'.tables, j \in Index :
                         mem'.tables[u][j] = frame => (u = t /\ j = i)
                             \/ \E p \in Windows' : u = mem'.dirs[loaded'][p \div N] /\ j = p % N
    <2> SUFFICES ASSUME NEW t \in DOMAIN mem'.tables, NEW i \in Index,
                        OfUser(mem', fork'.tbl, t), mem'.tables[t][i] # 0
                 PROVE  /\ mem'.tables[t][i] < mem'.next /\ mem'.tables[t][i] \notin DOMAIN mem'.tables
                        /\ \A u \in DOMAIN mem'.tables, j \in Index :
                               mem'.tables[u][j] = mem'.tables[t][i] => (u = t /\ j = i)
                                   \/ \E p \in Windows' : u = mem'.dirs[loaded'][p \div N] /\ j = p % N
        BY Zenon
    <2>1. PrivateEntry(mem', fork'.tbl, Windows', mem'.tables[t][i], t, i)
        BY <1>1, ByEntry
    <2>2. ASSUME NEW u \in DOMAIN mem'.tables, NEW j \in Index, mem'.tables[u][j] = mem'.tables[t][i]
          PROVE  (u = t /\ j = i)
                     \/ \E p \in Windows' : u = mem'.dirs[loaded'][p \div N] /\ j = p % N
        <3>1. (u = t /\ j = i) \/ AtWindow(mem', Windows', u, j)
            BY <2>1, <2>2 DEF PrivateEntry
        <3> QED BY <1>3, <3>1
    <2> QED BY <2>1, <2>2 DEF PrivateEntry
<1>5. Private(mem, fork.tbl, Windows)'
    BY <1>4, Zenon DEF Private, OfUser, AtWindow
<1> QED BY <1>2, <1>5 DEF TablesInv

\* The heap behind a step
LEMMA HeapNext ==
    ASSUME ~crossed' => HeapIs(mem', Windows', Born', brk'), halted' => crossed'
    PROVE  HeapInv'
  BY DEF HeapInv

\* What a process is to find behind the step.
FindsNext(x, d, p) ==
    IF expected'[d][p] = Absent THEN x = 0 ELSE x # 0 /\ content'[x] = expected'[d][p]

\* The same for all processes
LEMMA KeptNext ==
    ASSUME \A d \in 1..created', p \in UserPage : FindsNext(Trans(mem', d, p), d, p)
    PROVE  KeptInv'
<1> SUFFICES ASSUME NEW d \in 1..created', NEW p \in UserPage
             PROVE  Finds(Trans(mem, d, p), d, p)'
    BY DEF KeptInv
<1>1. FindsNext(Trans(mem', d, p), d, p)
    OBVIOUS
<1> QED BY <1>1 DEF FindsNext, Finds

\* The invariant holds behind virt_mm_init.
LEMMA InitIInv == Init => IInv
<1> SUFFICES ASSUME Init PROVE IInv
    OBVIOUS
<1>1. /\ N \in Nat \ {0} /\ UserSlots \in Nat /\ Slots \in Nat /\ UserSlots < Slots
      /\ LastDir \in Nat \ {0} /\ LastFrame \in Nat /\ 0 \in Value
    BY VirtMemAssumption
<1>2. /\ mem.dirs = [d \in Dir |-> [slot \in Slot |-> 0]] /\ mem.tables = [t \in {} |-> 0]
      /\ mem.next = 1 /\ mem = [dirs |-> mem.dirs, tables |-> mem.tables, next |-> mem.next]
    BY DEF Init, Slot
<1>3. DOMAIN mem.tables = {}
    BY <1>2
<1>4. \A d \in Dir, s \in Slot : mem.dirs[d][s] = 0
    BY <1>2
<1>5. Shape(mem)
    <2>1. mem.dirs \in [Dir -> [Slot -> Nat]]
        BY <1>2
    <2>2. mem.tables \in [DOMAIN mem.tables -> [Index -> 0..(mem.next - 1) \cup {Junk}]]
        BY <1>2, <1>3
    <2> QED BY <1>1, <1>2, <1>3, <1>4, <2>1, <2>2 DEF Shape
<1>6. fork = NoFork /\ fork.tbl = 0 /\ Windows = {} /\ Born = 1 /\ created = 1 /\ loaded = 1
    BY DEF Init, NoFork, Windows, Born
<1>7. TablesInv
    BY <1>3, <1>4, <1>5, <1>6 DEF TablesInv, Exclusive, Private
<1>8. brk = UserSlots * N /\ UserSlots * N \in Nat /\ Slots * N \in Nat /\ UserSlots * N <= Slots * N
    BY <1>1, TimesMonotone DEF Init
<1>9. HeapInv
    <2>1. 1 \in Dir
        BY <1>1 DEF Dir
    <2>2. \A p \in KernelPage : p \div N \in Slot /\ p >= brk
        BY <1>8, KernelPages DEF KernelPage
    <2>3. \A p \in KernelPage : Trans(mem, 1, p) = 0
        BY <1>4, <2>1, <2>2 DEF Trans
    <2>4. \A p \in KernelPage : ~(p < brk)
        BY <1>8, <2>2, KernelPages
    <2>5. \A d \in 1..1, s \in KernelSlots : mem.dirs[d][s] = mem.dirs[1][s]
        OBVIOUS
    <2>6. HeapIs(mem, {}, 1, brk)
        BY <2>3, <2>4, <2>5 DEF HeapIs
    <2> QED BY <1>6, <2>6 DEF HeapInv, Init
<1>10. KeptInv
    <2> SUFFICES ASSUME NEW d \in 1..created, NEW p \in UserPage
                 PROVE  Finds(Trans(mem, d, p), d, p)
        BY DEF KeptInv
    <2>1. d \in Dir /\ p \div N \in Slot
        BY <1>1, <1>6, UserPages DEF Dir
    <2>2. Trans(mem, d, p) = 0 /\ expected[d][p] = Absent
        BY <1>4, <2>1 DEF Trans, Init
    <2> QED BY <2>2 DEF Finds
<1>11. ForkInv
    BY <1>6 DEF ForkInv
<1>12. RestInv
    <2>1. content \in [Frame -> Value] /\ expected \in [Dir -> [UserPage -> Value \cup {Absent}]]
        BY <1>1 DEF Init
    <2>2. brk \in UserSlots * N..Slots * N
        BY <1>8
    <2>3. created \in Dir /\ loaded \in 1..created
        BY <1>1, <1>6 DEF Dir
    <2>4. crossed \in BOOLEAN /\ halted \in BOOLEAN
        BY DEF Init
    <2> QED BY <2>1, <2>2, <2>3, <2>4 DEF RestInv
<1> QED BY <1>7, <1>9, <1>10, <1>11, <1>12 DEF IInv

\* What is the same where no fork is under way and none begins.
LEMMA NoForkKeeps ==
    ASSUME IInv, fork = NoFork, fork' = fork
    PROVE  /\ ForkInv' /\ fork'.tbl = 0 /\ Windows' = {} /\ Born' = created'
           /\ Good(mem, 0, {}) /\ (~crossed => HeapIs(mem, {}, created, brk))
<1>1. fork.tbl = 0 /\ Windows = {} /\ Born = created
    BY InvFacts
<1>2. Windows' = {} /\ fork'.tbl = 0 /\ Born' = created'
    BY <1>1 DEF Windows, Born
<1>3. ForkInv'
    BY DEF ForkInv
<1>4. Good(mem, 0, {})
    BY <1>1, InvFacts
<1>5. ~crossed => HeapIs(mem, {}, created, brk)
    BY <1>1 DEF IInv, HeapInv
<1> QED BY <1>2, <1>3, <1>4, <1>5

\* A frame that is taken changes no page.
LEMMA TookPages ==
    ASSUME NEW m, Shape(m), m.next <= LastFrame
    PROVE  /\ \A d, p : Trans(Took(m), d, p) = Trans(m, d, p)
           /\ \A d, p : NewTable(Took(m), d, p) = NewTable(m, d, p)
           /\ \A W, k, b : HeapIs(m, W, k, b) => HeapIs(Took(m), W, k, b)
<1> DEFINE r == Took(m)
<1>1. r.next = m.next + 1 /\ r.dirs = m.dirs /\ r.tables = m.tables
    BY TookIs
<1>2. m.next \in Nat
    BY ShapeFacts
<1> HIDE DEF r
<1>3. \A d, p : Trans(r, d, p) = Trans(m, d, p)
    BY <1>1 DEF Trans
<1>4. \A d, p : NewTable(r, d, p) = NewTable(m, d, p)
    BY <1>1 DEF NewTable
<1>5. ASSUME NEW W, NEW k, NEW b, HeapIs(m, W, k, b) PROVE HeapIs(r, W, k, b)
    <2>1. 1..(m.next - 1) \subseteq 1..(r.next - 1)
        BY <1>1, <1>2
    <2> QED BY <1>1, <1>3, <1>5, <2>1 DEF HeapIs
<1> QED BY <1>3, <1>4, <1>5 DEF r

\* A program's map or brk: the frame is nobody else's, its contents are found.
LEMMA MapUserKeeps ==
    ASSUME IInv, NEW page \in UserPage, MapUser(page)
    PROVE  IInv'
<1> DEFINE f == mem.next
           m == Took(mem)
<1>1. /\ fork = NoFork /\ fork' = fork /\ loaded' = loaded /\ created' = created /\ brk' = brk
      /\ content' = content /\ crossed' = crossed /\ halted' = halted
      /\ mem' = MapAddr(m, loaded, page, f)
      /\ expected' = [expected EXCEPT ![loaded][page] = content[f]]
      /\ mem.next + NewTable(mem, loaded, page) <= LastFrame
    BY DEF MapUser, Runs
<1>2. /\ ForkInv' /\ fork'.tbl = 0 /\ Windows' = {} /\ Born' = created'
      /\ Good(mem, 0, {}) /\ (~crossed => HeapIs(mem, {}, created, brk))
    BY <1>1, NoForkKeeps
<1>3. /\ loaded \in Dir /\ loaded \in 1..created /\ created \in 1..LastDir /\ brk \in Nat
      /\ mem.next \in Nat /\ Shape(mem) /\ LastFrame \in Nat /\ LastDir \in Nat
    BY InvFacts, VirtMemAssumption
<1>4. f <= LastFrame /\ (NewTable(mem, loaded, page) = 1 => f + 1 <= LastFrame)
    BY <1>1, <1>3 DEF NewTable
<1>5. /\ Shape(m) /\ m.next = mem.next + 1 /\ Good(m, 0, {}) /\ Fresh(m, f)
      /\ \A d, p : Trans(m, d, p) = Trans(mem, d, p)
      /\ NewTable(m, loaded, page) = NewTable(mem, loaded, page)
      /\ \A W, k, b : HeapIs(mem, W, k, b) => HeapIs(m, W, k, b)
    BY <1>2, <1>3, <1>4, TookIs, TookKeeps, TookPages
<1> HIDE DEF m
<1>6. /\ Good(mem', 0, {}) /\ ShowsUser(m, mem', page, f)
      /\ \A k \in 1..LastDir, b \in Nat : HeapIs(m, {}, k, b) => HeapIs(mem', {}, k, b)
    <2>1. {} \in SUBSET KernelPage /\ (NewTable(m, loaded, page) = 1 => m.next <= LastFrame)
        BY <1>4, <1>5
    <2> HIDE DEF f
    <2> QED BY <1>1, <1>3, <1>5, <2>1, MapProgram
<1>7. TablesInv'
    BY <1>1, <1>2, <1>6, TablesNext
<1>8. HeapInv'
    <2>1. ~crossed => HeapIs(mem', {}, created, brk)
        BY <1>2, <1>3, <1>5, <1>6
    <2>2. halted => crossed
        BY DEF IInv, HeapInv
    <2> QED BY <1>1, <1>2, <2>1, <2>2, HeapNext
<1>9. KeptInv'
    <2> SUFFICES ASSUME NEW d \in 1..created, NEW p \in UserPage
                 PROVE  FindsNext(Trans(mem', d, p), d, p)
        BY <1>1, KeptNext
    <2>1. d \in Dir
        BY <1>3 DEF Dir
    <2>2. Trans(mem', d, p) = IF d = loaded /\ p = page THEN f ELSE Trans(mem, d, p)
        BY <1>5, <1>6, <2>1 DEF ShowsUser
    <2>3. expected'[d][p] = IF d = loaded /\ p = page THEN content[f] ELSE expected[d][p]
        BY <1>1, <1>3, <2>1 DEF IInv, RestInv
    <2>4. f \in Frame /\ f # 0 /\ content[f] # Absent
        <3>1. f \in Frame
            BY <1>3, <1>4, ShapeFacts DEF Frame
        <3>2. content[f] \in Value /\ Value \subseteq Nat
            BY <3>1, VirtMemAssumption DEF IInv, RestInv
        <3> QED BY <3>1, <3>2 DEF Absent, Frame
    <2>5. Finds(Trans(mem, d, p), d, p)
        BY DEF IInv, KeptInv
    <2> HIDE DEF f
    <2> QED BY <1>1, <2>2, <2>3, <2>4, <2>5 DEF Finds, FindsNext
<1>10. RestInv'
    <2>1. f \in Frame
        BY <1>3, <1>4, ShapeFacts DEF Frame
    <2>2. content[f] \in Value
        BY <2>1 DEF IInv, RestInv
    <2>3. expected' \in [Dir -> [UserPage -> Value \cup {Absent}]]
        BY <1>1, <2>2 DEF IInv, RestInv
    <2> QED BY <1>1, <2>3 DEF IInv, RestInv
<1> QED BY <1>2, <1>7, <1>8, <1>9, <1>10 DEF IInv

\* munmap, and what a program's exec drops
LEMMA UnmapUserKeeps ==
    ASSUME IInv, NEW page \in UserPage, UnmapUser(page)
    PROVE  IInv'
<1>1. /\ fork = NoFork /\ fork' = fork /\ loaded' = loaded /\ created' = created /\ brk' = brk
      /\ content' = content /\ crossed' = crossed /\ halted' = halted
      /\ mem' = Unmap(mem, page)
      /\ expected' = [expected EXCEPT ![loaded][page] = Absent]
    BY DEF UnmapUser, Runs
<1>2. /\ ForkInv' /\ fork'.tbl = 0 /\ Windows' = {} /\ Born' = created'
      /\ Good(mem, 0, {}) /\ (~crossed => HeapIs(mem, {}, created, brk))
    BY <1>1, NoForkKeeps
<1>3. loaded \in Dir /\ created \in 1..LastDir /\ brk \in Nat /\ LastDir \in Nat
    BY InvFacts, VirtMemAssumption
<1>4. /\ Good(mem', 0, {}) /\ ShowsUser(mem, mem', page, 0)
      /\ \A k \in 1..LastDir, b \in Nat : HeapIs(mem, {}, k, b) => HeapIs(mem', {}, k, b)
    <2>1. {} \in SUBSET KernelPage
        OBVIOUS
    <2> QED BY <1>1, <1>2, <1>3, <2>1, UnmapProgram
<1>5. TablesInv'
    BY <1>1, <1>2, <1>4, TablesNext
<1>6. HeapInv'
    <2>1. ~crossed => HeapIs(mem', {}, created, brk)
        BY <1>2, <1>3, <1>4
    <2>2. halted => crossed
        BY DEF IInv, HeapInv
    <2> QED BY <1>1, <1>2, <2>1, <2>2, HeapNext
<1>7. KeptInv'
    <2> SUFFICES ASSUME NEW d \in 1..created, NEW p \in UserPage
                 PROVE  FindsNext(Trans(mem', d, p), d, p)
        BY <1>1, KeptNext
    <2>1. d \in Dir
        BY <1>3 DEF Dir
    <2>2. Trans(mem', d, p) = IF d = loaded /\ p = page THEN 0 ELSE Trans(mem, d, p)
        BY <1>4, <2>1 DEF ShowsUser
    <2>3. expected'[d][p] = IF d = loaded /\ p = page THEN Absent ELSE expected[d][p]
        BY <1>1, <1>3, <2>1 DEF IInv, RestInv
    <2>4. Finds(Trans(mem, d, p), d, p)
        BY DEF IInv, KeptInv
    <2> QED BY <1>1, <2>2, <2>3, <2>4 DEF Finds, FindsNext
<1>8. RestInv'
    <2>1. expected' \in [Dir -> [UserPage -> Value \cup {Absent}]]
        BY <1>1 DEF IInv, RestInv
    <2> QED BY <1>1, <2>1 DEF IInv, RestInv
<1> QED BY <1>2, <1>5, <1>6, <1>7, <1>8 DEF IInv

\* Two pages of programs are in different frames, which are no tables.
LEMMA Apart ==
    ASSUME NEW m, NEW tbl, NEW W \in SUBSET KernelPage, Good(m, tbl, W), loaded \in Dir,
           NEW d \in Dir, NEW p \in UserPage, Trans(m, d, p) # 0
    PROVE  /\ Trans(m, d, p) \in Frame /\ Trans(m, d, p) < m.next
           /\ Trans(m, d, p) \notin DOMAIN m.tables
           /\ \A e \in Dir, q \in UserPage : Trans(m, e, q) = Trans(m, d, p) => e = d /\ q = p
           /\ W = {} => \A e \in Dir, q \in KernelPage : Trans(m, e, q) # Trans(m, d, p)
<1> DEFINE t == m.dirs[d][p \div N]
           x == Trans(m, d, p)
<1>1. p \in Nat /\ p \div N \in Slot /\ p % N \in Index /\ p \div N < UserSlots
    BY UserPages
<1>2. Shape(m) /\ LastFrame \in Nat /\ Slots \in Nat /\ UserSlots \in Nat
    BY VirtMemAssumption DEF Good
<1>3. t # 0 /\ t \in DOMAIN m.tables /\ x = m.tables[t][p % N]
    BY <1>1, <1>2, ShapeFacts DEF Trans
<1>4. OfUser(m, tbl, t)
    BY <1>1, <1>3 DEF OfUser
<1>5. PrivateEntry(m, tbl, W, x, t, p % N)
    BY <1>1, <1>3, <1>4, ByEntry DEF Good
<1> HIDE DEF t, x
<1>6. x \in Nat /\ x < m.next /\ x \notin DOMAIN m.tables /\ m.next <= Junk /\ m.next \in Nat
      /\ x # 0
    <2>1. m.tables[t][p % N] \in Nat /\ m.next <= Junk /\ m.next \in Nat
        BY <1>1, <1>2, <1>3, ShapeFacts
    <2>2. x < m.next /\ x \notin DOMAIN m.tables
        BY <1>5 DEF PrivateEntry
    <2> QED BY <1>3, <2>1, <2>2 DEF x
<1>7. x \in Frame
    BY <1>2, <1>6 DEF Frame, Junk
<1>8. ASSUME NEW e \in Dir, NEW q, q \in Nat, q \div N \in Slot, q % N \in Index, Trans(m, e, q) = x
      PROVE  (e = d /\ q = p) \/ (q \div N >= UserSlots /\ W # {})
    <2> DEFINE u == m.dirs[e][q \div N]
    <2>1. u # 0 /\ u \in DOMAIN m.tables /\ x = m.tables[u][q % N]
        <3>1. u \in {0} \cup DOMAIN m.tables
            BY <1>2, <1>8, ShapeFacts
        <3>2. x = IF u = 0 THEN 0 ELSE m.tables[u][q % N]
            BY <1>8 DEF Trans
        <3> QED BY <1>6, <3>1, <3>2
    <2> HIDE DEF u
    <2>2. (u = t /\ q % N = p % N) \/ AtWindow(m, W, u, q % N)
        BY <1>5, <1>8, <2>1 DEF PrivateEntry
    <2>3. CASE u = t /\ q % N = p % N
        <3>1. q \div N = p \div N /\ e = d
            BY <1>1, <1>3, <1>8, <2>3 DEF Good, Exclusive, t, u
        <3> QED BY <1>1, <1>8, <2>3, <3>1, SamePage
    <2>4. CASE AtWindow(m, W, u, q % N)
        <3>1. PICK w \in W : u = m.dirs[loaded][w \div N]
            BY <2>4 DEF AtWindow
        <3>2. w \div N \in Slot /\ w \div N >= UserSlots
            BY <3>1, KernelPages
        <3>3. q \div N = w \div N
            BY <1>8, <2>1, <3>1, <3>2 DEF Good, Exclusive, u
        <3> QED BY <3>1, <3>2, <3>3
    <2> QED BY <2>2, <2>3, <2>4
<1>9. \A e \in Dir, q \in UserPage : Trans(m, e, q) = x => e = d /\ q = p
    <2> TAKE e \in Dir, q \in UserPage
    <2>1. q \in Nat /\ q \div N \in Slot /\ q % N \in Index /\ q \div N < UserSlots
        BY UserPages
    <2>2. ~(q \div N >= UserSlots)
        BY <1>2, <2>1 DEF Slot
    <2> QED BY <1>8, <2>1, <2>2
<1>10. ASSUME W = {}, NEW e \in Dir, NEW q \in KernelPage PROVE Trans(m, e, q) # x
    <2>1. q \in Nat /\ q \div N \in Slot /\ q % N \in Index /\ q \div N >= UserSlots
        BY KernelPages
    <2>2. q # p
        BY <1>1, <1>2, <2>1 DEF Slot
    <2> QED BY <1>8, <1>10, <2>1, <2>2
<1> QED BY <1>6, <1>7, <1>9, <1>10 DEF x

\* A program writes to its page, and no other program finds it.
LEMMA WriteUserKeeps ==
    ASSUME IInv, NEW page \in UserPage, NEW v \in Value, WriteUser(page, v)
    PROVE  IInv'
<1> DEFINE x == Trans(mem, loaded, page)
<1>1. /\ fork = NoFork /\ fork' = fork /\ loaded' = loaded /\ created' = created /\ brk' = brk
      /\ crossed' = crossed /\ halted' = halted /\ mem' = mem
      /\ expected' = [expected EXCEPT ![loaded][page] = v]
      /\ content' = [content EXCEPT ![x] = v] /\ x \in Frame
    BY DEF WriteUser, Runs
<1>2. /\ ForkInv' /\ fork'.tbl = 0 /\ Windows' = {} /\ Born' = created'
      /\ Good(mem, 0, {}) /\ (~crossed => HeapIs(mem, {}, created, brk))
    BY <1>1, NoForkKeeps
<1>3. loaded \in Dir /\ created \in 1..LastDir /\ LastDir \in Nat
    BY InvFacts, VirtMemAssumption
<1>4. TablesInv'
    BY <1>1, <1>2, TablesNext
<1>5. HeapInv'
    <2>1. halted => crossed
        BY DEF IInv, HeapInv
    <2> QED BY <1>1, <1>2, <2>1, HeapNext
<1>6. KeptInv'
    <2> SUFFICES ASSUME NEW d \in 1..created, NEW p \in UserPage
                 PROVE  FindsNext(Trans(mem, d, p), d, p)
        BY <1>1, KeptNext
    <2>1. d \in Dir
        BY <1>3 DEF Dir
    <2>2. expected'[d][p] = IF d = loaded /\ p = page THEN v ELSE expected[d][p]
        BY <1>1, <1>3, <2>1 DEF IInv, RestInv
    <2>3. v # Absent /\ x # 0
        BY <1>1, VirtMemAssumption DEF Absent, Frame
    <2>4. Finds(Trans(mem, d, p), d, p)
        BY DEF IInv, KeptInv
    <2>5. content \in [Frame -> Value]
        BY DEF IInv, RestInv
    <2>6. CASE d = loaded /\ p = page
        BY <1>1, <2>2, <2>3, <2>5, <2>6 DEF FindsNext
    <2>7. CASE ~(d = loaded /\ p = page)
        <3>1. Trans(mem, d, p) # x \/ Trans(mem, d, p) = 0
            <4>1. {} \in SUBSET KernelPage
                OBVIOUS
            <4> QED BY <1>2, <1>3, <2>1, <2>3, <2>7, <4>1, Apart
        <3> HIDE DEF x
        <3>2. Trans(mem, d, p) # x => content'[Trans(mem, d, p)] = content[Trans(mem, d, p)]
            <4>1. Trans(mem, d, p) # 0 => Trans(mem, d, p) \in Frame
                <5>1. {} \in SUBSET KernelPage
                    OBVIOUS
                <5> QED BY <1>2, <1>3, <2>1, <5>1, Apart
            <4>2. Trans(mem, d, p) \notin Frame \/ Trans(mem, d, p) \in Frame
                OBVIOUS
            <4> QED BY <1>1, <2>5
        <3> QED BY <2>2, <2>3, <2>4, <2>7, <3>1, <3>2 DEF Finds, FindsNext
    <2> QED BY <2>6, <2>7
<1>7. RestInv'
    <2>1. expected' \in [Dir -> [UserPage -> Value \cup {Absent}]]
        BY <1>1 DEF IInv, RestInv
    <2>2. content' \in [Frame -> Value]
        BY <1>1 DEF IInv, RestInv
    <2> QED BY <1>1, <2>1, <2>2 DEF IInv, RestInv
<1> QED BY <1>2, <1>4, <1>5, <1>6, <1>7 DEF IInv

\* sched_switch: with no window open it does not matter which directory is loaded.
LEMMA SwitchKeeps ==
    ASSUME IInv, NEW d \in 1..created, Switch(d)
    PROVE  IInv'
<1>1. /\ fork = NoFork /\ fork' = fork /\ loaded' = d /\ created' = created /\ brk' = brk
      /\ content' = content /\ crossed' = crossed /\ halted' = halted /\ mem' = mem
      /\ expected' = expected
    BY DEF Switch, Runs
<1>2. /\ ForkInv' /\ fork'.tbl = 0 /\ Windows' = {} /\ Born' = created'
      /\ Good(mem, 0, {}) /\ (~crossed => HeapIs(mem, {}, created, brk))
    BY <1>1, NoForkKeeps
<1>3. TablesInv'
    BY <1>1, <1>2, TablesNext
<1>4. HeapInv'
    <2>1. halted => crossed
        BY DEF IInv, HeapInv
    <2> QED BY <1>1, <1>2, <2>1, HeapNext
<1>5. KeptInv'
    <2> SUFFICES ASSUME NEW e \in 1..created, NEW p \in UserPage
                 PROVE  FindsNext(Trans(mem, e, p), e, p)
        BY <1>1, KeptNext
    <2>1. Finds(Trans(mem, e, p), e, p)
        BY DEF IInv, KeptInv
    <2> QED BY <1>1, <2>1 DEF Finds, FindsNext
<1>6. RestInv'
    BY <1>1 DEF IInv, RestInv
<1> QED BY <1>2, <1>3, <1>4, <1>5, <1>6 DEF IInv

\* A fresh frame in a page of the kernel is foreign to all programs.
LEMMA FreshForeign ==
    ASSUME NEW m, NEW r, NEW tbl, NEW f, Shape(m), SameUser(m, r, tbl), Fresh(m, f),
           tbl # 0 => tbl \in DOMAIN m.tables
    PROVE  Foreign(r, tbl, f)
<1> SUFFICES ASSUME NEW t \in DOMAIN r.tables, NEW i \in Index, OfUser(r, tbl, t)
             PROVE  r.tables[t][i] # f
    BY DEF Foreign
<1>1. OfUser(m, tbl, t) /\ t # 0
    BY DEF OfUser, SameUser
<1>2. t \in DOMAIN m.tables
    BY <1>1, ShapeFacts DEF OfUser
<1>3. r.tables[t][i] = m.tables[t][i]
    BY <1>1, <1>2 DEF SameUser
<1> QED BY <1>2, <1>3 DEF Fresh

\* malloc_sbrk's page: in the boot's directory it may need a table that the loaded
\* one does not get, and clears the one that the loaded has.
LEMMA GrowTables ==
    ASSUME NEW m, Good(m, 0, {}), NEW page \in KernelPage, loaded \in Dir, 1 \in Dir,
           NEW f, Fresh(m, f), NewTable(m, BootDir, page) = 1 => m.next <= LastFrame, NEW r,
           r = MapAddr(m, BootDir, page, f)
    PROVE  /\ Good(r, 0, {}) /\ SameUser(m, r, 0)
           /\ \A k \in 1..LastDir : /\ loaded \in 1..k /\ HeapIs(m, {}, k, page)
                                    /\ m.dirs[1][page \div N] = 0 => k = 1
                                    => HeapIs(r, {}, k, page + 1)
<1> DEFINE s == page \div N
<1>1. /\ s \in Slot /\ page % N \in Index /\ s >= UserSlots /\ s \in KernelSlots /\ page \in Nat
    BY KernelPages
<1>2. Shape(m) /\ m.next \in Nat /\ f \in 0..(m.next - 1) /\ f # 0
    BY ShapeFacts DEF Good, Fresh
<1>3. m.dirs[1][s] = 0 => m.next <= LastFrame
    BY DEF NewTable, BootDir
<1>4. {} \in SUBSET KernelPage /\ {} \cup {page} \in SUBSET KernelPage
    OBVIOUS
<1>5. ASSUME NEW V \in SUBSET KernelPage, Good(r, 0, V), V \subseteq {page}, SameUser(m, r, 0),
             r.dirs[loaded][s] # 0 => Trans(r, loaded, page) = f
      PROVE  Good(r, 0, {})
    <2>1. Foreign(r, 0, f)
        BY <1>2, <1>5, FreshForeign
    <2>2. ASSUME r.dirs[loaded][s] \in DOMAIN r.tables
          PROVE  r.tables[r.dirs[loaded][s]][page % N] = f
        <3>1. r.dirs[loaded][s] # 0
            BY <1>5, <2>2, ShapeFacts DEF Good
        <3> QED BY <1>5, <3>1 DEF Trans
    <2>3. Good(r, 0, V \ {page})
        BY <1>5, <2>1, <2>2, DropWindow
    <2>4. V \ {page} = {}
        BY <1>5
    <2> QED BY <2>3, <2>4
\* As in the loaded directory
<1>6. CASE r = MapAddr(m, loaded, page, f) /\ (m.dirs[loaded][s] = 0 => m.dirs[1][s] = 0)
    <2>1. NewTable(m, loaded, page) = 1 => m.next <= LastFrame
        BY <1>3, <1>6 DEF NewTable
    <2>2. /\ Good(r, 0, {} \cup {page}) /\ SameUser(m, r, 0) /\ Shows(m, r, page, f)
          /\ HeapKept(m, r, {}, page, f)
        <3>1. PICK W \in SUBSET KernelPage : W = {}
            BY <1>4
        <3>2. PICK z : z = 0
            OBVIOUS
        <3>3. Good(m, z, W)
            BY <3>1, <3>2
        <3>4. /\ Good(r, z, W \cup {page}) /\ SameUser(m, r, z) /\ Shows(m, r, page, f)
              /\ HeapKept(m, r, W, page, f)
            BY <1>2, <1>6, <2>1, <3>3, MapKernel
        <3> QED BY <3>1, <3>2, <3>4
    <2>3. Trans(r, loaded, page) = f
        BY <2>2 DEF Shows
    <2>4. Good(r, 0, {})
        BY <1>4, <1>5, <2>2, <2>3
    <2>5. ASSUME NEW k \in 1..LastDir, loaded \in 1..k, HeapIs(m, {}, k, page),
                 m.dirs[1][s] = 0 => k = 1
          PROVE  HeapIs(r, {}, k, page + 1)
        <3>1. page >= page /\ (m.dirs[loaded][page \div N] = 0 => k = 1)
            BY <1>1, <1>6, <2>5
        <3> QED BY <1>1, <1>2, <2>2, <2>5, <3>1 DEF HeapKept
    <2> QED BY <2>2, <2>4, <2>5
\* Nothing is set: the loaded directory has no table there.
<1>7. CASE r = m /\ m.dirs[1][s] # 0 /\ m.dirs[loaded][s] = 0
    <2>1. SameUser(m, m, 0)
        BY DEF SameUser
    <2>2. ASSUME NEW k \in 1..LastDir, loaded \in 1..k, HeapIs(m, {}, k, page) PROVE FALSE
        BY <1>1, <1>7, <2>2 DEF HeapIs
    <2> QED BY <1>7, <2>1, <2>2
\* A table in the boot's directory, behind the loaded one's back
<1>8. CASE loaded # 1 /\ m.dirs[1][s] = 0
    <2> DEFINE w == WithTable(m, 1, s)
               t == w.dirs[loaded][s]
               n == IF t = 0 THEN w ELSE Cleared(w, t)
    <2>1. Shape(w) /\ Gains(m, w, 1, s, Junk)
        BY <1>1, <1>2, <1>3, <1>8, WithTableIs
    <2>2. r = SetEntry(n, loaded, page, f)
        BY <1>8 DEF MapAddr, TableFor, BootDir
    <2> HIDE DEF w
    <2>3. Good(w, 0, {})
        <3>1. PICK x : x = Junk
            OBVIOUS
        <3>2. Gains(m, w, 1, s, x) /\ (x = 0 \/ (x = Junk /\ s >= UserSlots))
            BY <1>1, <2>1, <3>1
        <3>3. PICK d \in Dir : d = 1
            OBVIOUS
        <3>4. Gains(m, w, d, s, x) /\ m.dirs[d][s] = 0
            BY <1>8, <3>2, <3>3
        <3> QED BY <1>1, <2>1, <3>2, <3>4, GainKeeps
    <2>4. SameUser(m, w, 0)
        <3>1. \A d \in Dir, q \in Slot : q < UserSlots => w.dirs[d][q] = m.dirs[d][q]
            <4>1. \A q \in Slot : q < UserSlots => q # s
                BY <1>1, VirtMemAssumption DEF Slot
            <4> QED BY <2>1, <4>1 DEF Gains
        <3> QED BY <2>1, <3>1 DEF SameUser, Gains
    <2>5. Good(n, 0, {}) /\ SameUser(w, n, 0) /\ n.next = w.next /\ Shape(n)
        <3>1. CASE t = 0
            BY <2>1, <2>3, <3>1 DEF SameUser
        <3>2. CASE t # 0
            <4>1. ~OfUser(w, 0, t) /\ t \in DOMAIN w.tables
                BY <1>1, <2>3, <3>2, KernelTable
            <4>2. PICK c : c = Cleared(w, t)
                OBVIOUS
            <4> HIDE DEF t
            <4>3. Shape(c) /\ Sets(w, c, t, Index, 0)
                BY <2>1, <4>1, <4>2, ClearedIs
            <4>4. Good(c, 0, {})
                <5>1. PICK z : z = 0
                    OBVIOUS
                <5>2. Sets(w, c, t, Index, z) /\ (z = 0 \/ \A j \in Index : AtWindow(w, {}, t, j))
                    BY <4>3, <5>1
                <5>3. Index \in SUBSET Index /\ {} \subseteq {} /\ {} \subseteq KernelPage
                    OBVIOUS
                <5> QED BY <2>3, <4>1, <4>3, <5>2, <5>3, SetKernelKeeps
            <4>5. SameUser(w, c, 0)
                <5>1. \A u \in DOMAIN w.tables : OfUser(w, 0, u) => u # t
                    BY <4>1
                <5> QED BY <4>3, <5>1 DEF SameUser, Sets
            <4> QED BY <3>2, <4>2, <4>3, <4>4, <4>5 DEF Sets
        <3> QED BY <3>1, <3>2
    <2> HIDE DEF n
    <2>6. f \in 0..(n.next - 1)
        BY <1>2, <2>1, <2>5 DEF Gains
    <2>7. Shape(r) /\ (SetsPage(n, r, page, f) \/ (r = n /\ n.dirs[loaded][page \div N] = 0))
        BY <1>1, <2>2, <2>5, <2>6, SetEntryIs
    <2>8. \/ Good(r, 0, {}) /\ SameUser(n, r, 0)
          \/ Good(r, 0, {} \cup {page}) /\ SameUser(n, r, 0) /\ Trans(r, loaded, page) = f
        <3>1. CASE r = n
            BY <2>5, <3>1 DEF SameUser
        <3>2. CASE SetsPage(n, r, page, f)
            <4>1. Good(r, 0, {} \cup {page}) /\ SameUser(n, r, 0) /\ Shows(n, r, page, f)
                BY <1>4, <2>5, <2>7, <3>2, SetKernelPage
            <4> QED BY <4>1 DEF Shows
        <3> QED BY <2>7, <3>1, <3>2
    <2>9. SameUser(m, r, 0)
        BY <2>4, <2>5, <2>8, SameUserAgain
    <2>10. Good(r, 0, {})
        BY <1>4, <1>5, <2>8, <2>9
    <2>11. ASSUME NEW k \in 1..LastDir, loaded \in 1..k, k = 1 PROVE FALSE
        BY <1>8, <2>11
    <2> QED BY <1>8, <2>9, <2>10, <2>11
<1>9. CASE loaded = 1
    BY <1>6, <1>9 DEF BootDir
<1>10. CASE loaded # 1 /\ m.dirs[1][s] # 0
    <2>1. r = SetEntry(m, loaded, page, f)
        BY <1>10 DEF MapAddr, TableFor, BootDir
    <2>2. CASE m.dirs[loaded][s] = 0
        BY <1>7, <1>10, <2>1, <2>2 DEF SetEntry
    <2>3. CASE m.dirs[loaded][s] # 0
        <3>1. r = MapAddr(m, loaded, page, f)
            BY <2>1, <2>3 DEF MapAddr, TableFor
        <3> QED BY <1>6, <1>10, <2>3, <3>1
    <2> QED BY <2>2, <2>3
<1> QED BY <1>8, <1>9, <1>10

\* malloc_sbrk: a page more for all, or a table that the others do not get.
LEMMA GrowKeeps ==
    ASSUME IInv, Grow
    PROVE  IInv'
<1> DEFINE f == mem.next
           m == Took(mem)
<1>1. /\ fork = NoFork /\ fork' = fork /\ loaded' = loaded /\ created' = created
      /\ content' = content /\ expected' = expected /\ ~halted
      /\ mem' = MapAddr(m, BootDir, brk, f) /\ brk < Slots * N
      /\ crossed' = (crossed \/ Crosses(mem, BootDir, brk))
      /\ mem.next + NewTable(mem, BootDir, brk) <= LastFrame
      /\ IF MapFaults(mem, BootDir, brk)
         THEN halted' = TRUE /\ brk' = brk ELSE brk' = brk + 1 /\ halted' = halted
    BY DEF Grow, Runs
<1>2. /\ ForkInv' /\ fork'.tbl = 0 /\ Windows' = {} /\ Born' = created'
      /\ Good(mem, 0, {}) /\ (~crossed => HeapIs(mem, {}, created, brk))
    BY <1>1, NoForkKeeps
<1>3. /\ loaded \in Dir /\ 1 \in Dir /\ loaded \in 1..created /\ created \in 1..LastDir
      /\ brk \in Nat /\ UserSlots * N <= brk /\ Slots * N \in Nat /\ UserSlots * N \in Nat
      /\ mem.next \in Nat /\ Shape(mem) /\ LastFrame \in Nat /\ LastDir \in Nat
    BY InvFacts, VirtMemAssumption
<1>4. f <= LastFrame /\ (NewTable(mem, BootDir, brk) = 1 => f + 1 <= LastFrame)
    BY <1>1, <1>3 DEF NewTable
<1>5. /\ Shape(m) /\ m.next = mem.next + 1 /\ Good(m, 0, {}) /\ Fresh(m, f)
      /\ m.dirs = mem.dirs
      /\ NewTable(m, BootDir, brk) = NewTable(mem, BootDir, brk)
      /\ \A d, p : Trans(m, d, p) = Trans(mem, d, p)
      /\ \A W, k, b : HeapIs(mem, W, k, b) => HeapIs(m, W, k, b)
    BY <1>2, <1>3, <1>4, TookIs, TookKeeps, TookPages
<1> HIDE DEF m
<1>6. brk \in KernelPage
    BY <1>1, <1>3 DEF KernelPage
<1>7. /\ Good(mem', 0, {}) /\ SameUser(m, mem', 0)
      /\ \A k \in 1..LastDir : /\ loaded \in 1..k /\ HeapIs(m, {}, k, brk)
                               /\ m.dirs[1][brk \div N] = 0 => k = 1
                               => HeapIs(mem', {}, k, brk + 1)
    <2>1. NewTable(m, BootDir, brk) = 1 => m.next <= LastFrame
        BY <1>4, <1>5
    <2> HIDE DEF f
    <2> QED BY <1>1, <1>3, <1>5, <1>6, <2>1, GrowTables
<1>8. TablesInv'
    BY <1>1, <1>2, <1>7, TablesNext
<1>9. ASSUME ~crossed'
      PROVE  /\ ~crossed /\ HeapIs(mem, {}, created, brk)
             /\ mem.dirs[1][brk \div N] = 0 => created = 1
    <2>1. ~crossed /\ ~Crosses(mem, BootDir, brk)
        BY <1>1, <1>9
    <2>2. mem.dirs[1][brk \div N] = 0 => ~(created > 1)
        BY <1>1, <1>3, <2>1 DEF Crosses, BootDir
    <2> QED BY <1>2, <1>3, <2>1, <2>2
<1>10. ~crossed' => ~MapFaults(mem, BootDir, brk)
    <2> SUFFICES ASSUME ~crossed', MapFaults(mem, BootDir, brk) PROVE FALSE
        OBVIOUS
    <2>1. loaded # 1 /\ mem.dirs[loaded][brk \div N] = 0
        BY DEF MapFaults, BootDir
    <2>2. mem.dirs[loaded][brk \div N] = mem.dirs[1][brk \div N]
        BY <1>3, <1>6, <1>9, KernelPages DEF HeapIs
    <2> QED BY <1>3, <1>9, <2>1, <2>2
<1>11. HeapInv'
    <2>1. ASSUME ~crossed' PROVE HeapIs(mem', {}, created, brk + 1)
        <3>1. HeapIs(m, {}, created, brk) /\ (m.dirs[1][brk \div N] = 0 => created = 1)
            BY <1>5, <1>9, <2>1
        <3> QED BY <1>3, <1>7, <3>1
    <2>2. ~crossed' => brk' = brk + 1 /\ ~halted'
        BY <1>1, <1>10
    <2> QED BY <1>1, <1>2, <2>1, <2>2, HeapNext
<1>12. KeptInv'
    <2> SUFFICES ASSUME NEW d \in 1..created, NEW p \in UserPage
                 PROVE  FindsNext(Trans(mem', d, p), d, p)
        BY <1>1, KeptNext
    <2>1. d \in Dir
        BY <1>3 DEF Dir
    <2>2. Trans(mem', d, p) = Trans(mem, d, p)
        BY <1>5, <1>7, <2>1, SameUserPages
    <2>3. Finds(Trans(mem, d, p), d, p)
        BY DEF IInv, KeptInv
    <2> QED BY <1>1, <2>2, <2>3 DEF Finds, FindsNext
<1>13. RestInv'
    <2>1. brk' \in UserSlots * N..Slots * N
        BY <1>1, <1>3
    <2>2. crossed' \in BOOLEAN /\ halted' \in BOOLEAN
        BY <1>1 DEF IInv, RestInv
    <2> QED BY <1>1, <2>1, <2>2 DEF IInv, RestInv
<1> QED BY <1>2, <1>8, <1>11, <1>12, <1>13 DEF IInv

\* r is m with a directory c that has the loaded one's slots of the kernel.
Inherits(m, r, c) ==
    /\ r.next = m.next /\ r.tables = m.tables
    /\ \A e \in Dir, q \in Slot :
           r.dirs[e][q] = IF e # c THEN m.dirs[e][q] ELSE IF q \in KernelSlots THEN m.dirs[loaded][q] ELSE 0

\* What virt_mm_addr_create does to the record of the page tables
LEMMA InheritsIs ==
    ASSUME NEW m, Shape(m), NEW c \in Dir, loaded \in Dir, NEW r,
           r = [m EXCEPT !.dirs[c] =
                  [slot \in 0..(Slots - 1) |-> IF slot \in KernelSlots THEN m.dirs[loaded][slot] ELSE 0]]
    PROVE  Shape(r) /\ Inherits(m, r, c)
<1> DEFINE g == [slot \in Slot |-> IF slot \in KernelSlots THEN m.dirs[loaded][slot] ELSE 0]
           D == [m.dirs EXCEPT ![c] = g]
<1>1. m = [dirs |-> m.dirs, tables |-> m.tables, next |-> m.next] /\ m.dirs \in [Dir -> [Slot -> Nat]]
    BY DEF Shape
<1>2. r = [dirs |-> D, tables |-> m.tables, next |-> m.next]
    <2>1. r = [m EXCEPT !.dirs = D]
        BY DEF Slot
    <2> HIDE DEF D
    <2> QED BY <1>1, <2>1
<1>3. g \in [Slot -> Nat]
    BY <1>1
<1>4. \A q \in Slot : g[q] = IF q \in KernelSlots THEN m.dirs[loaded][q] ELSE 0
    OBVIOUS
<1> HIDE DEF g
<1>5. D \in [Dir -> [Slot -> Nat]]
    BY <1>1, <1>3
<1>6. \A e \in Dir : D[e] = IF e = c THEN g ELSE m.dirs[e]
    BY <1>1
<1> HIDE DEF D
<1>7. r.dirs = D /\ r.tables = m.tables /\ r.next = m.next
    BY <1>2
<1>8. ASSUME NEW e \in Dir, NEW q \in Slot
      PROVE  r.dirs[e][q] = IF e # c THEN m.dirs[e][q]
                            ELSE IF q \in KernelSlots THEN m.dirs[loaded][q] ELSE 0
    <2>1. r.dirs[e] = IF e = c THEN g ELSE m.dirs[e]
        BY <1>6, <1>7
    <2>2. CASE e = c
        <3>1. r.dirs[e][q] = g[q]
            BY <2>1, <2>2, Zenon
        <3> QED BY <1>4, <2>2, <3>1, Zenon
    <2>3. CASE e # c
        <3>1. r.dirs[e] = m.dirs[e]
            BY <2>1, <2>3, Zenon
        <3>2. r.dirs[e][q] = m.dirs[e][q]
            BY <3>1, Zenon
        <3> QED BY <2>3, <3>2, Zenon
    <2> QED BY <2>2, <2>3, Zenon
<1>9. \A e \in Dir, q \in Slot : r.dirs[e][q] \in {0} \cup DOMAIN r.tables
    <2> SUFFICES ASSUME NEW e \in Dir, NEW q \in Slot
                 PROVE  r.dirs[e][q] \in {0} \cup DOMAIN m.tables
        BY <1>7
    <2>1. m.dirs[e][q] \in {0} \cup DOMAIN m.tables /\ m.dirs[loaded][q] \in {0} \cup DOMAIN m.tables
        BY ShapeFacts
    <2> QED BY <1>8, <2>1
<1>10. Shape(r)
    BY <1>2, <1>5, <1>7, <1>9 DEF Shape
<1> QED BY <1>7, <1>8, <1>10 DEF Inherits

\* The new directory has no program's table, and the heap as the loaded one has it.
LEMMA InheritsKeeps ==
    ASSUME NEW m, Good(m, 0, {}), NEW c \in Dir, loaded \in Dir, loaded # c, NEW r,
           Shape(r), Inherits(m, r, c)
    PROVE  /\ Good(r, 0, {})
           /\ \A d \in Dir : \A p : d # c /\ p \div N \in Slot => Trans(r, d, p) = Trans(m, d, p)
           /\ \A k, b : k \in Nat /\ c = k + 1 /\ loaded \in 1..k /\ HeapIs(m, {}, k, b)
                            => HeapIs(r, {}, k + 1, b)
<1>1. UserSlots \in Nat /\ Slots \in Nat /\ \A s \in Slot : s < UserSlots => s \notin KernelSlots
    BY VirtMemAssumption DEF KernelSlots
<1>2. \A e \in Dir, q \in Slot :
          r.dirs[e][q] = IF e # c THEN m.dirs[e][q] ELSE IF q \in KernelSlots THEN m.dirs[loaded][q] ELSE 0
    BY DEF Inherits
<1>3. Exclusive(r, 0)
    <2> SUFFICES ASSUME NEW d \in Dir, NEW e \in Dir, NEW s \in Slot, NEW q \in Slot,
                        r.dirs[d][s] # 0, r.dirs[d][s] = r.dirs[e][q]
                 PROVE  s = q /\ (s < UserSlots => d = e)
        BY DEF Exclusive
    <2>1. PICK a \in Dir : a = (IF d = c THEN loaded ELSE d) /\ r.dirs[d][s] = m.dirs[a][s]
        BY <1>2
    <2>2. PICK b \in Dir : b = (IF e = c THEN loaded ELSE e) /\ r.dirs[e][q] = m.dirs[b][q]
        BY <1>2
    <2>3. s = q /\ (s < UserSlots => a = b)
        <3>1. m.dirs[a][s] # 0 /\ m.dirs[a][s] = m.dirs[b][q]
            BY <2>1, <2>2
        <3>2. Exclusive(m, 0)
            BY DEF Good
        <3> QED BY <3>1, <3>2 DEF Exclusive
    <2>4. s < UserSlots => d # c /\ e # c
        BY <1>1, <1>2, <2>3
    <2> QED BY <2>1, <2>2, <2>3, <2>4
<1>4. r.tables = m.tables /\ r.next = m.next
    BY DEF Inherits
<1>5. \A t : OfUser(r, 0, t) => OfUser(m, 0, t)
    <2> SUFFICES ASSUME NEW t, OfUser(r, 0, t) PROVE OfUser(m, 0, t)
        OBVIOUS
    <2>1. t # 0
        BY DEF OfUser
    <2>2. PICK d \in Dir, s \in Slot : s < UserSlots /\ r.dirs[d][s] = t
        BY <2>1 DEF OfUser
    <2>3. m.dirs[d][s] = t
        BY <1>1, <1>2, <2>1, <2>2
    <2> QED BY <2>1, <2>2, <2>3 DEF OfUser
<1>6. Private(r, 0, {})
    <2>1. Private(m, 0, {})
        BY DEF Good
    <2>2. \A u, j : ~AtWindow(m, {}, u, j)
        BY DEF AtWindow
    <2> QED BY <1>4, <1>5, <2>1, <2>2 DEF Private
<1>7. ASSUME NEW d \in Dir, NEW p, d # c, p \div N \in Slot
      PROVE  Trans(r, d, p) = Trans(m, d, p)
    BY <1>2, <1>4, <1>7 DEF Trans
<1>8. ASSUME NEW k \in Nat, NEW b, c = k + 1, loaded \in 1..k, HeapIs(m, {}, k, b)
      PROVE  HeapIs(r, {}, k + 1, b)
    <2>1. LastDir \in Nat /\ 1 \in Dir /\ 1 # c /\ 1..k \subseteq Dir /\ 1 \in 1..k
        BY <1>8, VirtMemAssumption DEF Dir
    <2>2. \A s \in KernelSlots : s \in Slot
        BY <1>1 DEF KernelSlots, Slot
    <2>3. \A d \in 1..k, s \in KernelSlots : m.dirs[d][s] = m.dirs[1][s]
        BY <1>8 DEF HeapIs
    <2>4. ASSUME NEW d \in 1..(k + 1), NEW s \in KernelSlots PROVE r.dirs[d][s] = r.dirs[1][s]
        <3>1. d \in Dir /\ (d # c => d \in 1..k) /\ r.dirs[1][s] = m.dirs[1][s]
            BY <1>2, <1>8, <2>1, <2>2
        <3>2. r.dirs[d][s] = IF d # c THEN m.dirs[d][s] ELSE m.dirs[loaded][s]
            BY <1>2, <2>2, <3>1
        <3> QED BY <1>8, <2>3, <3>1, <3>2
    <2>5. \A p \in KernelPage : Trans(r, 1, p) = Trans(m, 1, p)
        BY <1>7, <2>1, KernelPages
    <2> QED BY <1>4, <1>8, <2>4, <2>5 DEF HeapIs
<1> QED BY <1>3, <1>6, <1>7, <1>8 DEF Good

\* virt_mm_addr_create, the head of a fork
LEMMA AddrCreateKeeps ==
    ASSUME IInv, AddrCreate
    PROVE  IInv'
<1> DEFINE c == created + 1
<1>1. /\ fork = NoFork /\ loaded' = loaded /\ created' = created /\ brk' = brk
      /\ content' = content /\ expected' = expected /\ crossed' = crossed /\ halted' = halted
      /\ mem' = [mem EXCEPT !.dirs[c] =
                    [slot \in 0..(Slots - 1) |-> IF slot \in KernelSlots THEN mem.dirs[loaded][slot] ELSE 0]]
      /\ fork' = [NoFork EXCEPT !.child = c, !.at = brk] /\ created < LastDir
    BY DEF AddrCreate, Runs, WindowStart
<1>2. fork' = [child |-> c, slot |-> 0, tbl |-> 0, window |-> 0, entry |-> 0, at |-> brk]
    BY <1>1 DEF NoFork
<1>3. Good(mem, 0, {}) /\ (~crossed => HeapIs(mem, {}, created, brk))
    <2>1. fork.tbl = 0 /\ Windows = {} /\ Born = created /\ Good(mem, fork.tbl, Windows)
        BY <1>1, InvFacts
    <2> QED BY <2>1 DEF IInv, HeapInv
<1>4. /\ loaded \in Dir /\ loaded \in 1..created /\ created \in 1..LastDir /\ LastDir \in Nat
      /\ brk \in Nat /\ brk <= Slots * N /\ Shape(mem) /\ N \in Nat /\ UserSlots \in Nat
      /\ Slots * N \in Nat
    BY InvFacts, VirtMemAssumption
<1>5. c \in Dir /\ loaded # c /\ \A d \in 1..created : d \in Dir /\ d # c
    BY <1>1, <1>4 DEF Dir
<1>6. fork' # NoFork /\ fork'.tbl = 0 /\ Windows' = {} /\ Born' = created + 1
    <2>1. fork'.child = c /\ c # 0 /\ NoFork.child = 0 /\ fork'.tbl = 0
        BY <1>2, <1>4 DEF NoFork
    <2>2. fork' # NoFork
        BY <2>1
    <2> QED BY <1>1, <2>1, <2>2 DEF Windows, Born
<1>7. Shape(mem') /\ Inherits(mem, mem', c)
    <2> HIDE DEF c
    <2> QED BY <1>1, <1>4, <1>5, InheritsIs
<1>8. /\ Good(mem', 0, {})
      /\ \A d \in Dir : \A p : d # c /\ p \div N \in Slot => Trans(mem', d, p) = Trans(mem, d, p)
      /\ ~crossed => HeapIs(mem', {}, created + 1, brk)
    <2>1. created \in Nat
        BY <1>4
    <2> QED BY <1>3, <1>4, <1>5, <1>7, <2>1, InheritsKeeps
<1>9. TablesInv'
    BY <1>1, <1>6, <1>8, TablesNext
<1>10. HeapInv'
    <2>1. halted => crossed
        BY DEF IInv, HeapInv
    <2> QED BY <1>1, <1>6, <1>8, <2>1, HeapNext
<1>11. KeptInv'
    <2> SUFFICES ASSUME NEW d \in 1..created, NEW p \in UserPage
                 PROVE  FindsNext(Trans(mem', d, p), d, p)
        BY <1>1, KeptNext
    <2>1. Trans(mem', d, p) = Trans(mem, d, p)
        BY <1>5, <1>8, UserPages
    <2>2. Finds(Trans(mem, d, p), d, p)
        BY DEF IInv, KeptInv
    <2> QED BY <1>1, <2>1, <2>2 DEF Finds, FindsNext
<1>12. ForkInv'
    <2>1. fork' \in [child : {created' + 1}, slot : 0..UserSlots, tbl : Nat,
                     window : Nat, entry : 0..N, at : brk'..(Slots * N)]
        BY <1>1, <1>2, <1>4
    <2>2. created' + 1 \in Dir
        BY <1>1, <1>5
    <2>3. fork'.tbl = 0 /\ fork'.slot = 0 /\ fork'.child = c
        BY <1>2
    <2>4. \A s \in fork'.slot..(UserSlots - 1) : mem'.dirs[fork'.child][s] = 0
        <3>1. \A s \in 0..(UserSlots - 1) : s \in Slot /\ s \notin KernelSlots
            BY VirtMemAssumption DEF Slot, KernelSlots
        <3> QED BY <1>5, <1>7, <2>3, <3>1 DEF Inherits
    <2>5. ASSUME NEW p \in UserPage PROVE ~Copied(p)'
        <3>1. ~(p \div N < 0)
            BY UserPages, VirtMemAssumption DEF Slot
        <3> QED BY <2>3, <3>1 DEF Copied
    <2> QED BY <2>1, <2>2, <2>3, <2>4, <2>5 DEF ForkInv
<1>13. RestInv'
    BY <1>1 DEF IInv, RestInv
<1> QED BY <1>9, <1>10, <1>11, <1>12, <1>13 DEF IInv

\* Where a fork is.
LEMMA ForkFacts ==
    ASSUME IInv, fork # NoFork
    PROVE  /\ fork = [child |-> fork.child, slot |-> fork.slot, tbl |-> fork.tbl,
                      window |-> fork.window, entry |-> fork.entry, at |-> fork.at]
           /\ fork.child = created + 1 /\ fork.child \in Dir /\ fork.child # loaded
           /\ fork.slot \in 0..UserSlots /\ fork.tbl \in Nat /\ fork.window \in Nat
           /\ fork.entry \in 0..N /\ fork.at \in brk..(Slots * N) /\ fork.at \in Nat
           /\ Born = created + 1 /\ Born \in 1..LastDir /\ loaded \in 1..Born
           /\ N \in Nat \ {0} /\ UserSlots \in Nat /\ LastFrame \in Nat
           /\ \A d \in 1..created : d \in Dir /\ d # fork.child
<1>1. fork \in [child : {created + 1}, slot : 0..UserSlots, tbl : Nat,
                window : Nat, entry : 0..N, at : brk..(Slots * N)]
      /\ created + 1 \in Dir
    BY DEF IInv, ForkInv
<1>2. /\ loaded \in 1..created /\ created \in 1..LastDir /\ brk \in Nat /\ Slots * N \in Nat
    BY InvFacts
<1>3. LastDir \in Nat /\ N \in Nat \ {0} /\ UserSlots \in Nat /\ LastFrame \in Nat
    BY VirtMemAssumption
<1>4. fork = [child |-> fork.child, slot |-> fork.slot, tbl |-> fork.tbl,
              window |-> fork.window, entry |-> fork.entry, at |-> fork.at]
    BY <1>1
<1>5. /\ fork.child = created + 1
      /\ fork.slot \in 0..UserSlots /\ fork.tbl \in Nat /\ fork.window \in Nat
      /\ fork.entry \in 0..N /\ fork.at \in brk..(Slots * N)
    BY <1>1
<1>6. Born = created + 1
    BY DEF Born
<1>7. /\ fork.child \in Dir /\ fork.child # loaded /\ fork.at \in Nat
      /\ \A d \in 1..created : d \in Dir /\ d # fork.child
    BY <1>1, <1>2, <1>3, <1>5 DEF Dir
<1>8. Born \in 1..LastDir /\ loaded \in 1..Born
    BY <1>1, <1>2, <1>3, <1>6 DEF Dir
<1> QED BY <1>3, <1>4, <1>5, <1>6, <1>7, <1>8

\* A fork is under way behind the step when it was and is not at its end.
LEMMA ForkGoesOn ==
    ASSUME IInv, fork # NoFork, created' = created, fork'.child = fork.child
    PROVE  fork' # NoFork /\ Born' = Born
<1>1. fork.child = created + 1 /\ created \in Nat /\ Born = created + 1
    BY ForkFacts, InvFacts
<1>2. fork'.child # 0 /\ NoFork.child = 0
    BY <1>1 DEF NoFork
<1>3. fork' # NoFork
    BY <1>2
<1>4. Born' = created' + 1
    BY <1>3 DEF Born
<1> QED BY <1>1, <1>3, <1>4

\* A slot without a table
LEMMA ForkSkipKeeps ==
    ASSUME IInv, ForkSkip
    PROVE  IInv'
<1>1. /\ fork # NoFork /\ fork.slot < UserSlots /\ fork.tbl = 0 /\ mem.dirs[loaded][fork.slot] = 0
      /\ fork' = [fork EXCEPT !.slot = @ + 1]
      /\ loaded' = loaded /\ created' = created /\ brk' = brk /\ mem' = mem
      /\ content' = content /\ expected' = expected /\ crossed' = crossed /\ halted' = halted
    BY DEF ForkSkip, Forking
<1>2. /\ fork.child = created + 1 /\ fork.child \in Dir /\ loaded \in 1..created
      /\ fork.slot \in 0..UserSlots /\ UserSlots \in Nat /\ N \in Nat
    BY <1>1, ForkFacts, InvFacts
<1>3. fork' = [child |-> fork.child, slot |-> fork.slot + 1, tbl |-> fork.tbl,
               window |-> fork.window, entry |-> fork.entry, at |-> fork.at]
    <2>1. fork = [child |-> fork.child, slot |-> fork.slot, tbl |-> fork.tbl,
                  window |-> fork.window, entry |-> fork.entry, at |-> fork.at]
        BY <1>1, ForkFacts
    <2> QED BY <1>1, <2>1
<1>4. fork'.child = fork.child /\ fork'.slot = fork.slot + 1 /\ fork'.tbl = 0
    BY <1>1, <1>3
<1>5. Windows' = {} /\ Windows = {} /\ fork' # NoFork /\ Born' = Born
    BY <1>1, <1>4, ForkGoesOn DEF Windows
<1>6. TablesInv'
    <2>1. Good(mem, fork.tbl, Windows)
        BY InvFacts
    <2>2. Good(mem', fork'.tbl, Windows')
        BY <1>1, <1>4, <1>5, <2>1
    <2> QED BY <1>1, <2>2, TablesNext
<1>7. HeapInv'
    <2>1. (~crossed => HeapIs(mem, Windows, Born, brk)) /\ (halted => crossed)
        BY DEF IInv, HeapInv
    <2> QED BY <1>1, <1>5, <2>1, HeapNext
<1>8. KeptInv'
    <2> SUFFICES ASSUME NEW d \in 1..created, NEW p \in UserPage
                 PROVE  FindsNext(Trans(mem, d, p), d, p)
        BY <1>1, KeptNext
    <2>1. Finds(Trans(mem, d, p), d, p)
        BY DEF IInv, KeptInv
    <2> QED BY <1>1, <2>1 DEF Finds, FindsNext
<1>9. ForkInv'
    <2>1. fork' \in [child : {created' + 1}, slot : 0..UserSlots, tbl : Nat,
                     window : Nat, entry : 0..N, at : brk'..(Slots * N)]
        <3>1. fork.slot + 1 \in 0..UserSlots
            BY <1>1, <1>2
        <3>2. /\ fork.tbl \in Nat /\ fork.window \in Nat /\ fork.entry \in 0..N
              /\ fork.at \in brk..(Slots * N)
            BY <1>1, ForkFacts
        <3> QED BY <1>1, <1>2, <1>3, <3>1, <3>2
    <2>2. created' + 1 \in Dir
        BY <1>1, <1>2
    <2>3. \A s \in fork.slot..(UserSlots - 1) : mem.dirs[fork.child][s] = 0
        BY <1>1 DEF IInv, ForkInv
    <2>4. \A s \in fork'.slot..(UserSlots - 1) : mem'.dirs[fork'.child][s] = 0
        BY <1>1, <1>2, <1>4, <2>3
    <2>5. ASSUME NEW p \in UserPage, Copied(p)' PROVE Finds(CopyOf(p), loaded, p)'
        <3>1. p \div N < fork.slot + 1
            BY <1>4, <2>5 DEF Copied
        <3>2. p \div N \in Nat
            BY UserPages, VirtMemAssumption DEF Slot
        <3>3. CASE p \div N < fork.slot
            <4>1. Copied(p) /\ CopyOf(p) = Trans(mem, fork.child, p)
                BY <3>3 DEF Copied, CopyOf
            <4>2. Finds(CopyOf(p), loaded, p)
                BY <1>1, <4>1 DEF IInv, ForkInv
            <4>3. CopyOf(p)' = Trans(mem, fork.child, p)
                BY <1>1, <1>4, <3>1 DEF CopyOf, Trans
            <4> QED BY <1>1, <4>1, <4>2, <4>3 DEF Finds
        <3>4. CASE p \div N = fork.slot
            <4>1. Trans(mem, loaded, p) = 0 /\ Trans(mem, fork.child, p) = 0
                BY <1>1, <1>2, <2>3, <3>4 DEF Trans
            <4>2. Finds(Trans(mem, loaded, p), loaded, p)
                BY <1>2 DEF IInv, KeptInv
            <4>3. CopyOf(p)' = Trans(mem, fork.child, p)
                BY <1>1, <1>4, <3>1 DEF CopyOf, Trans
            <4> QED BY <1>1, <4>1, <4>2, <4>3 DEF Finds
        <3> QED BY <1>2, <3>1, <3>2, <3>3, <3>4
    <2> QED BY <1>4, <2>1, <2>2, <2>4, <2>5 DEF ForkInv
<1>10. RestInv'
    BY <1>1 DEF IInv, RestInv
<1> QED BY <1>6, <1>7, <1>8, <1>9, <1>10 DEF IInv

\* r is m with a table more, tbl, that is empty and of no slot yet.
Adds(m, r, tbl) ==
    /\ r.next = m.next + 1 /\ r.dirs = m.dirs
    /\ DOMAIN r.tables = DOMAIN m.tables \cup {tbl}
    /\ \A t \in DOMAIN m.tables : r.tables[t] = m.tables[t]
    /\ \A i \in Index : r.tables[tbl][i] = 0

\* What the code does to the record is that.
LEMMA AddsIs ==
    ASSUME NEW m, Shape(m), m.next <= LastFrame, NEW tbl, tbl = m.next, NEW r,
           r = [Took(m) EXCEPT !.tables =
                   [t \in DOMAIN @ \cup {tbl} |-> IF t = tbl THEN [i \in 0..(N - 1) |-> 0] ELSE @[t]]]
    PROVE  Shape(r) /\ Adds(m, r, tbl)
<1> DEFINE k == Took(m)
           z == [i \in 0..(N - 1) |-> 0]
           T == [t \in DOMAIN m.tables \cup {tbl} |-> IF t = tbl THEN z ELSE m.tables[t]]
<1>1. Shape(k) /\ k.next = m.next + 1 /\ k.dirs = m.dirs /\ k.tables = m.tables
    BY TookIs
<1>2. k = [dirs |-> k.dirs, tables |-> k.tables, next |-> k.next]
    BY <1>1 DEF Shape
<1>3. r = [k EXCEPT !.tables = T]
    <2>1. r = [k EXCEPT !.tables =
                  [t \in DOMAIN k.tables \cup {tbl} |-> IF t = tbl THEN z ELSE k.tables[t]]]
        <3>1. r = [k EXCEPT !.tables =
                   [t \in DOMAIN @ \cup {tbl} |-> IF t = tbl THEN z ELSE @[t]]]
            OBVIOUS
        <3> HIDE DEF k, z
        <3> QED BY <1>2, <3>1
    <2> HIDE DEF k, z
    <2> QED BY <1>1, <2>1
<1> HIDE DEF k, T
<1>4. r = [dirs |-> m.dirs, tables |-> T, next |-> m.next + 1]
    BY <1>1, <1>2, <1>3, Fields, Zenon
<1>5. m.next \in 1..(LastFrame + 1) /\ LastFrame \in Nat /\ m.next \in Nat /\ m.next # 0
      /\ \A t \in DOMAIN m.tables : t \in Nat /\ t # 0 /\ t < m.next
    BY ShapeFacts, VirtMemAssumption DEF Shape
<1>6. \A i \in Index : z[i] = 0
    BY DEF Index
<1>7. z \in [Index -> 0..m.next \cup {Junk}]
    BY <1>5 DEF Index
<1> HIDE DEF z
<1>8. DOMAIN T = DOMAIN m.tables \cup {tbl} /\ T[tbl] = z /\ \A t \in DOMAIN m.tables : T[t] = m.tables[t]
    <2>1. \A t \in DOMAIN m.tables : t # tbl
        BY <1>5
    <2> QED BY <2>1 DEF T
<1>9. T \in [DOMAIN m.tables \cup {tbl} -> [Index -> 0..m.next \cup {Junk}]]
    <2> SUFFICES ASSUME NEW t \in DOMAIN m.tables \cup {tbl}
                 PROVE  T[t] \in [Index -> 0..m.next \cup {Junk}]
        BY Zenon DEF T
    <2>1. CASE t = tbl
        BY <1>7, <1>8, <2>1
    <2>2. CASE t \in DOMAIN m.tables
        <3>1. T[t] = m.tables[t]
            BY <1>8, <2>2
        <3>2. m.tables[t] \in [Index -> 0..(m.next - 1) \cup {Junk}]
            BY <2>2 DEF Shape
        <3>3. 0..(m.next - 1) \subseteq 0..m.next
            BY <1>5
        <3> QED BY <3>1, <3>2, <3>3
    <2> QED BY <2>1, <2>2
<1>10. r.dirs = m.dirs /\ r.tables = T /\ r.next = m.next + 1
    BY <1>4
<1>11. Adds(m, r, tbl)
    BY <1>6, <1>8, <1>10, Zenon DEF Adds
<1>12. Shape(r)
    <2>1. r = [dirs |-> r.dirs, tables |-> r.tables, next |-> r.next]
        BY <1>4, <1>10
    <2>2. r.next \in 1..(LastFrame + 1) /\ r.next - 1 = m.next
        BY <1>5, <1>10
    <2>3. DOMAIN r.tables \subseteq 1..(r.next - 1)
        <3>1. DOMAIN m.tables \cup {tbl} \subseteq 1..m.next
            BY <1>5
        <3> QED BY <1>8, <1>10, <2>2, <3>1, Zenon
    <2>4. r.dirs \in [Dir -> [Slot -> Nat]]
          /\ \A d \in Dir, s \in Slot : r.dirs[d][s] \in {0} \cup DOMAIN r.tables
        <3>1. m.dirs \in [Dir -> [Slot -> Nat]]
              /\ \A d \in Dir, s \in Slot : m.dirs[d][s] \in {0} \cup DOMAIN m.tables
            BY DEF Shape
        <3> QED BY <1>8, <1>10, <3>1
    <2>5. r.tables \in [DOMAIN r.tables -> [Index -> 0..(r.next - 1) \cup {Junk}]]
        BY <1>8, <1>9, <1>10, <2>2
    <2> QED BY <2>1, <2>2, <2>3, <2>4, <2>5, Zenon DEF Shape
<1> QED BY <1>11, <1>12

\* The new table is the one under way, and changes no page.
LEMMA AddsKeeps ==
    ASSUME NEW m, Good(m, 0, {}), NEW tbl, tbl = m.next, NEW r, Shape(r), Adds(m, r, tbl)
    PROVE  /\ Good(r, tbl, {}) /\ SameUser(m, r, 0)
           /\ \A d \in Dir : \A p : p \div N \in Slot => Trans(r, d, p) = Trans(m, d, p)
           /\ \A k \in 1..LastDir : \A b : HeapIs(m, {}, k, b) => HeapIs(r, {}, k, b)
<1>1. /\ m.next \in Nat /\ m.next # 0 /\ Shape(m)
      /\ \A t \in DOMAIN m.tables : t \in Nat /\ t # 0 /\ t < m.next
      /\ \A d \in Dir, s \in Slot : m.dirs[d][s] \in {0} \cup DOMAIN m.tables
      /\ m.next <= Junk /\ Junk \in Nat
    BY ShapeFacts DEF Good
<1>2. /\ r.next = m.next + 1 /\ r.dirs = m.dirs
      /\ DOMAIN r.tables = DOMAIN m.tables \cup {tbl}
      /\ \A t \in DOMAIN m.tables : r.tables[t] = m.tables[t]
      /\ \A i \in Index : r.tables[tbl][i] = 0
    BY DEF Adds
<1>3. tbl \notin DOMAIN m.tables
    BY <1>1
<1>4. Exclusive(r, tbl)
    <2>1. \A d \in Dir, s \in Slot : r.dirs[d][s] # tbl
        BY <1>1, <1>2
    <2>2. Exclusive(m, 0)
        BY DEF Good
    <2> QED BY <1>2, <2>1, <2>2 DEF Exclusive
<1>5. \A t : OfUser(r, tbl, t) /\ t # tbl => OfUser(m, 0, t)
    BY <1>2 DEF OfUser
<1>6. Private(r, tbl, {})
    <2> SUFFICES ASSUME NEW t \in DOMAIN r.tables, NEW i \in Index, OfUser(r, tbl, t), r.tables[t][i] # 0
                 PROVE  PrivateEntry(r, tbl, {}, r.tables[t][i], t, i)
        BY ByEntry
    <2>1. t # tbl /\ t \in DOMAIN m.tables /\ r.tables[t] = m.tables[t]
        BY <1>2
    <2> DEFINE x == m.tables[t][i]
    <2>2. PrivateEntry(m, 0, {}, x, t, i) /\ x # 0
        <3>1. OfUser(m, 0, t) /\ m.tables[t][i] # 0
            BY <1>5, <2>1
        <3> QED BY <2>1, <3>1, ByEntry DEF Good
    <2>3. x \in Nat
        BY <1>1, <2>1, ShapeFacts
    <2> HIDE DEF x
    <2>4. \A u, j : ~AtWindow(m, {}, u, j)
        BY DEF AtWindow
    <2>5. x < r.next /\ x \notin DOMAIN r.tables
        BY <1>1, <1>2, <2>2, <2>3 DEF PrivateEntry
    <2>6. ASSUME NEW u \in DOMAIN r.tables, NEW j \in Index, r.tables[u][j] = x PROVE u = t /\ j = i
        <3>1. u # tbl
            BY <1>2, <2>2, <2>6
        <3>2. u \in DOMAIN m.tables /\ m.tables[u][j] = x
            BY <1>2, <2>6, <3>1
        <3> QED BY <2>2, <2>4, <3>2 DEF PrivateEntry
    <2>7. r.tables[t][i] = x
        BY <2>1 DEF x
    <2> QED BY <2>5, <2>6, <2>7 DEF PrivateEntry
<1>7. SameUser(m, r, 0)
    BY <1>2 DEF SameUser
<1>8. ASSUME NEW d \in Dir, NEW p, p \div N \in Slot PROVE Trans(r, d, p) = Trans(m, d, p)
    <2>1. m.dirs[d][p \div N] \in {0} \cup DOMAIN m.tables
        BY <1>1, <1>8
    <2> QED BY <1>2, <2>1 DEF Trans
<1>9. ASSUME NEW k \in 1..LastDir, NEW b, HeapIs(m, {}, k, b) PROVE HeapIs(r, {}, k, b)
    <2>1. 1 \in Dir
        BY VirtMemAssumption DEF Dir
    <2>2. \A p \in KernelPage : Trans(r, 1, p) = Trans(m, 1, p)
        BY <1>8, <2>1, KernelPages
    <2>3. 1..(m.next - 1) \subseteq 1..(r.next - 1)
        BY <1>1, <1>2
    <2> QED BY <1>2, <1>9, <2>2, <2>3 DEF HeapIs
<1> QED BY <1>4, <1>6, <1>7, <1>8, <1>9 DEF Good

\* The copies a fork has made so far, in r: the child's tables there and its
\* contents, where tbl is that of the slot and its first entries are done.
CopiedIn(r, slot, tbl, entry, p) ==
    p \div N < slot \/ (tbl # 0 /\ p \div N = slot /\ p % N < entry)
CopyIn(r, slot, tbl, p) ==
    IF p \div N < slot THEN Trans(r, fork.child, p) ELSE r.tables[tbl][p % N]

\* What a fork has copied behind a step
LEMMA CopiesNext ==
    ASSUME fork'.child = fork.child, loaded' = loaded, expected' = expected,
           \A p \in UserPage : CopiedIn(mem', fork'.slot, fork'.tbl, fork'.entry, p)
               => FindsNext(CopyIn(mem', fork'.slot, fork'.tbl, p), loaded, p)
    PROVE  \A p \in UserPage : Copied(p)' => Finds(CopyOf(p), loaded, p)'
<1> SUFFICES ASSUME NEW p \in UserPage, Copied(p)' PROVE Finds(CopyOf(p), loaded, p)'
    OBVIOUS
<1>1. FindsNext(CopyIn(mem', fork'.slot, fork'.tbl, p), loaded, p)
    BY DEF Copied, CopiedIn
<1>2. CopyOf(p)' = CopyIn(mem', fork'.slot, fork'.tbl, p)
    BY DEF CopyOf, CopyIn, Trans
<1>3. FindsNext(CopyOf(p)', loaded, p)
    BY <1>1, <1>2
<1> QED BY <1>3 DEF FindsNext, Finds

\* And what it has copied before it
LEMMA CopiesNow ==
    ASSUME IInv, fork # NoFork
    PROVE  \A p \in UserPage : CopiedIn(mem, fork.slot, fork.tbl, fork.entry, p)
               => Finds(CopyIn(mem, fork.slot, fork.tbl, p), loaded, p)
<1> SUFFICES ASSUME NEW p \in UserPage, CopiedIn(mem, fork.slot, fork.tbl, fork.entry, p)
             PROVE  Finds(CopyIn(mem, fork.slot, fork.tbl, p), loaded, p)
    OBVIOUS
<1>1. Copied(p) /\ CopyIn(mem, fork.slot, fork.tbl, p) = CopyOf(p)
    BY DEF Copied, CopiedIn, CopyOf, CopyIn
<1> QED BY <1>1 DEF IInv, ForkInv

\* A table for the child
LEMMA ForkTableKeeps ==
    ASSUME IInv, ForkTable
    PROVE  IInv'
<1> DEFINE tbl == mem.next
           m == [Took(mem) EXCEPT !.tables =
                    [t \in DOMAIN @ \cup {tbl} |-> IF t = tbl THEN [i \in 0..(N - 1) |-> 0] ELSE @[t]]]
           at == fork.at
<1>1. /\ fork # NoFork /\ fork.slot < UserSlots /\ fork.tbl = 0 /\ mem.dirs[loaded][fork.slot] # 0
      /\ at < Slots * N /\ mem.next + NewTable(mem, loaded, at) <= LastFrame
      /\ loaded' = loaded /\ created' = created /\ brk' = brk
      /\ content' = content /\ expected' = expected /\ halted' = halted
    BY DEF ForkTable, Forking
<1>a. fork' = [fork EXCEPT !.tbl = tbl, !.window = at, !.entry = 0, !.at = @ + 1]
    BY DEF ForkTable
<1>b. mem' = MapAddr(m, loaded, at, tbl)
    BY DEF ForkTable
<1>c. crossed' = (crossed \/ Crosses(mem, loaded, at))
    BY DEF ForkTable
<1>2. /\ fork.child = created + 1 /\ fork.child \in Dir /\ loaded \in 1..created
      /\ fork.slot \in 0..UserSlots /\ UserSlots \in Nat /\ N \in Nat \ {0} /\ LastFrame \in Nat
      /\ created \in 1..LastDir /\ Born \in 1..LastDir /\ loaded \in 1..Born /\ Born = created + 1
      /\ fork.at \in brk..(Slots * N) /\ fork.at \in Nat /\ brk \in Nat /\ loaded \in Dir
      /\ UserSlots * N <= brk /\ Slots * N \in Nat /\ UserSlots * N \in Nat
      /\ mem.next \in Nat /\ Shape(mem) /\ mem.next # 0
      /\ \A d \in 1..created : d \in Dir
    BY <1>1, ForkFacts, InvFacts, ShapeFacts
<1>3. fork' = [child |-> fork.child, slot |-> fork.slot, tbl |-> tbl,
               window |-> at, entry |-> 0, at |-> at + 1]
    <2>1. fork = [child |-> fork.child, slot |-> fork.slot, tbl |-> fork.tbl,
                  window |-> fork.window, entry |-> fork.entry, at |-> fork.at]
        BY <1>1, ForkFacts
    <2> QED BY <1>a, <2>1
<1>4. /\ fork'.child = fork.child /\ fork'.slot = fork.slot /\ fork'.tbl = tbl
      /\ fork'.window = at /\ fork'.entry = 0 /\ fork'.at = at + 1
    BY <1>3
<1>5. Windows' = {at} /\ Windows = {} /\ fork' # NoFork /\ Born' = Born
    BY <1>1, <1>2, <1>4, ForkGoesOn DEF Windows
<1>6. Good(mem, 0, {}) /\ (~crossed => HeapIs(mem, {}, Born, brk))
    <2>1. Good(mem, fork.tbl, Windows) /\ (~crossed => HeapIs(mem, Windows, Born, brk))
        BY InvFacts DEF IInv, HeapInv
    <2> QED BY <1>1, <1>5, <2>1
<1>7. mem.next <= LastFrame /\ (NewTable(mem, loaded, at) = 1 => mem.next + 1 <= LastFrame)
    BY <1>1, <1>2 DEF NewTable
<1>8. at \in KernelPage /\ at \div N \in Slot
    <2>1. at \in KernelPage
        BY <1>1, <1>2 DEF KernelPage
    <2> QED BY <2>1, KernelPages
<1>9. Shape(m) /\ Adds(mem, m, tbl)
    BY <1>2, <1>7, AddsIs
<1> HIDE DEF m
<1>10. /\ Good(m, tbl, {}) /\ SameUser(mem, m, 0)
       /\ \A k \in 1..LastDir : \A b : HeapIs(mem, {}, k, b) => HeapIs(m, {}, k, b)
    BY <1>6, <1>9, AddsKeeps
<1>11. m.next = mem.next + 1 /\ m.dirs = mem.dirs /\ NewTable(m, loaded, at) = NewTable(mem, loaded, at)
       /\ tbl \in DOMAIN m.tables /\ \A i \in Index : m.tables[tbl][i] = 0
    BY <1>9 DEF Adds, NewTable
<1> HIDE DEF tbl
<1>12. /\ Good(mem', tbl, {at}) /\ SameUser(m, mem', tbl) /\ HeapKept(m, mem', {}, at, tbl)
    <2>1. PICK W \in SUBSET KernelPage : W = {}
        OBVIOUS
    <2>2. tbl \in 0..(m.next - 1) /\ (NewTable(m, loaded, at) = 1 => m.next <= LastFrame)
        BY <1>2, <1>7, <1>11 DEF tbl
    <2>3. Good(m, tbl, W) /\ loaded \in Dir /\ mem' = MapAddr(m, loaded, at, tbl)
        BY <1>b, <1>2, <1>10, <2>1
    <2>4. /\ Good(mem', tbl, W \cup {at}) /\ SameUser(m, mem', tbl) /\ HeapKept(m, mem', W, at, tbl)
        BY <1>8, <2>2, <2>3, MapKernel
    <2>5. W \cup {at} = {at}
        BY <2>1
    <2> QED BY <2>1, <2>4, <2>5
<1>13. TablesInv'
    BY <1>1, <1>4, <1>5, <1>12, TablesNext
<1>14. HeapInv'
    <2>1. ASSUME ~crossed' PROVE HeapIs(mem', {at}, Born, brk)
        <3>1. ~crossed /\ mem.dirs[loaded][at \div N] # 0
            <4>1. ~crossed /\ ~Crosses(mem, loaded, at)
                BY <1>c, <2>1
            <4>2. at >= UserSlots * N
                BY <1>2
            <4> QED BY <1>1, <4>1, <4>2 DEF Crosses
        <3>2. HeapIs(m, {}, Born, brk) /\ at >= brk /\ m.dirs[loaded][at \div N] # 0
            BY <1>2, <1>6, <1>10, <1>11, <3>1
        <3>3. HeapIs(mem', {} \cup {at}, Born, brk)
            BY <1>2, <1>12, <3>2 DEF HeapKept
        <3>4. {} \cup {at} = {at}
            OBVIOUS
        <3> QED BY <3>3, <3>4
    <2>2. halted => crossed
        BY DEF IInv, HeapInv
    <2>3. ~crossed' => HeapIs(mem', Windows', Born', brk')
        BY <1>1, <1>5, <2>1
    <2>4. halted' => crossed'
        BY <1>1, <1>c, <2>2
    <2> QED BY <2>3, <2>4, HeapNext
<1>15. \A d \in Dir, p \in UserPage : Trans(mem', d, p) = Trans(mem, d, p)
    <2> TAKE d \in Dir, p \in UserPage
    <2>1. Trans(m, d, p) = Trans(mem, d, p)
        BY <1>2, <1>10, SameUserPages
    <2>2. Trans(mem', d, p) = Trans(m, d, p)
        BY <1>9, <1>12, SameUserPages
    <2> QED BY <2>1, <2>2
<1>16. KeptInv'
    <2> SUFFICES ASSUME NEW d \in 1..created, NEW p \in UserPage
                 PROVE  FindsNext(Trans(mem', d, p), d, p)
        BY <1>1, KeptNext
    <2>1. Trans(mem', d, p) = Trans(mem, d, p)
        BY <1>2, <1>15
    <2>2. Finds(Trans(mem, d, p), d, p)
        BY DEF IInv, KeptInv
    <2> QED BY <1>1, <2>1, <2>2 DEF Finds, FindsNext
<1>17. ForkInv'
    <2>1. fork' \in [child : {created' + 1}, slot : 0..UserSlots, tbl : Nat,
                     window : Nat, entry : 0..N, at : brk'..(Slots * N)]
        <3>1. at + 1 \in brk..(Slots * N) /\ tbl \in Nat
            BY <1>1, <1>2 DEF tbl
        <3> HIDE DEF at
        <3>2. at \in Nat
            BY <1>2 DEF at
        <3> QED BY <1>1, <1>2, <1>3, <3>1, <3>2
    <2>2. created' + 1 \in Dir
        BY <1>1, <1>2
    <2>3. \A d \in Dir, s \in Slot : s < UserSlots => mem'.dirs[d][s] = mem.dirs[d][s]
        BY <1>11, <1>12 DEF SameUser
    <2>4. \A s \in 0..(UserSlots - 1) : s \in Slot /\ s < UserSlots
        BY VirtMemAssumption DEF Slot
    <2>5. fork.slot \in 0..(UserSlots - 1)
        BY <1>1, <1>2
    <2>6. /\ fork'.slot < UserSlots /\ mem'.dirs[loaded'][fork'.slot] # 0
          /\ fork'.window \in brk'..(fork'.at - 1)
        BY <1>1, <1>2, <1>4, <2>3, <2>4, <2>5
    <2>7. \A i \in fork'.entry..(N - 1) : mem'.tables[fork'.tbl][i] = 0
        <3>1. OfUser(m, tbl, tbl)
            BY <1>2 DEF OfUser, tbl
        <3>2. \A i \in Index : mem'.tables[tbl][i] = 0
            BY <1>11, <1>12, <3>1 DEF SameUser
        <3> QED BY <1>4, <3>2 DEF Index
    <2>8. \A s \in fork'.slot..(UserSlots - 1) : mem'.dirs[fork'.child][s] = 0
        <3>1. \A s \in fork.slot..(UserSlots - 1) : mem.dirs[fork.child][s] = 0
            BY <1>1 DEF IInv, ForkInv
        <3>2. \A s \in fork.slot..(UserSlots - 1) : s \in 0..(UserSlots - 1)
            BY <1>2
        <3> QED BY <1>2, <1>4, <2>3, <2>4, <3>1, <3>2
    <2>9. ASSUME NEW p \in UserPage, CopiedIn(mem', fork'.slot, fork'.tbl, fork'.entry, p)
          PROVE  FindsNext(CopyIn(mem', fork'.slot, fork'.tbl, p), loaded, p)
        <3>1. p % N \in Nat
            BY UserPages DEF Index
        <3>2. p \div N < fork.slot
            BY <1>4, <2>9, <3>1 DEF CopiedIn
        <3>3. CopyIn(mem', fork'.slot, fork'.tbl, p) = CopyIn(mem, fork.slot, fork.tbl, p)
            BY <1>2, <1>4, <1>15, <3>2 DEF CopyIn
        <3>4. Finds(CopyIn(mem, fork.slot, fork.tbl, p), loaded, p)
            BY <1>1, <3>2, CopiesNow DEF CopiedIn
        <3> QED BY <1>1, <3>3, <3>4 DEF Finds, FindsNext
    <2>10. \A p \in UserPage : Copied(p)' => Finds(CopyOf(p), loaded, p)'
        BY <1>1, <1>4, <2>9, CopiesNext
    <2> QED BY <2>1, <2>2, <2>6, <2>7, <2>8, <2>10 DEF ForkInv
<1>18. RestInv'
    <2>1. crossed' \in BOOLEAN
        BY <1>c DEF IInv, RestInv
    <2> QED BY <1>1, <2>1 DEF IInv, RestInv
<1> QED BY <1>13, <1>14, <1>16, <1>17, <1>18 DEF IInv

\* A frame that is nowhere in the tables but at a page of the loaded directory.
OnlyAt(m, f, page) ==
    /\ f \in 1..(m.next - 1) /\ f \notin DOMAIN m.tables
    /\ \A u \in DOMAIN m.tables, j \in Index :
           m.tables[u][j] = f => u = m.dirs[loaded][page \div N] /\ j = page % N

\* A frame that was nowhere is at the page it was mapped at, only.
LEMMA MapOnlyAt ==
    ASSUME NEW m, NEW tbl, NEW W \in SUBSET KernelPage, Good(m, tbl, W), NEW page \in KernelPage,
           loaded \in Dir, NEW f, Fresh(m, f), NEW g \in 0..(m.next - 1), NEW r,
           r = MapAddr(m, loaded, page, g), NewTable(m, loaded, page) = 1 => m.next <= LastFrame
    PROVE  OnlyAt(r, f, page) /\ (g # f => Fresh(r, f))
<1> DEFINE s == page \div N
           n == TableFor(m, loaded, s)
<1>1. s \in Slot /\ page % N \in Index
    BY KernelPages
<1>2. m.dirs[loaded][s] = 0 => m.next <= LastFrame
    BY DEF NewTable
<1>3. Shape(m) /\ m.next \in Nat
    BY ShapeFacts DEF Good
<1>4. Shape(n) /\ n.dirs[loaded][s] # 0
      /\ n.next = m.next + (IF m.dirs[loaded][s] = 0 THEN 1 ELSE 0)
    BY <1>1, <1>2, <1>3, TableForIs
<1>5. Fresh(n, f)
    <2>1. PICK k : k = n
        OBVIOUS
    <2> HIDE DEF n
    <2>2. k = TableFor(m, loaded, s)
        BY <2>1 DEF n
    <2>3. Fresh(k, f)
        BY <1>1, <1>2, <2>2, TableForKeeps
    <2> QED BY <2>1, <2>3
<1>6. r = SetEntry(n, loaded, page, g)
    BY DEF MapAddr
<1> HIDE DEF n
<1>7. g \in 0..(n.next - 1)
    BY <1>3, <1>4
<1>8. Shape(r) /\ SetsPage(n, r, page, g)
    BY <1>1, <1>4, <1>6, <1>7, SetEntryIs
<1>9. Sets(n, r, n.dirs[loaded][s], {page % N}, g) /\ n.dirs[loaded][s] = r.dirs[loaded][s]
    BY <1>1, <1>8 DEF SetsPage, Sets
<1>10. /\ r.next = n.next /\ DOMAIN r.tables = DOMAIN n.tables
       /\ \A u \in DOMAIN n.tables, j \in Index :
              r.tables[u][j] = IF u = r.dirs[loaded][s] /\ j = page % N THEN g ELSE n.tables[u][j]
    BY <1>9 DEF Sets
<1> QED BY <1>5, <1>10 DEF OnlyAt, Fresh

\* And nowhere when that page is unmapped.
LEMMA UnmapOnlyAt ==
    ASSUME NEW m, NEW tbl, NEW W \in SUBSET KernelPage, Good(m, tbl, W), NEW page \in KernelPage,
           loaded \in Dir, NEW f, NEW at \in KernelPage, OnlyAt(m, f, at), NEW r, r = Unmap(m, page)
    PROVE  OnlyAt(r, f, at) /\ (page = at => Fresh(r, f))
<1>1. page \div N \in Slot /\ page % N \in Index /\ at \div N \in Slot
    BY KernelPages
<1>2. Shape(m) /\ m.next \in Nat /\ m.next >= 1
    BY ShapeFacts DEF Good
<1>3. PICK z \in 0..(m.next - 1) : z = 0
    BY <1>2
<1>4. r = SetEntry(m, loaded, page, z)
    BY <1>3 DEF Unmap
<1>5. Shape(r) /\ (SetsPage(m, r, page, z) \/ (r = m /\ m.dirs[loaded][page \div N] = 0))
    BY <1>1, <1>2, <1>4, SetEntryIs
<1>6. f # z
    BY <1>2, <1>3 DEF OnlyAt
<1>7. CASE SetsPage(m, r, page, z)
    <2>1. /\ r.next = m.next /\ DOMAIN r.tables = DOMAIN m.tables
          /\ r.dirs[loaded][at \div N] = m.dirs[loaded][at \div N]
          /\ \A u \in DOMAIN m.tables, j \in Index :
                 r.tables[u][j] = IF u = m.dirs[loaded][page \div N] /\ j = page % N THEN z
                                  ELSE m.tables[u][j]
        BY <1>1, <1>7 DEF SetsPage, Sets
    <2>2. OnlyAt(r, f, at)
        BY <1>6, <2>1 DEF OnlyAt
    <2>3. page = at => Fresh(r, f)
        BY <1>6, <2>1 DEF OnlyAt, Fresh
    <2> QED BY <2>2, <2>3
<1>8. CASE r = m /\ m.dirs[loaded][page \div N] = 0
    <2>1. \A u \in DOMAIN m.tables : u # 0
        BY <1>2, ShapeFacts
    <2> QED BY <1>8, <2>1 DEF OnlyAt, Fresh
<1> QED BY <1>5, <1>7, <1>8

\* r is m with an entry of a table set.
SetsIn(m, r, t, i, f) == r = [m EXCEPT !.tables[t][i] = f]

\* The new table of a fork is of no slot: what it gets shows at no page.
LEMMA NewTableSet ==
    ASSUME NEW m, NEW tbl, NEW W \in SUBSET KernelPage, Good(m, tbl, W), tbl # 0, NEW i \in Index,
           NEW f, Fresh(m, f), loaded \in Dir, NEW r, SetsIn(m, r, tbl, i, f)
    PROVE  /\ Good(r, tbl, W) /\ r.next = m.next
           /\ \A d \in Dir, s \in Slot : r.dirs[d][s] = m.dirs[d][s]
           /\ \A d \in Dir : \A p : p \div N \in Slot /\ p % N \in Index => Trans(r, d, p) = Trans(m, d, p)
           /\ \A j \in Index : r.tables[tbl][j] = IF j = i THEN f ELSE m.tables[tbl][j]
           /\ \A k \in 1..LastDir : \A b : HeapIs(m, W, k, b) => HeapIs(r, W, k, b)
<1>1. Shape(m) /\ tbl \in DOMAIN m.tables /\ \A d \in Dir, s \in Slot : m.dirs[d][s] # tbl
    BY DEF Good, Exclusive
<1>2. f \in 0..(m.next - 1)
    BY <1>1, ShapeFacts DEF Fresh
<1>3. Shape(r) /\ Sets(m, r, tbl, {i}, f)
    <2>1. r = [m EXCEPT !.tables[tbl][i] = f]
        BY DEF SetsIn
    <2> QED BY <1>1, <1>2, <2>1, EntryIs
<1>4. Good(r, tbl, W)
    BY <1>1, <1>3, SetUserKeeps
<1>5. /\ r.next = m.next /\ \A d \in Dir, s \in Slot : r.dirs[d][s] = m.dirs[d][s]
      /\ \A j \in Index : r.tables[tbl][j] = IF j = i THEN f ELSE m.tables[tbl][j]
    BY <1>1, <1>3 DEF Sets
<1>6. ASSUME NEW d \in Dir, NEW p, p \div N \in Slot, p % N \in Index
      PROVE  Trans(r, d, p) = Trans(m, d, p)
    <2>1. Trans(r, d, p) = IF m.dirs[d][p \div N] = tbl /\ p % N \in {i} THEN f ELSE Trans(m, d, p)
        <3> HIDE DEF Trans
        <3> QED BY <1>1, <1>3, <1>6, SetPages
    <2> QED BY <1>1, <1>6, <2>1
<1>7. ASSUME NEW k \in 1..LastDir, NEW b, HeapIs(m, W, k, b) PROVE HeapIs(r, W, k, b)
    <2>1. 1 \in Dir /\ 1..k \subseteq Dir /\ \A s \in KernelSlots : s \in Slot
        BY VirtMemAssumption DEF Dir, Slot, KernelSlots
    <2>2. \A p \in KernelPage : Trans(r, 1, p) = Trans(m, 1, p)
        BY <1>6, <2>1, KernelPages
    <2>3. \A d \in 1..k, s \in KernelSlots : r.dirs[d][s] = r.dirs[1][s]
        <3> TAKE d \in 1..k, s \in KernelSlots
        <3>1. r.dirs[d][s] = m.dirs[d][s] /\ r.dirs[1][s] = m.dirs[1][s]
            BY <1>5, <2>1
        <3> QED BY <1>7, <3>1 DEF HeapIs
    <2> QED BY <1>5, <1>7, <2>2, <2>3 DEF HeapIs
<1> QED BY <1>4, <1>5, <1>6, <1>7

\* r is m with a page mapped to f, for which there are frames.
Maps(m, r, page, f) ==
    /\ r = MapAddr(m, loaded, page, f) /\ f \in 0..(m.next - 1)
    /\ NewTable(m, loaded, page) = 1 => m.next <= LastFrame

\* MapKernel, for such a record
LEMMA MapsKernel ==
    ASSUME NEW m, NEW tbl, NEW W \in SUBSET KernelPage, Good(m, tbl, W), NEW page \in KernelPage,
           loaded \in Dir, NEW f, NEW r, Maps(m, r, page, f)
    PROVE  /\ Good(r, tbl, W \cup {page}) /\ SameUser(m, r, tbl) /\ Shows(m, r, page, f)
           /\ r.next = m.next + NewTable(m, loaded, page) /\ HeapKept(m, r, W, page, f)
  BY MapKernel DEF Maps

\* A frame x and a fresh one, f, are mapped at two pages behind the windows ...
LEMMA MapTwice ==
    ASSUME NEW m, NEW tbl, NEW W \in SUBSET KernelPage, Good(m, tbl, W), loaded \in Dir,
           NEW at \in KernelPage, NEW to \in KernelPage, at < to,
           NEW f, Fresh(m, f), NEW x, x # f, NEW c, Maps(m, c, at, x), NEW b, Maps(c, b, to, f)
    PROVE  /\ Good(b, tbl, W \cup {at} \cup {to}) /\ OnlyAt(b, f, to) /\ SameUser(m, b, tbl)
           /\ Trans(b, loaded, at) = x /\ Trans(b, loaded, to) = f
           /\ \A k \in 1..LastDir, n \in Nat :
                  /\ loaded \in 1..k /\ HeapIs(m, W, k, n) /\ at >= n
                  /\ m.dirs[loaded][at \div N] # 0 /\ m.dirs[loaded][to \div N] # 0
                  => HeapIs(b, W \cup {at} \cup {to}, k, n)
<1>1. at \in Nat /\ to \in Nat /\ at # to /\ at \div N \in Slot /\ to \div N \in Slot
    BY KernelPages
<1>2. PICK V \in SUBSET KernelPage : V = W \cup {at}
    OBVIOUS
<1>3. /\ Good(c, tbl, V) /\ SameUser(m, c, tbl) /\ Shows(m, c, at, x)
      /\ HeapKept(m, c, W, at, x)
    <2>1. /\ Good(c, tbl, W \cup {at}) /\ SameUser(m, c, tbl) /\ Shows(m, c, at, x)
          /\ HeapKept(m, c, W, at, x)
        BY MapsKernel
    <2> QED BY <1>2, <2>1
<1>4. Fresh(c, f)
    BY MapOnlyAt DEF Maps
<1>5. /\ Good(b, tbl, V \cup {to}) /\ SameUser(c, b, tbl) /\ Shows(c, b, to, f)
      /\ HeapKept(c, b, V, to, f)
    <2>1. Good(c, tbl, V)
        BY <1>3
    <2> QED BY <2>1, MapsKernel
<1>6. OnlyAt(b, f, to)
    <2>1. Good(c, tbl, V)
        BY <1>3
    <2> QED BY <1>4, <2>1, MapOnlyAt DEF Maps
<1>7. SameUser(m, b, tbl)
    BY <1>3, <1>5, SameUserAgain
<1>8. Trans(b, loaded, at) = x /\ Trans(b, loaded, to) = f
    <2>1. Trans(b, loaded, at) = Trans(c, loaded, at) /\ Trans(b, loaded, to) = f
        BY <1>1, <1>5 DEF Shows
    <2>2. Trans(c, loaded, at) = x
        BY <1>3 DEF Shows
    <2> QED BY <2>1, <2>2
<1>9. ASSUME NEW k \in 1..LastDir, NEW n \in Nat, loaded \in 1..k, HeapIs(m, W, k, n), at >= n,
             m.dirs[loaded][at \div N] # 0, m.dirs[loaded][to \div N] # 0
      PROVE  HeapIs(b, V \cup {to}, k, n)
    <2>1. HeapIs(c, V, k, n)
        BY <1>2, <1>3, <1>9 DEF HeapKept
    <2>2. c.dirs[loaded][to \div N] # 0 /\ to >= n
        BY <1>1, <1>3, <1>9 DEF Shows
    <2> QED BY <1>5, <1>9, <2>1, <2>2 DEF HeapKept
<1> QED BY <1>2, <1>5, <1>6, <1>7, <1>8, <1>9

\* ... and unmapped again.
LEMMA UnmapTwice ==
    ASSUME NEW m, NEW tbl, NEW W \in SUBSET KernelPage, loaded \in Dir,
           NEW at \in KernelPage, NEW to \in KernelPage, at < to, at \notin W, to \notin W,
           Good(m, tbl, W \cup {at} \cup {to}),
           NEW f, OnlyAt(m, f, to), NEW r, r = Unmap(Unmap(m, at), to)
    PROVE  /\ Good(r, tbl, W) /\ Fresh(r, f) /\ SameUser(m, r, tbl)
           /\ \A k \in 1..LastDir, n \in Nat :
                  loaded \in 1..k /\ HeapIs(m, W \cup {at} \cup {to}, k, n) /\ at >= n
                      => HeapIs(r, W, k, n)
<1>1. at \in Nat /\ to \in Nat /\ at # to
    BY KernelPages
<1>2. PICK V \in SUBSET KernelPage : V = W \cup {at} \cup {to}
    OBVIOUS
<1>3. PICK U \in SUBSET KernelPage : U = W \cup {to}
    OBVIOUS
<1>4. V \ {at} = U /\ U \ {to} = W
    BY <1>1, <1>2, <1>3
<1>5. PICK c : c = Unmap(m, at)
    OBVIOUS
<1>6. /\ Good(c, tbl, U) /\ SameUser(m, c, tbl)
      /\ \A k \in 1..LastDir, n \in Nat :
             loaded \in 1..k /\ HeapIs(m, V, k, n) /\ at >= n => HeapIs(c, U, k, n)
    <2>1. Good(m, tbl, V)
        BY <1>2
    <2>2. /\ Good(c, tbl, V \ {at}) /\ SameUser(m, c, tbl)
          /\ \A k \in 1..LastDir, n \in Nat :
                 loaded \in 1..k /\ HeapIs(m, V, k, n) /\ at >= n => HeapIs(c, V \ {at}, k, n)
        BY <1>5, <2>1, UnmapKernel
    <2> QED BY <1>4, <2>2
<1>7. OnlyAt(c, f, to)
    <2>1. Good(m, tbl, V)
        BY <1>2
    <2> QED BY <1>5, <2>1, UnmapOnlyAt
<1>8. r = Unmap(c, to)
    BY <1>5
<1>9. /\ Good(r, tbl, U \ {to}) /\ SameUser(c, r, tbl)
      /\ \A k \in 1..LastDir, n \in Nat :
             loaded \in 1..k /\ HeapIs(c, U, k, n) /\ to >= n => HeapIs(r, U \ {to}, k, n)
    BY <1>6, <1>8, UnmapKernel
<1>10. Fresh(r, f)
    BY <1>6, <1>7, <1>8, UnmapOnlyAt
<1>11. SameUser(m, r, tbl)
    BY <1>6, <1>9, SameUserAgain
<1>12. ASSUME NEW k \in 1..LastDir, NEW n \in Nat, loaded \in 1..k, HeapIs(m, V, k, n), at >= n
       PROVE  HeapIs(r, W, k, n)
    <2>1. HeapIs(c, U, k, n) /\ to >= n
        BY <1>1, <1>6, <1>12
    <2> QED BY <1>4, <1>9, <1>12, <2>1
<1> QED BY <1>2, <1>4, <1>9, <1>10, <1>11, <1>12

\* There are frames for both.
LEMMA MapsOf ==
    ASSUME NEW m, NEW tbl, NEW W \in SUBSET KernelPage, Good(m, tbl, W), loaded \in Dir,
           NEW at \in KernelPage, NEW to \in KernelPage, NEW x \in 1..(m.next - 1),
           m.next + NewTable(m, loaded, at) + NewTable(m, loaded, to) <= LastFrame
    PROVE  /\ Maps(Took(m), MapAddr(Took(m), loaded, at, x), at, x)
           /\ Maps(MapAddr(Took(m), loaded, at, x),
                   MapAddr(MapAddr(Took(m), loaded, at, x), loaded, to, m.next), to, m.next)
<1>1. Shape(m) /\ m.next \in Nat /\ m.next >= 1 /\ LastFrame \in Nat /\ to \div N \in Slot
    BY ShapeFacts, VirtMemAssumption, KernelPages DEF Good
<1>2. NewTable(m, loaded, at) \in {0, 1} /\ NewTable(m, loaded, to) \in {0, 1}
    BY DEF NewTable
<1>3. m.next <= LastFrame
    BY <1>1, <1>2
<1>4. PICK k : k = Took(m)
    OBVIOUS
<1>5. /\ Shape(k) /\ k.next = m.next + 1 /\ k.dirs = m.dirs /\ Good(k, tbl, W)
      /\ NewTable(k, loaded, at) = NewTable(m, loaded, at)
    BY <1>1, <1>3, <1>4, TookIs, TookKeeps, TookPages
<1>6. PICK c : c = MapAddr(k, loaded, at, x)
    OBVIOUS
<1>7. x \in 0..(k.next - 1) /\ (NewTable(k, loaded, at) = 1 => k.next <= LastFrame)
    BY <1>1, <1>2, <1>5
<1>8. Maps(k, c, at, x)
    BY <1>6, <1>7 DEF Maps
<1>9. Shows(k, c, at, x) /\ c.next = k.next + NewTable(k, loaded, at)
    <2>1. Good(k, tbl, W)
        BY <1>5
    <2> QED BY <1>8, <2>1, MapsKernel
<1>10. NewTable(c, loaded, to) = 1 => NewTable(m, loaded, to) = 1
    BY <1>1, <1>5, <1>9 DEF NewTable, Shows
<1>11. NewTable(c, loaded, to) = 1 => c.next <= LastFrame
    BY <1>1, <1>2, <1>5, <1>9, <1>10
<1>12. m.next \in 0..(c.next - 1)
    BY <1>1, <1>2, <1>5, <1>9
<1>13. Maps(c, MapAddr(c, loaded, to, m.next), to, m.next)
    BY <1>11, <1>12 DEF Maps
<1> QED BY <1>4, <1>6, <1>8, <1>13

\* r is m but for an entry of table tbl, which is f.
CopiesInto(m, r, tbl, W, at, to, i, f) ==
    /\ \A e \in Dir, s \in Slot : s < UserSlots => r.dirs[e][s] = m.dirs[e][s]
    /\ \A e \in Dir, p \in UserPage : Trans(r, e, p) = Trans(m, e, p)
    /\ \A j \in Index : r.tables[tbl][j] = IF j = i THEN f ELSE m.tables[tbl][j]
    /\ \A k \in 1..LastDir, n \in Nat :
           /\ loaded \in 1..k /\ HeapIs(m, W, k, n) /\ at >= n
           /\ m.dirs[loaded][at \div N] # 0 /\ m.dirs[loaded][to \div N] # 0
           => HeapIs(r, W, k, n)

UnmapsBoth(m, r, at, to) == r = Unmap(Unmap(m, at), to)

\* A turn of the inner loop: x is mapped at a page of m, f at the next, both are
\* unmapped again, and entry i of tbl is f.
Turn(m, tbl, W, at, to, f, x, i, b, r) ==
    /\ Good(m, tbl, W) /\ tbl # 0 /\ Fresh(m, f) /\ x # f /\ W \in SUBSET KernelPage
    /\ at \in KernelPage /\ to \in KernelPage /\ at < to /\ at \notin W /\ to \notin W
    /\ \E c, d : /\ Maps(m, c, at, x) /\ Maps(c, b, to, f) /\ UnmapsBoth(b, d, at, to)
               /\ SetsIn(d, r, tbl, i, f)

\* What the child's table gets is nowhere else.
LEMMA CopyFrame ==
    ASSUME loaded \in Dir, NEW i \in Index, NEW m, NEW tbl, NEW W, NEW at, NEW to, NEW f, NEW x,
           NEW b, NEW r, Turn(m, tbl, W, at, to, f, x, i, b, r)
    PROVE  /\ Good(r, tbl, W)
           /\ Trans(b, loaded, at) = x /\ Trans(b, loaded, to) = f
           /\ CopiesInto(m, r, tbl, W, at, to, i, f)
<1>a. Good(m, tbl, W) /\ tbl # 0 /\ Fresh(m, f) /\ x # f /\ at < to /\ at \notin W /\ to \notin W
      /\ W \in SUBSET KernelPage /\ at \in KernelPage /\ to \in KernelPage
    BY DEF Turn
<1>b. PICK c, d : /\ Maps(m, c, at, x) /\ Maps(c, b, to, f) /\ UnmapsBoth(b, d, at, to)
                  /\ SetsIn(d, r, tbl, i, f)
    BY DEF Turn
<1>1. /\ Good(b, tbl, W \cup {at} \cup {to}) /\ OnlyAt(b, f, to) /\ SameUser(m, b, tbl)
      /\ Trans(b, loaded, at) = x /\ Trans(b, loaded, to) = f
      /\ \A k \in 1..LastDir, n \in Nat :
             /\ loaded \in 1..k /\ HeapIs(m, W, k, n) /\ at >= n
             /\ m.dirs[loaded][at \div N] # 0 /\ m.dirs[loaded][to \div N] # 0
             => HeapIs(b, W \cup {at} \cup {to}, k, n)
    BY <1>a, <1>b, MapTwice
<1>2. /\ Good(d, tbl, W) /\ Fresh(d, f) /\ SameUser(b, d, tbl)
      /\ \A k \in 1..LastDir, n \in Nat :
             loaded \in 1..k /\ HeapIs(b, W \cup {at} \cup {to}, k, n) /\ at >= n
                 => HeapIs(d, W, k, n)
    <2>1. d = Unmap(Unmap(b, at), to)
        BY <1>b DEF UnmapsBoth
    <2> QED BY <1>a, <1>1, <2>1, UnmapTwice
<1>3. /\ Good(r, tbl, W)
      /\ \A e \in Dir, s \in Slot : r.dirs[e][s] = d.dirs[e][s]
      /\ \A e \in Dir : \A p : p \div N \in Slot /\ p % N \in Index => Trans(r, e, p) = Trans(d, e, p)
      /\ \A j \in Index : r.tables[tbl][j] = IF j = i THEN f ELSE d.tables[tbl][j]
      /\ \A k \in 1..LastDir : \A n : HeapIs(d, W, k, n) => HeapIs(r, W, k, n)
    BY <1>a, <1>b, <1>2, NewTableSet
<1>4. SameUser(m, d, tbl)
    BY <1>1, <1>2, SameUserAgain
<1>5. \A e \in Dir, s \in Slot : s < UserSlots => r.dirs[e][s] = m.dirs[e][s]
    BY <1>3, <1>4 DEF SameUser
<1>6. \A e \in Dir, p \in UserPage : Trans(r, e, p) = Trans(m, e, p)
    <2> TAKE e \in Dir, p \in UserPage
    <2>1. Trans(r, e, p) = Trans(d, e, p)
        BY <1>3, UserPages
    <2>2. Trans(d, e, p) = Trans(m, e, p)
        BY <1>a, <1>4, SameUserPages DEF Good
    <2> QED BY <2>1, <2>2
<1>7. \A j \in Index : d.tables[tbl][j] = m.tables[tbl][j]
    <2>1. OfUser(m, tbl, tbl) /\ tbl \in DOMAIN m.tables
        BY <1>a DEF OfUser, Good, Exclusive
    <2> QED BY <1>4, <2>1 DEF SameUser
<1>8. \A j \in Index : r.tables[tbl][j] = IF j = i THEN f ELSE m.tables[tbl][j]
    BY <1>3, <1>7
<1>9. ASSUME NEW k \in 1..LastDir, NEW n \in Nat, loaded \in 1..k, HeapIs(m, W, k, n), at >= n,
             m.dirs[loaded][at \div N] # 0, m.dirs[loaded][to \div N] # 0
      PROVE  HeapIs(r, W, k, n)
    <2>1. HeapIs(b, W \cup {at} \cup {to}, k, n)
        BY <1>1, <1>9
    <2>2. HeapIs(d, W, k, n)
        BY <1>2, <1>9, <2>1
    <2> QED BY <1>3, <2>2
<1>10. CopiesInto(m, r, tbl, W, at, to, i, f)
    BY <1>5, <1>6, <1>8, <1>9 DEF CopiesInto
<1> QED BY <1>1, <1>3, <1>10

\* Within a slot
LEMMA SlotFacts ==
    ASSUME IInv, fork # NoFork, fork.tbl # 0
    PROVE  /\ fork.slot \in 0..(UserSlots - 1) /\ fork.slot < UserSlots /\ fork.slot \in Slot
           /\ mem.dirs[loaded][fork.slot] \in DOMAIN mem.tables
           /\ OfUser(mem, fork.tbl, mem.dirs[loaded][fork.slot])
           /\ fork.window \in brk..(fork.at - 1) /\ fork.window < fork.at /\ fork.window \in Nat
           /\ fork.window \in KernelPage /\ Windows = {fork.window}
           /\ \A i \in fork.entry..(N - 1) : mem.tables[fork.tbl][i] = 0
           /\ OfUser(mem, fork.tbl, fork.tbl) /\ fork.tbl \in DOMAIN mem.tables
<1>1. /\ fork.slot < UserSlots /\ mem.dirs[loaded][fork.slot] # 0
      /\ fork.window \in brk..(fork.at - 1)
      /\ \A i \in fork.entry..(N - 1) : mem.tables[fork.tbl][i] = 0
    BY DEF IInv, ForkInv
<1>2. /\ fork.slot \in 0..UserSlots /\ UserSlots \in Nat /\ fork.at \in brk..(Slots * N)
      /\ fork.at \in Nat /\ loaded \in Dir /\ brk \in Nat /\ Shape(mem)
    BY ForkFacts, InvFacts
<1>3. fork.slot \in 0..(UserSlots - 1) /\ fork.slot \in Slot
    BY <1>1, <1>2, VirtMemAssumption DEF Slot
<1>4. mem.dirs[loaded][fork.slot] \in DOMAIN mem.tables
    BY <1>1, <1>2, <1>3, ShapeFacts
<1>5. OfUser(mem, fork.tbl, mem.dirs[loaded][fork.slot]) /\ OfUser(mem, fork.tbl, fork.tbl)
    BY <1>1, <1>2, <1>3 DEF OfUser
<1>6. Windows = {fork.window}
    BY DEF Windows
<1>7. fork.window \in KernelPage
    BY <1>6, InvFacts
<1>8. fork.window < fork.at /\ fork.window \in Nat
    BY <1>1, <1>2
<1>9. fork.tbl \in DOMAIN mem.tables
    BY InvFacts DEF Good, Exclusive
<1> QED BY <1>1, <1>3, <1>4, <1>5, <1>6, <1>7, <1>8, <1>9

\* A copy is in a frame that was taken before.
LEMMA CopyBelow ==
    ASSUME IInv, fork # NoFork, NEW p \in UserPage,
           CopiedIn(mem, fork.slot, fork.tbl, fork.entry, p),
           CopyIn(mem, fork.slot, fork.tbl, p) # 0
    PROVE  CopyIn(mem, fork.slot, fork.tbl, p) \in 1..(mem.next - 1)
<1>1. Shape(mem) /\ mem.next \in Nat /\ Good(mem, fork.tbl, Windows) /\ Windows \in SUBSET KernelPage
      /\ loaded \in Dir /\ fork.child \in Dir
    BY InvFacts, ForkFacts
<1>2. p \div N \in Slot /\ p % N \in Index
    BY UserPages
<1>3. CASE p \div N < fork.slot
    <2>1. CopyIn(mem, fork.slot, fork.tbl, p) = Trans(mem, fork.child, p)
        BY <1>3 DEF CopyIn
    <2>2. Trans(mem, fork.child, p) \in Frame /\ Trans(mem, fork.child, p) < mem.next
        BY <1>1, <2>1, Apart
    <2> QED BY <1>1, <2>1, <2>2, VirtMemAssumption DEF Frame
<1>4. CASE ~(p \div N < fork.slot)
    <2>1. CopyIn(mem, fork.slot, fork.tbl, p) = mem.tables[fork.tbl][p % N] /\ fork.tbl # 0
        BY <1>4 DEF CopyIn, CopiedIn
    <2>2. fork.tbl \in DOMAIN mem.tables /\ OfUser(mem, fork.tbl, fork.tbl)
        BY <2>1, SlotFacts
    <2>3. PICK x : x = mem.tables[fork.tbl][p % N]
        OBVIOUS
    <2>4. PrivateEntry(mem, fork.tbl, Windows, x, fork.tbl, p % N)
        BY <1>1, <1>2, <2>1, <2>2, <2>3, ByEntry DEF Good
    <2>5. x \in Nat
        BY <1>1, <1>2, <2>2, <2>3, ShapeFacts
    <2>6. x < mem.next
        BY <2>4 DEF PrivateEntry
    <2> QED BY <1>1, <2>1, <2>3, <2>5, <2>6
<1> QED BY <1>3, <1>4

\* An entry that is absent stays so.
LEMMA ForkAbsentKeeps ==
    ASSUME IInv, ForkEntry, mem.tables[mem.dirs[loaded][fork.slot]][fork.entry] = 0
    PROVE  IInv'
<1>1. /\ fork # NoFork /\ fork.slot < UserSlots /\ fork.tbl # 0 /\ fork.entry < N
      /\ fork' = [fork EXCEPT !.entry = @ + 1]
      /\ loaded' = loaded /\ created' = created /\ brk' = brk /\ mem' = mem
      /\ content' = content /\ expected' = expected /\ crossed' = crossed /\ halted' = halted
    BY DEF ForkEntry, Forking
<1>2. /\ fork.child = created + 1 /\ fork.child \in Dir /\ loaded \in 1..created
      /\ fork.entry \in 0..N /\ UserSlots \in Nat /\ N \in Nat
    BY <1>1, ForkFacts, InvFacts
<1>3. fork' = [child |-> fork.child, slot |-> fork.slot, tbl |-> fork.tbl,
               window |-> fork.window, entry |-> fork.entry + 1, at |-> fork.at]
    <2>1. fork = [child |-> fork.child, slot |-> fork.slot, tbl |-> fork.tbl,
                  window |-> fork.window, entry |-> fork.entry, at |-> fork.at]
        BY <1>1, ForkFacts
    <2> QED BY <1>1, <2>1
<1>4. /\ fork'.child = fork.child /\ fork'.slot = fork.slot /\ fork'.tbl = fork.tbl
      /\ fork'.window = fork.window /\ fork'.entry = fork.entry + 1 /\ fork'.at = fork.at
    BY <1>3
<1>5. Windows' = Windows /\ fork' # NoFork /\ Born' = Born
    BY <1>1, <1>4, ForkGoesOn DEF Windows
<1>6. TablesInv'
    <2>1. Good(mem, fork.tbl, Windows)
        BY InvFacts
    <2>2. Good(mem', fork'.tbl, Windows')
        BY <1>1, <1>4, <1>5, <2>1
    <2> QED BY <1>1, <2>2, TablesNext
<1>7. HeapInv'
    <2>1. (~crossed => HeapIs(mem, Windows, Born, brk)) /\ (halted => crossed)
        BY DEF IInv, HeapInv
    <2> QED BY <1>1, <1>5, <2>1, HeapNext
<1>8. KeptInv'
    <2> SUFFICES ASSUME NEW d \in 1..created, NEW p \in UserPage
                 PROVE  FindsNext(Trans(mem, d, p), d, p)
        BY <1>1, KeptNext
    <2>1. Finds(Trans(mem, d, p), d, p)
        BY DEF IInv, KeptInv
    <2> QED BY <1>1, <2>1 DEF Finds, FindsNext
<1>9. ForkInv'
    <2>1. fork' \in [child : {created' + 1}, slot : 0..UserSlots, tbl : Nat,
                     window : Nat, entry : 0..N, at : brk'..(Slots * N)]
        <3>1. fork.entry + 1 \in 0..N
            BY <1>1, <1>2
        <3>2. /\ fork.tbl \in Nat /\ fork.window \in Nat /\ fork.slot \in 0..UserSlots
              /\ fork.at \in brk..(Slots * N)
            BY <1>1, ForkFacts
        <3> QED BY <1>1, <1>2, <1>3, <3>1, <3>2
    <2>2. created' + 1 \in Dir
        BY <1>1, <1>2
    <2>3. /\ fork.slot < UserSlots /\ mem.dirs[loaded][fork.slot] # 0
          /\ fork.window \in brk..(fork.at - 1)
          /\ \A i \in fork.entry..(N - 1) : mem.tables[fork.tbl][i] = 0
          /\ \A s \in fork.slot..(UserSlots - 1) : mem.dirs[fork.child][s] = 0
        BY <1>1 DEF IInv, ForkInv
    <2>4. \A i \in fork'.entry..(N - 1) : mem'.tables[fork'.tbl][i] = 0
        BY <1>1, <1>2, <1>4, <2>3
    <2>5. ASSUME NEW p \in UserPage, CopiedIn(mem', fork'.slot, fork'.tbl, fork'.entry, p)
          PROVE  FindsNext(CopyIn(mem', fork'.slot, fork'.tbl, p), loaded, p)
        <3>1. CopyIn(mem', fork'.slot, fork'.tbl, p) = CopyIn(mem, fork.slot, fork.tbl, p)
            BY <1>1, <1>4
        <3>2. CASE CopiedIn(mem, fork.slot, fork.tbl, fork.entry, p)
            <4>1. Finds(CopyIn(mem, fork.slot, fork.tbl, p), loaded, p)
                BY <1>1, <3>2, CopiesNow
            <4> QED BY <1>1, <3>1, <4>1 DEF Finds, FindsNext
        <3>3. CASE ~CopiedIn(mem, fork.slot, fork.tbl, fork.entry, p)
            <4>1. p % N \in Nat /\ fork.slot \in Nat
                BY <1>1, UserPages, ForkFacts DEF Index
            <4>2. p \div N = fork.slot /\ p % N = fork.entry
                BY <1>1, <1>2, <1>4, <2>5, <3>3, <4>1 DEF CopiedIn
            <4>3. CopyIn(mem, fork.slot, fork.tbl, p) = 0
                <5>1. mem.tables[fork.tbl][p % N] = 0
                    BY <1>1, <1>2, <2>3, <4>2
                <5>2. ~(p \div N < fork.slot)
                    BY <4>1, <4>2
                <5> QED BY <5>1, <5>2 DEF CopyIn
            <4>4. Trans(mem, loaded, p) = 0
                BY <2>3, <4>2 DEF Trans
            <4>5. Finds(Trans(mem, loaded, p), loaded, p)
                BY <1>2 DEF IInv, KeptInv
            <4> QED BY <1>1, <3>1, <4>3, <4>4, <4>5 DEF Finds, FindsNext
        <3> QED BY <3>2, <3>3
    <2>6. \A p \in UserPage : Copied(p)' => Finds(CopyOf(p), loaded, p)'
        BY <1>1, <1>4, <2>5, CopiesNext
    <2> QED BY <1>1, <1>4, <2>1, <2>2, <2>3, <2>4, <2>6 DEF ForkInv
<1>10. RestInv'
    BY <1>1 DEF IInv, RestInv
<1> QED BY <1>6, <1>7, <1>8, <1>9, <1>10 DEF IInv

\* The same in the inner loop, where x is the entry.
EntryOf(x) == x = mem.tables[mem.dirs[loaded][fork.slot]][fork.entry]
Twice(x) == MapAddr(MapAddr(Took(mem), loaded, fork.at, x), loaded, fork.at + 1, mem.next)

\* ForkEntry, for an entry that is there.
LEMMA ForkEntryIs ==
    ASSUME ForkEntry, NEW x, EntryOf(x), x # 0
    PROVE  /\ fork # NoFork /\ fork.slot < UserSlots /\ fork.tbl # 0 /\ fork.entry < N
           /\ fork.at + 1 < Slots * N
           /\ mem.next + NewTable(mem, loaded, fork.at) + NewTable(mem, loaded, fork.at + 1) <= LastFrame
           /\ content' = [content EXCEPT ![Trans(Twice(x), loaded, fork.at + 1)] =
                                             content[Trans(Twice(x), loaded, fork.at)]]
           /\ SetsIn(Unmap(Unmap(Twice(x), fork.at), fork.at + 1), mem', fork.tbl, fork.entry, mem.next)
           /\ fork' = [fork EXCEPT !.entry = @ + 1, !.at = @ + 2]
           /\ crossed' = (crossed \/ Crosses(mem, loaded, fork.at) \/ Crosses(mem, loaded, fork.at + 1))
           /\ brk' = brk /\ created' = created /\ loaded' = loaded /\ expected' = expected
           /\ halted' = halted
  BY Zenon DEF ForkEntry, Forking, SetsIn, ChildFrame, Twice, EntryOf

\* The entry is a frame that was taken before.
LEMMA EntryBelow ==
    ASSUME IInv, fork # NoFork, fork.tbl # 0, fork.entry < N,
           NEW x, EntryOf(x), x # 0
    PROVE  x \in 1..(mem.next - 1) /\ fork.entry \in Index
<1>1. PICK t \in DOMAIN mem.tables :
          t = mem.dirs[loaded][fork.slot] /\ OfUser(mem, fork.tbl, t)
    BY SlotFacts
<1>2. PICK i \in Index : i = fork.entry
    BY ForkFacts DEF Index
<1>3. Shape(mem) /\ mem.next \in Nat /\ Good(mem, fork.tbl, Windows)
    BY InvFacts
<1>4. x = mem.tables[t][i]
    BY <1>1, <1>2 DEF EntryOf
<1>5. PrivateEntry(mem, fork.tbl, Windows, x, t, i)
    <2>1. Private(mem, fork.tbl, Windows)
        BY <1>3 DEF Good
    <2>2. OfUser(mem, fork.tbl, t) /\ mem.tables[t][i] # 0
        BY <1>1, <1>4, Zenon
    <2>3. PrivateEntry(mem, fork.tbl, Windows, mem.tables[t][i], t, i)
        BY <2>1, <2>2, ByEntry, Zenon
    <2> QED BY <1>4, <2>3
<1>6. x \in Nat
    BY <1>3, <1>4, ShapeFacts
<1>7. x < mem.next
    BY <1>5 DEF PrivateEntry
<1> QED BY <1>2, <1>3, <1>6, <1>7

\* What the copy of a frame does to the tables and to the contents.
LEMMA ForkCopies ==
    ASSUME IInv, ForkEntry, NEW x, EntryOf(x), x # 0
    PROVE  /\ x \in 1..(mem.next - 1) /\ mem.next \in Frame
           /\ content' = [content EXCEPT ![mem.next] = content[x]]
           /\ Good(mem', fork.tbl, Windows)
           /\ \A e \in Dir, s \in Slot : s < UserSlots => mem'.dirs[e][s] = mem.dirs[e][s]
           /\ \A e \in Dir, p \in UserPage : Trans(mem', e, p) = Trans(mem, e, p)
           /\ \A j \in Index : mem'.tables[fork.tbl][j] =
                                   IF j = fork.entry THEN mem.next ELSE mem.tables[fork.tbl][j]
           /\ ~crossed' => HeapIs(mem', Windows, Born, brk)
<1>1. PICK at : at = fork.at
    OBVIOUS
<1>2. PICK to : to = fork.at + 1
    OBVIOUS
<1>3. PICK f : f = mem.next
    OBVIOUS
<1>4. PICK m : m = Took(mem)
    OBVIOUS
<1>5. PICK c : c = MapAddr(m, loaded, at, x)
    OBVIOUS
<1>6. PICK b : b = MapAddr(c, loaded, to, f)
    OBVIOUS
<1>7. PICK d : d = Unmap(Unmap(b, at), to)
    OBVIOUS
<1>8. /\ fork # NoFork /\ fork.tbl # 0 /\ fork.entry < N /\ to < Slots * N
      /\ mem.next + NewTable(mem, loaded, at) + NewTable(mem, loaded, to) <= LastFrame
      /\ content' = [content EXCEPT ![Trans(b, loaded, to)] = content[Trans(b, loaded, at)]]
      /\ SetsIn(d, mem', fork.tbl, fork.entry, f)
      /\ crossed' = (crossed \/ Crosses(mem, loaded, at) \/ Crosses(mem, loaded, to))
    <2>1. b = Twice(x)
        BY <1>1, <1>2, <1>3, <1>4, <1>5, <1>6, Zenon DEF Twice
    <2>2. d = Unmap(Unmap(Twice(x), fork.at), fork.at + 1)
        BY <1>1, <1>2, <1>7, <2>1, Zenon
    <2>3. /\ fork # NoFork /\ fork.tbl # 0 /\ fork.entry < N /\ fork.at + 1 < Slots * N
          /\ mem.next + NewTable(mem, loaded, fork.at) + NewTable(mem, loaded, fork.at + 1) <= LastFrame
          /\ crossed' = (crossed \/ Crosses(mem, loaded, fork.at) \/ Crosses(mem, loaded, fork.at + 1))
        BY ForkEntryIs, Zenon
    <2>4. /\ content' = [content EXCEPT ![Trans(Twice(x), loaded, fork.at + 1)] =
                                             content[Trans(Twice(x), loaded, fork.at)]]
          /\ SetsIn(Unmap(Unmap(Twice(x), fork.at), fork.at + 1), mem', fork.tbl, fork.entry, mem.next)
        BY ForkEntryIs, Zenon
    <2>5. /\ content' = [content EXCEPT ![Trans(b, loaded, to)] = content[Trans(b, loaded, at)]]
          /\ SetsIn(d, mem', fork.tbl, fork.entry, f)
        BY <1>1, <1>2, <1>3, <2>1, <2>2, <2>4, Zenon
    <2> QED BY <1>1, <1>2, <2>3, <2>5
<1>9. x \in 1..(mem.next - 1) /\ fork.entry \in Index
    BY <1>8, EntryBelow
<1>10. /\ fork.at \in Nat /\ fork.at \in brk..(Slots * N)
       /\ Slots * N \in Nat /\ UserSlots * N \in Nat /\ UserSlots * N <= brk /\ brk \in Nat
       /\ mem.next \in Nat /\ Shape(mem) /\ LastFrame \in Nat /\ loaded \in Dir
       /\ Good(mem, fork.tbl, Windows) /\ Windows \in SUBSET KernelPage
       /\ Born \in 1..LastDir /\ loaded \in 1..Born
    BY <1>8, ForkFacts, InvFacts
<1>11. at \in KernelPage /\ to \in KernelPage /\ at < to /\ at >= brk /\ at >= UserSlots * N
       /\ to >= UserSlots * N /\ at \in Nat /\ to \in Nat
    BY <1>1, <1>2, <1>8, <1>10 DEF KernelPage
<1>12. at \notin Windows /\ to \notin Windows
    <2>1. Windows = {fork.window} /\ fork.window < fork.at /\ fork.window \in Nat
        BY <1>8, SlotFacts
    <2> QED BY <1>1, <1>2, <1>11, <2>1
<1>13. f <= LastFrame
    BY <1>3, <1>8, <1>10 DEF NewTable
<1>14. Maps(m, c, at, x) /\ Maps(c, b, to, f)
    <2>1. /\ Maps(Took(mem), MapAddr(Took(mem), loaded, at, x), at, x)
          /\ Maps(MapAddr(Took(mem), loaded, at, x),
                   MapAddr(MapAddr(Took(mem), loaded, at, x), loaded, to, mem.next), to, mem.next)
        BY <1>8, <1>9, <1>10, <1>11, MapsOf
    <2> QED BY <1>3, <1>4, <1>5, <1>6, <2>1, Zenon
<1>15. /\ Good(m, fork.tbl, Windows) /\ Fresh(m, f) /\ m.dirs = mem.dirs /\ m.tables = mem.tables
       /\ \A e, p : Trans(m, e, p) = Trans(mem, e, p)
       /\ \A W, k, n : HeapIs(mem, W, k, n) => HeapIs(m, W, k, n)
    BY <1>3, <1>4, <1>10, <1>13, TookIs, TookKeeps, TookPages
<1>16. x # f
    BY <1>3, <1>9, <1>10
<1>17. PICK W \in SUBSET KernelPage : W = Windows
    BY <1>10
<1>18. PICK tbl : tbl = fork.tbl
    OBVIOUS
<1>19. PICK i \in Index : i = fork.entry
    BY <1>9
<1>20. /\ Good(mem', tbl, W) /\ Trans(b, loaded, at) = x /\ Trans(b, loaded, to) = f
       /\ CopiesInto(m, mem', tbl, W, at, to, i, f)
    <2>1. Good(m, tbl, W) /\ Fresh(m, f)
        BY <1>15, <1>17, <1>18
    <2>2. SetsIn(d, mem', tbl, i, f) /\ tbl # 0
        BY <1>8, <1>18, <1>19
    <2>3. UnmapsBoth(b, d, at, to)
        BY <1>7 DEF UnmapsBoth
    <2>4. at \notin W /\ to \notin W
        BY <1>12, <1>17
    <2>5. Turn(m, tbl, W, at, to, f, x, i, b, mem')
        BY <1>11, <1>14, <1>16, <2>1, <2>2, <2>3, <2>4 DEF Turn
    <2> QED BY <1>10, <2>5, CopyFrame
<1>21. content' = [content EXCEPT ![f] = content[x]]
    BY <1>8, <1>20
<1>22. ASSUME ~crossed' PROVE HeapIs(mem', W, Born, brk)
    <2>1. ~crossed /\ ~Crosses(mem, loaded, at) /\ ~Crosses(mem, loaded, to)
        BY <1>8, <1>22
    <2>2. mem.dirs[loaded][at \div N] # 0 /\ mem.dirs[loaded][to \div N] # 0
        BY <1>8, <1>11, <2>1 DEF Crosses
    <2>3. HeapIs(m, W, Born, brk)
        BY <1>15, <1>17, <2>1 DEF IInv, HeapInv
    <2> QED BY <1>10, <1>11, <1>15, <1>20, <2>2, <2>3 DEF CopiesInto
<1>23. f \in Frame
    <2>1. f >= 1
        BY <1>3, <1>10, ShapeFacts
    <2> QED BY <1>3, <1>10, <1>13, <2>1 DEF Frame
<1>24. /\ \A e \in Dir, s \in Slot : s < UserSlots => mem'.dirs[e][s] = mem.dirs[e][s]
       /\ \A e \in Dir, p \in UserPage : Trans(mem', e, p) = Trans(mem, e, p)
       /\ \A j \in Index : mem'.tables[tbl][j] = IF j = i THEN f ELSE mem.tables[tbl][j]
    BY <1>15, <1>20 DEF CopiesInto
<1> QED BY <1>3, <1>9, <1>17, <1>18, <1>19, <1>20, <1>21, <1>22, <1>23, <1>24

\* A frame is copied: nobody sees the new one yet, and the child's table has what
\* the parent's has.
LEMMA ForkCopyKeeps ==
    ASSUME IInv, ForkEntry, NEW x, EntryOf(x), x # 0
    PROVE  IInv'
<1>1. /\ fork # NoFork /\ fork.slot < UserSlots /\ fork.tbl # 0 /\ fork.entry < N
      /\ fork.at + 1 < Slots * N
      /\ loaded' = loaded /\ created' = created /\ brk' = brk
      /\ expected' = expected /\ halted' = halted
    BY ForkEntryIs, Zenon
<1>a. fork' = [fork EXCEPT !.entry = @ + 1, !.at = @ + 2]
    BY ForkEntryIs, Zenon
<1>2. crossed' \in BOOLEAN /\ (crossed => crossed')
    <2>1. crossed' = (crossed \/ Crosses(mem, loaded, fork.at) \/ Crosses(mem, loaded, fork.at + 1))
        BY ForkEntryIs, Zenon
    <2> QED BY <2>1
<1>3. PICK f : f = mem.next
    OBVIOUS
<1>4. /\ x \in 1..(mem.next - 1) /\ f \in Frame
      /\ content' = [content EXCEPT ![f] = content[x]]
      /\ Good(mem', fork.tbl, Windows)
      /\ \A e \in Dir, s \in Slot : s < UserSlots => mem'.dirs[e][s] = mem.dirs[e][s]
      /\ \A e \in Dir, p \in UserPage : Trans(mem', e, p) = Trans(mem, e, p)
      /\ \A j \in Index : mem'.tables[fork.tbl][j] =
                              IF j = fork.entry THEN f ELSE mem.tables[fork.tbl][j]
      /\ ~crossed' => HeapIs(mem', Windows, Born, brk)
    BY <1>3, ForkCopies
<1>5. /\ fork.child = created + 1 /\ fork.child \in Dir /\ loaded \in 1..created /\ loaded \in Dir
      /\ fork.entry \in 0..N /\ UserSlots \in Nat /\ N \in Nat /\ Slots * N \in Nat
      /\ fork.at \in Nat /\ fork.at \in brk..(Slots * N) /\ brk \in Nat /\ LastFrame \in Nat
      /\ \A d \in 1..created : d \in Dir
    BY <1>1, ForkFacts, InvFacts
<1>6. fork' = [child |-> fork.child, slot |-> fork.slot, tbl |-> fork.tbl,
               window |-> fork.window, entry |-> fork.entry + 1, at |-> fork.at + 2]
    <2>1. fork = [child |-> fork.child, slot |-> fork.slot, tbl |-> fork.tbl,
                  window |-> fork.window, entry |-> fork.entry, at |-> fork.at]
        BY <1>1, ForkFacts
    <2> QED BY <1>a, <2>1
<1>7. /\ fork'.child = fork.child /\ fork'.slot = fork.slot /\ fork'.tbl = fork.tbl
      /\ fork'.window = fork.window /\ fork'.entry = fork.entry + 1 /\ fork'.at = fork.at + 2
    BY <1>6
<1>8. Windows' = Windows /\ fork' # NoFork /\ Born' = Born
    BY <1>1, <1>7, ForkGoesOn DEF Windows
<1>9. TablesInv'
    <2>1. Good(mem', fork'.tbl, Windows')
        BY <1>4, <1>7, <1>8
    <2> QED BY <1>1, <2>1, TablesNext
<1>10. HeapInv'
    <2>1. halted => crossed
        BY DEF IInv, HeapInv
    <2>2. ~crossed' => HeapIs(mem', Windows', Born', brk')
        BY <1>1, <1>4, <1>8
    <2>3. halted' => crossed'
        BY <1>1, <1>2, <2>1
    <2> QED BY <2>2, <2>3, HeapNext
\* The contents of frames that were taken before stay.
<1>11. /\ \A y \in 1..(mem.next - 1) : content'[y] = content[y]
       /\ content'[f] = content[x] /\ content' \in [Frame -> Value]
    <2>1. content \in [Frame -> Value]
        BY DEF IInv, RestInv
    <2>2. mem.next \in Nat
        BY InvFacts
    <2>3. x \in Frame
        BY <1>3, <1>4, <1>5, <2>2 DEF Frame
    <2>4. ASSUME NEW y \in 1..(mem.next - 1) PROVE content'[y] = content[y]
        <3>1. y \in Frame /\ y # f
            BY <1>3, <1>4, <1>5, <2>2 DEF Frame
        <3> QED BY <1>4, <2>1, <3>1
    <2> QED BY <1>4, <2>1, <2>3, <2>4
<1>12. ASSUME NEW y, y = 0 \/ y \in 1..(mem.next - 1), NEW d, NEW p, Finds(y, d, p)
       PROVE  FindsNext(y, d, p)
    BY <1>1, <1>11, <1>12 DEF Finds, FindsNext
<1>13. KeptInv'
    <2> SUFFICES ASSUME NEW d \in 1..created, NEW p \in UserPage
                 PROVE  FindsNext(Trans(mem', d, p), d, p)
        BY <1>1, KeptNext
    <2>1. PICK y : y = Trans(mem, d, p)
        OBVIOUS
    <2>2. Finds(y, d, p)
        BY <2>1 DEF IInv, KeptInv
    <2>3. y # 0 => y \in 1..(mem.next - 1)
        <3>1. y # 0 => y \in Frame /\ y < mem.next
            BY <1>5, <2>1, InvFacts, Apart
        <3> QED BY <3>1, InvFacts, <1>5 DEF Frame
    <2>4. FindsNext(y, d, p)
        BY <1>12, <2>2, <2>3
    <2>5. Trans(mem', d, p) = y
        BY <1>4, <1>5, <2>1
    <2> QED BY <2>4, <2>5
<1>14. ForkInv'
    <2>1. fork' \in [child : {created' + 1}, slot : 0..UserSlots, tbl : Nat,
                     window : Nat, entry : 0..N, at : brk'..(Slots * N)]
        <3>1. fork.entry + 1 \in 0..N /\ fork.at + 2 \in brk..(Slots * N)
            BY <1>1, <1>5
        <3>2. fork.tbl \in Nat /\ fork.window \in Nat /\ fork.slot \in 0..UserSlots
            BY <1>1, ForkFacts
        <3> QED BY <1>1, <1>5, <1>6, <3>1, <3>2
    <2>2. created' + 1 \in Dir
        BY <1>1, <1>5
    <2>3. /\ mem.dirs[loaded][fork.slot] # 0
          /\ fork.window \in brk..(fork.at - 1)
          /\ \A i \in fork.entry..(N - 1) : mem.tables[fork.tbl][i] = 0
          /\ \A s \in fork.slot..(UserSlots - 1) : mem.dirs[fork.child][s] = 0
        BY <1>1 DEF IInv, ForkInv
    <2>4. /\ fork.slot \in Slot /\ fork.slot \in Nat
          /\ \A s \in fork.slot..(UserSlots - 1) : s \in Slot /\ s < UserSlots
        <3>1. fork.slot \in 0..UserSlots
            BY <1>1, ForkFacts
        <3> QED BY <1>1, <3>1, VirtMemAssumption DEF Slot
    <2>5. /\ fork'.slot < UserSlots /\ mem'.dirs[loaded'][fork'.slot] # 0
          /\ fork'.window \in brk'..(fork'.at - 1)
        <3>1. fork.window \in brk..(fork.at + 2 - 1)
            BY <1>5, <2>3
        <3>2. mem'.dirs[loaded][fork.slot] # 0
            BY <1>1, <1>4, <1>5, <2>3, <2>4
        <3>3. fork'.slot < UserSlots /\ mem'.dirs[loaded'][fork'.slot] # 0
            BY <1>1, <1>7, <3>2, Zenon
        <3>4. fork'.window \in brk'..(fork'.at - 1)
            <4>1. fork'.window = fork.window /\ brk' = brk /\ fork'.at - 1 = fork.at + 2 - 1
                BY <1>1, <1>5, <1>7
            <4> QED BY <3>1, <4>1
        <3> QED BY <3>3, <3>4
    <2>6. \A i \in fork'.entry..(N - 1) : mem'.tables[fork'.tbl][i] = 0
        <3>1. ASSUME NEW i \in (fork.entry + 1)..(N - 1) PROVE mem'.tables[fork.tbl][i] = 0
            <4>1. i \in Index /\ i # fork.entry /\ i \in fork.entry..(N - 1)
                BY <1>5 DEF Index
            <4> QED BY <1>4, <2>3, <4>1
        <3> QED BY <1>7, <3>1
    <2>7. \A s \in fork'.slot..(UserSlots - 1) : mem'.dirs[fork'.child][s] = 0
        BY <1>4, <1>5, <1>7, <2>3, <2>4
    <2>8. ASSUME NEW p \in UserPage, CopiedIn(mem', fork'.slot, fork'.tbl, fork'.entry, p)
          PROVE  FindsNext(CopyIn(mem', fork'.slot, fork'.tbl, p), loaded, p)
        <3>1. p % N \in Nat /\ p % N \in Index /\ p \div N \in Nat
            BY UserPages, VirtMemAssumption DEF Index, Slot
        <3>2. CASE CopiedIn(mem, fork.slot, fork.tbl, fork.entry, p)
            <4>1. PICK y : y = CopyIn(mem, fork.slot, fork.tbl, p)
                OBVIOUS
            <4>2. Finds(y, loaded, p) /\ (y # 0 => y \in 1..(mem.next - 1))
                BY <1>1, <3>2, <4>1, CopiesNow, CopyBelow
            <4>3. FindsNext(y, loaded, p)
                BY <1>12, <4>2
            <4>4. CopyIn(mem', fork'.slot, fork'.tbl, p) = y
                <5>1. CASE p \div N < fork.slot
                    BY <1>4, <1>5, <1>7, <4>1, <5>1 DEF CopyIn
                <5>2. CASE ~(p \div N < fork.slot)
                    <6>1. p % N # fork.entry
                        BY <1>5, <3>1, <3>2, <5>2 DEF CopiedIn
                    <6>2. mem'.tables[fork.tbl][p % N] = mem.tables[fork.tbl][p % N]
                        BY <1>4, <3>1, <6>1
                    <6> QED BY <1>7, <4>1, <5>2, <6>2 DEF CopyIn
                <5> QED BY <5>1, <5>2
            <4> QED BY <4>3, <4>4
        <3>3. CASE ~CopiedIn(mem, fork.slot, fork.tbl, fork.entry, p)
            <4>1. p \div N = fork.slot /\ p % N = fork.entry
                BY <1>1, <1>5, <1>7, <2>4, <2>8, <3>1, <3>3 DEF CopiedIn
            <4>2. CopyIn(mem', fork'.slot, fork'.tbl, p) = f
                <5>1. ~(p \div N < fork.slot)
                    BY <2>4, <4>1
                <5>2. mem'.tables[fork.tbl][p % N] = f
                    BY <1>4, <3>1, <4>1
                <5> QED BY <1>7, <5>1, <5>2 DEF CopyIn
            <4>3. Trans(mem, loaded, p) = x
                BY <2>3, <4>1 DEF Trans, EntryOf
            <4>4. Finds(x, loaded, p)
                BY <1>5, <4>3 DEF IInv, KeptInv
            <4>5. f # 0
                BY <1>4 DEF Frame
            <4> QED BY <1>1, <1>11, <4>2, <4>4, <4>5 DEF Finds, FindsNext
        <3> QED BY <3>2, <3>3
    <2>9. \A p \in UserPage : Copied(p)' => Finds(CopyOf(p), loaded, p)'
        BY <1>1, <1>7, <2>8, CopiesNext
    <2> QED BY <2>1, <2>2, <2>5, <2>6, <2>7, <2>9 DEF ForkInv
<1>15. RestInv'
    BY <1>1, <1>2, <1>11 DEF IInv, RestInv
<1> QED BY <1>9, <1>10, <1>13, <1>14, <1>15 DEF IInv

-----------------------------------------------------------------------------
(* The table of the child is complete                                      *)

\* r is m with table t in slot s of directory c.
Hangs(m, r, c, s, t) ==
    /\ r.next = m.next /\ r.tables = m.tables
    /\ \A e \in Dir, q \in Slot : r.dirs[e][q] = IF e = c /\ q = s THEN t ELSE m.dirs[e][q]

\* What the code does to the record of the page tables is that.
LEMMA HangsIs ==
    ASSUME NEW m, Shape(m), NEW c \in Dir, NEW s \in Slot, NEW t \in DOMAIN m.tables, NEW r,
           r = [m EXCEPT !.dirs[c][s] = t]
    PROVE  Shape(r) /\ Hangs(m, r, c, s, t)
<1> DEFINE D == [m.dirs EXCEPT ![c][s] = t]
<1>1. m = [dirs |-> m.dirs, tables |-> m.tables, next |-> m.next] /\ m.dirs \in [Dir -> [Slot -> Nat]]
    BY DEF Shape
<1>2. r = [dirs |-> D, tables |-> m.tables, next |-> m.next]
    <2>1. r = [m EXCEPT !.dirs = D]
        OBVIOUS
    <2> HIDE DEF D
    <2> QED BY <1>1, <2>1
<1>3. t \in Nat
    BY ShapeFacts
<1>4. D \in [Dir -> [Slot -> Nat]]
    BY <1>1, <1>3
<1>5. \A e \in Dir, q \in Slot : D[e][q] = IF e = c /\ q = s THEN t ELSE m.dirs[e][q]
    BY <1>1
<1> HIDE DEF D
<1>6. r.dirs = D /\ r.tables = m.tables /\ r.next = m.next
    BY <1>2
<1>7. \A e \in Dir, q \in Slot : r.dirs[e][q] \in {0} \cup DOMAIN r.tables
    <2> SUFFICES ASSUME NEW e \in Dir, NEW q \in Slot
                 PROVE  D[e][q] \in {0} \cup DOMAIN m.tables
        BY <1>6
    <2>1. m.dirs[e][q] \in {0} \cup DOMAIN m.tables
        BY ShapeFacts
    <2> QED BY <1>5, <2>1
<1>8. Shape(r)
    BY <1>2, <1>4, <1>6, <1>7 DEF Shape
<1>9. Hangs(m, r, c, s, t)
    BY <1>5, <1>6 DEF Hangs
<1> QED BY <1>8, <1>9

\* The table that was under way is the child's and no other's.
LEMMA HangsKeeps ==
    ASSUME NEW m, NEW tbl, tbl # 0, Good(m, tbl, {}), NEW c \in Dir, NEW s \in Slot, s < UserSlots,
           m.dirs[c][s] = 0, NEW r, Shape(r), Hangs(m, r, c, s, tbl)
    PROVE  /\ Good(r, 0, {})
           /\ \A k \in 1..LastDir : \A b : HeapIs(m, {}, k, b) => HeapIs(r, {}, k, b)
<1>1. \A e \in Dir, q \in Slot : r.dirs[e][q] = IF e = c /\ q = s THEN tbl ELSE m.dirs[e][q]
    BY DEF Hangs
<1>2. r.tables = m.tables /\ r.next = m.next
    BY DEF Hangs
<1>3. \A d \in Dir, q \in Slot : m.dirs[d][q] # tbl
    BY DEF Good, Exclusive
<1>4. Exclusive(r, 0)
    <2> SUFFICES ASSUME NEW d \in Dir, NEW e \in Dir, NEW q \in Slot, NEW p \in Slot,
                        r.dirs[d][q] # 0, r.dirs[d][q] = r.dirs[e][p]
                 PROVE  q = p /\ (q < UserSlots => d = e)
        BY DEF Exclusive
    <2>1. CASE d = c /\ q = s
        BY <1>1, <1>3, <2>1
    <2>2. CASE ~(d = c /\ q = s)
        <3>1. m.dirs[d][q] # 0 /\ m.dirs[d][q] = m.dirs[e][p]
            BY <1>1, <1>3, <2>2
        <3> QED BY <3>1 DEF Good, Exclusive
    <2> QED BY <2>1, <2>2
<1>5. \A t : OfUser(r, 0, t) => OfUser(m, tbl, t)
    <2> SUFFICES ASSUME NEW t, OfUser(r, 0, t) PROVE OfUser(m, tbl, t)
        OBVIOUS
    <2>1. t # 0
        BY DEF OfUser
    <2>2. PICK d \in Dir, q \in Slot : q < UserSlots /\ r.dirs[d][q] = t
        BY <2>1 DEF OfUser
    <2>3. t = tbl \/ m.dirs[d][q] = t
        BY <1>1, <2>2
    <2> QED BY <2>1, <2>2, <2>3 DEF OfUser
<1>6. Private(r, 0, {})
    <2>1. Private(m, tbl, {})
        BY DEF Good
    <2>2. \A u, j : ~AtWindow(m, {}, u, j)
        BY DEF AtWindow
    <2> QED BY <1>2, <1>5, <2>1, <2>2 DEF Private
<1>7. ASSUME NEW k \in 1..LastDir, NEW b, HeapIs(m, {}, k, b) PROVE HeapIs(r, {}, k, b)
    <2>1. LastDir \in Nat /\ UserSlots \in Nat /\ Slots \in Nat
        BY VirtMemAssumption
    <2>2. 1 \in Dir /\ \A d \in 1..k : d \in Dir
        BY <2>1 DEF Dir
    <2>3. \A q \in KernelSlots : q \in Slot /\ q # s
        BY <2>1 DEF KernelSlots, Slot
    <2>4. \A d \in 1..k, q \in KernelSlots : r.dirs[d][q] = m.dirs[d][q] /\ r.dirs[1][q] = m.dirs[1][q]
        BY <1>1, <2>2, <2>3
    <2>5. \A d \in 1..k, q \in KernelSlots : m.dirs[d][q] = m.dirs[1][q]
        BY <1>7 DEF HeapIs
    <2>6. \A d \in 1..k, q \in KernelSlots : r.dirs[d][q] = r.dirs[1][q]
        BY <2>4, <2>5
    <2>7. \A p \in KernelPage : Trans(r, 1, p) = Trans(m, 1, p)
        <3> TAKE p \in KernelPage
        <3>1. p \div N \in KernelSlots
            BY KernelPages
        <3>2. r.dirs[1][p \div N] = m.dirs[1][p \div N]
            BY <1>1, <2>2, <2>3, <3>1
        <3> QED BY <1>2, <3>2 DEF Trans
    <2> QED BY <1>2, <1>7, <2>6, <2>7 DEF HeapIs
<1> QED BY <1>4, <1>6, <1>7 DEF Good

\* virt_mm_fork_dir at the end of a table: its window goes, the child has it.
LEMMA ForkTableEndKeeps ==
    ASSUME IInv, ForkTableEnd
    PROVE  IInv'
<1> DEFINE c == fork.child
           s == fork.slot
           tbl == fork.tbl
<1>1. /\ fork # NoFork /\ fork.slot < UserSlots /\ fork.tbl # 0 /\ fork.entry = N
      /\ fork' = [fork EXCEPT !.slot = @ + 1, !.tbl = 0]
      /\ loaded' = loaded /\ created' = created /\ brk' = brk
      /\ content' = content /\ expected' = expected /\ crossed' = crossed /\ halted' = halted
    BY DEF ForkTableEnd, Forking
<1>2. /\ fork.child = created + 1 /\ fork.child \in Dir /\ loaded \in 1..created /\ loaded \in Dir
      /\ fork.child # loaded
      /\ fork.slot \in 0..UserSlots /\ UserSlots \in Nat /\ N \in Nat
      /\ Born \in 1..LastDir /\ loaded \in 1..Born /\ brk \in Nat /\ Shape(mem)
      /\ \A d \in 1..created : d \in Dir /\ d # fork.child
    BY <1>1, ForkFacts, InvFacts
<1>3. fork' = [child |-> fork.child, slot |-> fork.slot + 1, tbl |-> 0,
               window |-> fork.window, entry |-> fork.entry, at |-> fork.at]
    <2>1. fork = [child |-> fork.child, slot |-> fork.slot, tbl |-> fork.tbl,
                  window |-> fork.window, entry |-> fork.entry, at |-> fork.at]
        BY <1>1, ForkFacts
    <2> QED BY <1>1, <2>1
<1>4. fork'.child = fork.child /\ fork'.slot = fork.slot + 1 /\ fork'.tbl = 0
    BY <1>3
<1>5. Windows' = {} /\ fork' # NoFork /\ Born' = Born
    BY <1>1, <1>4, ForkGoesOn DEF Windows
<1>6. /\ fork.slot \in Slot /\ fork.slot \in 0..(UserSlots - 1)
      /\ Windows = {fork.window} /\ fork.window \in KernelPage /\ fork.window >= brk
      /\ fork.tbl \in DOMAIN mem.tables /\ OfUser(mem, fork.tbl, fork.tbl)
      /\ mem.dirs[c][s] = 0 /\ mem.dirs[c] = mem.dirs[fork.child]
    <2>1. /\ fork.slot \in Slot /\ fork.slot \in 0..(UserSlots - 1) /\ Windows = {fork.window}
          /\ fork.window \in KernelPage /\ fork.window \in brk..(fork.at - 1)
          /\ fork.tbl \in DOMAIN mem.tables /\ OfUser(mem, fork.tbl, fork.tbl)
        BY <1>1, SlotFacts
    <2>2. fork.window >= brk
        BY <1>2, <2>1
    <2>3. \A q \in fork.slot..(UserSlots - 1) : mem.dirs[fork.child][q] = 0
        BY <1>1 DEF IInv, ForkInv
    <2>4. fork.slot \in fork.slot..(UserSlots - 1)
        BY <1>2, <2>1
    <2> QED BY <2>1, <2>2, <2>3, <2>4
\* The window goes.
<1>7. PICK m : m = Unmap(mem, fork.window)
    OBVIOUS
<1>8. mem' = [m EXCEPT !.dirs[c][s] = tbl]
    BY <1>7 DEF ForkTableEnd, WindowGoes
<1>9. /\ Good(m, tbl, {}) /\ SameUser(mem, m, tbl)
      /\ ~crossed => HeapIs(m, {}, Born, brk)
    <2>1. PICK W \in SUBSET KernelPage : W = Windows
        BY InvFacts
    <2>2. Good(mem, tbl, W) /\ (~crossed => HeapIs(mem, W, Born, brk))
        BY <2>1, InvFacts DEF IInv, HeapInv
    <2>3. /\ Good(m, tbl, W \ {fork.window}) /\ SameUser(mem, m, tbl)
          /\ \A k \in 1..LastDir, b \in Nat :
                 loaded \in 1..k /\ HeapIs(mem, W, k, b) /\ fork.window >= b
                     => HeapIs(m, W \ {fork.window}, k, b)
        <3> HIDE DEF tbl
        <3> QED BY <1>2, <1>6, <1>7, <2>2, UnmapKernel
    <2>4. W \ {fork.window} = {}
        BY <1>6, <2>1
    <2> QED BY <1>2, <1>6, <2>2, <2>3, <2>4
<1>10. /\ m.dirs[c][s] = 0 /\ tbl \in DOMAIN m.tables /\ Shape(m)
       /\ \A i \in Index : m.tables[tbl][i] = mem.tables[tbl][i]
       /\ \A d \in Dir, q \in Slot : q < UserSlots => m.dirs[d][q] = mem.dirs[d][q]
    BY <1>1, <1>2, <1>6, <1>9 DEF SameUser, Good
\* The child has the table.
<1>11. Shape(mem') /\ Hangs(m, mem', c, s, tbl)
    <2>1. c \in Dir /\ s \in Slot
        BY <1>2, <1>6
    <2> HIDE DEF c, s, tbl
    <2> QED BY <1>8, <1>10, <2>1, HangsIs
<1>12. Good(mem', 0, {}) /\ (~crossed => HeapIs(mem', {}, Born, brk))
    <2>1. c \in Dir /\ s \in Slot /\ s < UserSlots /\ tbl # 0
        BY <1>1, <1>2, <1>6
    <2> HIDE DEF c, s, tbl
    <2> QED BY <1>2, <1>9, <1>10, <1>11, <2>1, HangsKeeps
<1>13. TablesInv'
    BY <1>1, <1>4, <1>5, <1>12, TablesNext
<1>14. HeapInv'
    <2>1. halted => crossed
        BY DEF IInv, HeapInv
    <2> QED BY <1>1, <1>5, <1>12, <2>1, HeapNext
<1>15. /\ \A e \in Dir, q \in Slot :
              mem'.dirs[e][q] = IF e = c /\ q = s THEN tbl ELSE m.dirs[e][q]
       /\ mem'.tables = m.tables
    BY <1>11 DEF Hangs
<1>16. ASSUME NEW d \in Dir, NEW p \in UserPage, ~(d = c /\ p \div N = s)
       PROVE  Trans(mem', d, p) = Trans(mem, d, p)
    <2>1. p \div N \in Slot
        BY UserPages
    <2>2. mem'.dirs[d][p \div N] = m.dirs[d][p \div N]
        BY <1>15, <1>16, <2>1
    <2>3. Trans(mem', d, p) = Trans(m, d, p)
        BY <1>15, <2>2 DEF Trans
    <2>4. Trans(m, d, p) = Trans(mem, d, p)
        BY <1>2, <1>9, SameUserPages
    <2> QED BY <2>3, <2>4
<1>17. ASSUME NEW p \in UserPage, p \div N = s
       PROVE  Trans(mem', c, p) = mem.tables[tbl][p % N]
    <2>1. p % N \in Index
        BY UserPages
    <2>2. mem'.dirs[c][p \div N] = tbl
        BY <1>2, <1>6, <1>15, <1>17
    <2> QED BY <1>1, <1>10, <1>15, <2>1, <2>2 DEF Trans
<1>18. KeptInv'
    <2> SUFFICES ASSUME NEW d \in 1..created, NEW p \in UserPage
                 PROVE  FindsNext(Trans(mem', d, p), d, p)
        BY <1>1, KeptNext
    <2>1. Trans(mem', d, p) = Trans(mem, d, p)
        BY <1>2, <1>16
    <2>2. Finds(Trans(mem, d, p), d, p)
        BY DEF IInv, KeptInv
    <2> QED BY <1>1, <2>1, <2>2 DEF Finds, FindsNext
<1>19. ForkInv'
    <2>1. fork' \in [child : {created' + 1}, slot : 0..UserSlots, tbl : Nat,
                     window : Nat, entry : 0..N, at : brk'..(Slots * N)]
        <3>1. fork.slot + 1 \in 0..UserSlots
            BY <1>1, <1>2
        <3>2. /\ fork.window \in Nat /\ fork.entry \in 0..N /\ fork.at \in brk..(Slots * N)
            BY <1>1, ForkFacts
        <3> QED BY <1>1, <1>2, <1>3, <3>1, <3>2
    <2>2. created' + 1 \in Dir
        BY <1>1, <1>2
    <2>3. \A q \in fork'.slot..(UserSlots - 1) : mem'.dirs[fork'.child][q] = 0
        <3>1. \A q \in fork.slot..(UserSlots - 1) : mem.dirs[fork.child][q] = 0
            BY <1>1 DEF IInv, ForkInv
        <3>2. \A q \in (fork.slot + 1)..(UserSlots - 1) :
                  q \in fork.slot..(UserSlots - 1) /\ q \in Slot /\ q < UserSlots /\ q # fork.slot
            BY <1>2, VirtMemAssumption DEF Slot
        <3>3. ASSUME NEW q \in (fork.slot + 1)..(UserSlots - 1) PROVE mem'.dirs[fork.child][q] = 0
            <4>1. q \in fork.slot..(UserSlots - 1) /\ q \in Slot /\ q < UserSlots /\ q # fork.slot
                BY <3>2
            <4>2. mem.dirs[fork.child][q] = 0 /\ m.dirs[fork.child][q] = mem.dirs[fork.child][q]
                BY <1>2, <1>10, <3>1, <4>1, Zenon
            <4>3. mem'.dirs[fork.child][q] = m.dirs[fork.child][q]
                BY <1>2, <1>15, <4>1, Zenon
            <4> QED BY <4>2, <4>3
        <3> QED BY <1>4, <3>3
    <2>4. ASSUME NEW p \in UserPage, CopiedIn(mem', fork'.slot, fork'.tbl, fork'.entry, p)
          PROVE  FindsNext(CopyIn(mem', fork'.slot, fork'.tbl, p), loaded, p)
        <3>1. p \div N < fork.slot + 1
            BY <1>4, <2>4 DEF CopiedIn
        <3>2. p \div N \in Nat /\ p % N \in Index
            BY UserPages, VirtMemAssumption DEF Slot
        <3>3. CopyIn(mem', fork'.slot, fork'.tbl, p) = Trans(mem', fork.child, p)
            BY <1>4, <3>1 DEF CopyIn
        <3>4. /\ CopiedIn(mem, fork.slot, fork.tbl, fork.entry, p)
              /\ Trans(mem', fork.child, p) = CopyIn(mem, fork.slot, fork.tbl, p)
            <4>1. CASE p \div N < fork.slot
                <5>1. p \div N # s
                    BY <1>2, <3>2, <4>1
                <5>2. Trans(mem', fork.child, p) = Trans(mem, fork.child, p)
                    BY <1>2, <1>16, <5>1
                <5> QED BY <4>1, <5>2 DEF CopiedIn, CopyIn
            <4>2. CASE ~(p \div N < fork.slot)
                <5>1. p \div N = fork.slot
                    BY <1>2, <3>1, <3>2, <4>2
                <5>2. p % N < fork.entry
                    BY <1>1, <1>2, <3>2 DEF Index
                <5>3. Trans(mem', fork.child, p) = mem.tables[fork.tbl][p % N]
                    BY <1>17, <5>1
                <5> QED BY <1>1, <4>2, <5>1, <5>2, <5>3 DEF CopiedIn, CopyIn
            <4> QED BY <4>1, <4>2
        <3>5. Finds(CopyIn(mem, fork.slot, fork.tbl, p), loaded, p)
            BY <1>1, <3>4, CopiesNow
        <3> QED BY <1>1, <3>3, <3>4, <3>5 DEF Finds, FindsNext
    <2>5. \A p \in UserPage : Copied(p)' => Finds(CopyOf(p), loaded, p)'
        BY <1>1, <1>4, <2>4, CopiesNext
    <2> QED BY <1>4, <2>1, <2>2, <2>3, <2>5 DEF ForkInv
<1>20. RestInv'
    BY <1>1 DEF IInv, RestInv
<1> QED BY <1>13, <1>14, <1>18, <1>19, <1>20 DEF IInv

\* The end of a fork: the child finds all that its parent has.
LEMMA ForkEndKeeps ==
    ASSUME IInv, ForkEnd
    PROVE  IInv'
<1> DEFINE c == fork.child
<1>1. /\ fork # NoFork /\ fork.slot = UserSlots /\ created' = created + 1 /\ fork' = NoFork
      /\ expected' = [expected EXCEPT ![c] = expected[loaded]]
      /\ mem' = mem /\ loaded' = loaded /\ brk' = brk
      /\ content' = content /\ crossed' = crossed /\ halted' = halted
    BY DEF ForkEnd
<1>2. /\ c = created + 1 /\ c \in Dir /\ loaded \in 1..created /\ loaded \in Dir /\ c # loaded
      /\ Born = created + 1 /\ created \in 1..LastDir /\ LastDir \in Nat
      /\ \A d \in 1..created : d \in Dir /\ d # c
    BY <1>1, ForkFacts, InvFacts, VirtMemAssumption
<1>3. fork.tbl = 0
    BY <1>1, SlotFacts, ForkFacts
<1>4. Windows = {} /\ Windows' = {} /\ fork'.tbl = 0 /\ Born' = Born
    BY <1>1, <1>2, <1>3 DEF Windows, Born, NoFork
<1>5. TablesInv'
    <2>1. Good(mem, 0, {})
        BY <1>3, <1>4, InvFacts
    <2> QED BY <1>1, <1>4, <2>1, TablesNext
<1>6. HeapInv'
    <2>1. (~crossed => HeapIs(mem, {}, Born, brk)) /\ (halted => crossed)
        BY <1>4 DEF IInv, HeapInv
    <2> QED BY <1>1, <1>4, <2>1, HeapNext
<1>7. expected \in [Dir -> [UserPage -> Value \cup {Absent}]]
    BY DEF IInv, RestInv
<1>8. \A d \in Dir : expected'[d] = IF d = c THEN expected[loaded] ELSE expected[d]
    BY <1>1, <1>7
<1> HIDE DEF c
<1>9. KeptInv'
    <2> SUFFICES ASSUME NEW d \in 1..(created + 1), NEW p \in UserPage
                 PROVE  FindsNext(Trans(mem, d, p), d, p)
        BY <1>1, KeptNext
    <2>1. CASE d = c
        <3>1. p \div N < fork.slot
            BY <1>1, UserPages
        <3>2. CopiedIn(mem, fork.slot, fork.tbl, fork.entry, p)
              /\ CopyIn(mem, fork.slot, fork.tbl, p) = Trans(mem, c, p)
            BY <3>1 DEF CopiedIn, CopyIn, c
        <3>3. Finds(Trans(mem, c, p), loaded, p)
            BY <1>1, <3>2, CopiesNow
        <3>4. expected'[c] = expected[loaded]
            BY <1>2, <1>8
        <3> QED BY <1>1, <2>1, <3>3, <3>4 DEF Finds, FindsNext
    <2>2. CASE d # c
        <3>1. d \in 1..created /\ d \in Dir
            BY <1>2, <2>2
        <3>2. Finds(Trans(mem, d, p), d, p)
            BY <3>1 DEF IInv, KeptInv
        <3>3. expected'[d] = expected[d]
            BY <1>8, <2>2, <3>1
        <3> QED BY <1>1, <3>2, <3>3 DEF Finds, FindsNext
    <2> QED BY <2>1, <2>2
<1>10. ForkInv'
    BY <1>1 DEF ForkInv
<1>11. RestInv'
    <2>1. created + 1 \in Dir /\ loaded \in 1..(created + 1)
        BY <1>2
    <2>2. expected' \in [Dir -> [UserPage -> Value \cup {Absent}]]
        BY <1>1, <1>2, <1>7
    <2>3. /\ content \in [Frame -> Value] /\ brk \in UserSlots * N..Slots * N
          /\ crossed \in BOOLEAN /\ halted \in BOOLEAN
        BY DEF IInv, RestInv
    <2> QED BY <1>1, <2>1, <2>2, <2>3 DEF RestInv
<1> QED BY <1>5, <1>6, <1>9, <1>10, <1>11 DEF IInv

-----------------------------------------------------------------------------
(* The inductive invariant and the properties                              *)

\* A step that changes nothing keeps everything.
LEMMA StoppedKeeps ==
    ASSUME IInv, UNCHANGED vars
    PROVE  IInv'
<1>1. /\ mem' = mem /\ content' = content /\ brk' = brk /\ created' = created /\ loaded' = loaded
      /\ fork' = fork /\ expected' = expected /\ crossed' = crossed /\ halted' = halted
    BY DEF vars
<1>2. Windows' = Windows /\ Born' = Born
    BY <1>1 DEF Windows, Born
<1>3. TablesInv'
    <2>1. Good(mem, fork.tbl, Windows)
        BY InvFacts
    <2> QED BY <1>1, <1>2, <2>1, TablesNext
<1>4. HeapInv'
    <2>1. (~crossed => HeapIs(mem, Windows, Born, brk)) /\ (halted => crossed)
        BY DEF IInv, HeapInv
    <2> QED BY <1>1, <1>2, <2>1, HeapNext
<1>5. KeptInv'
    <2> SUFFICES ASSUME NEW d \in 1..created, NEW p \in UserPage
                 PROVE  FindsNext(Trans(mem, d, p), d, p)
        BY <1>1, KeptNext
    <2>1. Finds(Trans(mem, d, p), d, p)
        BY DEF IInv, KeptInv
    <2> QED BY <1>1, <2>1 DEF Finds, FindsNext
<1>6. ForkInv'
    <2>1. CASE fork = NoFork
        BY <1>1, <2>1 DEF ForkInv
    <2>2. CASE fork # NoFork
        <3>1. /\ fork \in [child : {created + 1}, slot : 0..UserSlots, tbl : Nat,
                           window : Nat, entry : 0..N, at : brk..(Slots * N)]
              /\ created + 1 \in Dir
              /\ fork.tbl # 0 =>
                     /\ fork.slot < UserSlots /\ mem.dirs[loaded][fork.slot] # 0
                     /\ fork.window \in brk..(fork.at - 1)
                     /\ \A i \in fork.entry..(N - 1) : mem.tables[fork.tbl][i] = 0
              /\ \A s \in fork.slot..(UserSlots - 1) : mem.dirs[fork.child][s] = 0
            BY <2>2 DEF IInv, ForkInv
        <3>2. \A p \in UserPage : CopiedIn(mem', fork'.slot, fork'.tbl, fork'.entry, p)
                  => FindsNext(CopyIn(mem', fork'.slot, fork'.tbl, p), loaded, p)
            <4> TAKE p \in UserPage
            <4> HAVE CopiedIn(mem', fork'.slot, fork'.tbl, fork'.entry, p)
            <4>1. Finds(CopyIn(mem, fork.slot, fork.tbl, p), loaded, p)
                BY <1>1, <2>2, CopiesNow
            <4> QED BY <1>1, <4>1 DEF Finds, FindsNext
        <3>3. \A p \in UserPage : Copied(p)' => Finds(CopyOf(p), loaded, p)'
            BY <1>1, <3>2, CopiesNext
        <3> QED BY <1>1, <3>1, <3>3, Zenon DEF ForkInv
    <2> QED BY <2>1, <2>2
<1>7. RestInv'
    BY <1>1 DEF IInv, RestInv
<1> QED BY <1>3, <1>4, <1>5, <1>6, <1>7 DEF IInv

\* Every step keeps the invariant.
LEMMA NextKeeps ==
    ASSUME IInv, [Next]_vars
    PROVE  IInv'
<1>1. CASE \E page \in UserPage : MapUser(page) \/ UnmapUser(page)
    BY <1>1, MapUserKeeps, UnmapUserKeeps
<1>2. CASE \E page \in UserPage, v \in Value : WriteUser(page, v)
    BY <1>2, WriteUserKeeps
<1>3. CASE \E d \in 1..created : Switch(d)
    BY <1>3, SwitchKeeps
<1>4. CASE Grow
    BY <1>4, GrowKeeps
<1>5. CASE AddrCreate
    BY <1>5, AddrCreateKeeps
<1>6. CASE ForkSkip
    BY <1>6, ForkSkipKeeps
<1>7. CASE ForkTable
    BY <1>7, ForkTableKeeps
<1>8. CASE ForkEntry
    <2>1. PICK x : EntryOf(x)
        BY DEF EntryOf
    <2>2. CASE x = 0
        BY <1>8, <2>1, <2>2, ForkAbsentKeeps DEF EntryOf
    <2>3. CASE x # 0
        BY <1>8, <2>1, <2>3, ForkCopyKeeps
    <2> QED BY <2>2, <2>3
<1>9. CASE ForkTableEnd
    BY <1>9, ForkTableEndKeeps
<1>10. CASE ForkEnd
    BY <1>10, ForkEndKeeps
<1>11. CASE UNCHANGED vars
    BY <1>11, StoppedKeeps
<1> QED
    BY <1>1, <1>2, <1>3, <1>4, <1>5, <1>6, <1>7, <1>8, <1>9, <1>10, <1>11, Zenon DEF Next, Stopped

\* The invariant holds in every state that mapping, writing, switching, growing
\* and forking reach.
THEOREM IInvInvariant == Spec => []IInv
<1>1. Init => IInv
    BY InitIInv
<1>2. IInv /\ [Next]_vars => IInv'
    BY NextKeeps
<1> QED BY <1>1, <1>2, PTL DEF Spec

\* The state is made of what the code has there.
LEMMA TypeHolds ==
    ASSUME IInv
    PROVE  TypeOK
<1>1. Shape(mem) /\ mem.next \in 1..(LastFrame + 1) /\ LastFrame \in Nat
    BY VirtMemAssumption DEF IInv, TablesInv, Shape
<1>2. DOMAIN mem.tables \subseteq Frame
    BY <1>1 DEF Shape, Frame
<1>3. \A d \in Dir, slot \in 0..(Slots - 1) : mem.dirs[d][slot] \in {0} \cup DOMAIN mem.tables
    BY <1>1 DEF Shape, Slot
<1>4. {0} \cup DOMAIN mem.tables \subseteq Entry /\ 0..(mem.next - 1) \cup {Junk} \subseteq Entry
    BY <1>1, <1>2 DEF Frame, Entry, Junk
<1>5. mem.dirs \in [Dir -> [0..(Slots - 1) -> Entry]]
    <2>1. mem.dirs \in [Dir -> [0..(Slots - 1) -> Nat]]
        BY <1>1 DEF Shape, Slot
    <2> SUFFICES ASSUME NEW d \in Dir PROVE mem.dirs[d] \in [0..(Slots - 1) -> Entry]
        BY <2>1
    <2>2. mem.dirs[d] \in [0..(Slots - 1) -> Nat]
        BY <2>1
    <2>3. \A slot \in 0..(Slots - 1) : mem.dirs[d][slot] \in Entry
        BY <1>3, <1>4
    <2> QED BY <2>2, <2>3
<1>6. \A t \in DOMAIN mem.tables : mem.tables[t] \in [0..(N - 1) -> Entry]
    <2> TAKE t \in DOMAIN mem.tables
    <2>1. mem.tables[t] \in [0..(N - 1) -> 0..(mem.next - 1) \cup {Junk}]
        BY <1>1 DEF Shape, Index
    <2> QED BY <1>4, <2>1
<1>7. fork = NoFork \/ (fork.child = created + 1 /\ fork.at \in brk..Slots * N)
    BY ForkFacts
<1>8. /\ content \in [Frame -> Value] /\ brk \in UserSlots * N..Slots * N
      /\ created \in Dir /\ loaded \in 1..created
      /\ expected \in [Dir -> [UserPage -> Value \cup {Absent}]]
      /\ crossed \in BOOLEAN /\ halted \in BOOLEAN
    BY DEF IInv, RestInv
<1> QED BY <1>1, <1>2, <1>3, <1>5, <1>6, <1>7, <1>8 DEF TypeOK

\* Every directory finds the page of the heap that the boot's does.
LEMMA HeapShared ==
    ASSUME IInv
    PROVE  HeapAgrees
<1> SUFFICES ASSUME ~crossed, NEW d \in 1..created, NEW page \in KernelPage
             PROVE  /\ page < brk => Trans(mem, d, page) = Trans(mem, 1, page) /\ Trans(mem, d, page) \in Frame
                    /\ page >= brk /\ fork = NoFork => Trans(mem, d, page) = 0
    BY DEF HeapAgrees
<1>1. HeapIs(mem, Windows, Born, brk) /\ Shape(mem) /\ created \in Nat
    BY InvFacts DEF IInv, HeapInv
<1>2. d \in 1..Born
    BY <1>1 DEF Born
<1>3. page \div N \in KernelSlots
    BY KernelPages
<1>4. Trans(mem, d, page) = Trans(mem, 1, page)
    <2>1. mem.dirs[d][page \div N] = mem.dirs[1][page \div N]
        BY <1>1, <1>2, <1>3 DEF HeapIs
    <2> QED BY <2>1, Zenon DEF Trans
<1>5. page < brk => Trans(mem, 1, page) \in 1..(mem.next - 1)
    BY <1>1 DEF HeapIs
<1>6. 1..(mem.next - 1) \subseteq Frame
    BY <1>1, VirtMemAssumption DEF Shape, Frame
<1>7. page >= brk /\ fork = NoFork => Trans(mem, 1, page) = 0
    BY <1>1, InvFacts DEF HeapIs
<1> QED BY <1>4, <1>5, <1>6, <1>7

\* Programs share no frame, with one another or with the kernel.
LEMMA FramesPrivate ==
    ASSUME IInv
    PROVE  UserPrivate
<1> SUFFICES ASSUME NEW d \in 1..created, NEW e \in 1..created, NEW page \in UserPage,
                    Trans(mem, d, page) # 0
             PROVE  /\ Trans(mem, d, page) \notin DOMAIN mem.tables
                    /\ \A other \in UserPage :
                           (d # e \/ page # other) => Trans(mem, e, other) # Trans(mem, d, page)
                    /\ fork = NoFork =>
                           \A other \in KernelPage : Trans(mem, e, other) # Trans(mem, d, page)
    BY DEF UserPrivate
<1>1. d \in Dir /\ e \in Dir
    BY InvFacts, VirtMemAssumption DEF Dir
<1>2. PICK W \in SUBSET KernelPage : W = Windows
    BY InvFacts
<1>3. Good(mem, fork.tbl, W) /\ loaded \in Dir /\ (fork = NoFork => W = {})
    BY <1>2, InvFacts
<1>4. /\ Trans(mem, d, page) \notin DOMAIN mem.tables
      /\ \A a \in Dir, q \in UserPage : Trans(mem, a, q) = Trans(mem, d, page) => a = d /\ q = page
      /\ W = {} => \A a \in Dir, q \in KernelPage : Trans(mem, a, q) # Trans(mem, d, page)
    BY <1>1, <1>3, Apart
<1> QED BY <1>1, <1>3, <1>4

\* A process finds what it wrote, or what its parent had at the fork.
LEMMA FoundAgain ==
    ASSUME IInv
    PROVE  MemoryKept
<1> SUFFICES ASSUME NEW d \in 1..created, NEW page \in UserPage
             PROVE  IF expected[d][page] = Absent THEN Trans(mem, d, page) = 0
                    ELSE /\ Trans(mem, d, page) \in Frame
                         /\ content[Trans(mem, d, page)] = expected[d][page]
    BY DEF MemoryKept
<1>1. d \in Dir
    BY InvFacts, VirtMemAssumption DEF Dir
<1>2. Finds(Trans(mem, d, page), d, page)
    BY DEF IInv, KeptInv
<1>3. PICK W \in SUBSET KernelPage : W = Windows
    BY InvFacts
<1>4. Trans(mem, d, page) # 0 => Trans(mem, d, page) \in Frame
    BY <1>1, <1>3, InvFacts, Apart
<1> QED BY <1>2, <1>4 DEF Finds

\* Processes share the kernel's heap: until a table of the heap is allocated behind
\* the first virt_mm_addr_create, all directories have it and it can grow in any.
THEOREM KernelIsShared == Spec => []KernelShared
<1>1. IInv => KernelShared
    <2> SUFFICES ASSUME IInv PROVE KernelShared
        OBVIOUS
    <2>1. GrowthNeverFaults
        BY DEF IInv, HeapInv, GrowthNeverFaults
    <2> QED BY <2>1, TypeHolds, HeapShared DEF KernelShared
<1> QED BY <1>1, IInvInvariant, PTL

\* And nothing else: each finds its own memory as it left it, the child of a fork
\* as its parent had it, whatever the others do between the copies.
THEOREM MemoryIsApart == Spec => []UserMemory
<1>1. IInv => UserMemory
    BY FramesPrivate, FoundAgain DEF UserMemory
<1> QED BY <1>1, IInvInvariant, PTL
=============================================================================
