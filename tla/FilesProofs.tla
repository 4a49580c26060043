----------------------------- MODULE FilesProofs ------------------------------
(***************************************************************************)
(* Proofs about descriptors and open files: for any number of processes,   *)
(* files and slots, the counts are the numbers of references, the tables   *)
(* only fill, from their first slot on, and the calls are those of an      *)
(* abstract table of open files.                                           *)
(***************************************************************************)
EXTENDS Files, FiniteSetTheorems, TLAPS

(* The inductive invariant.  A count grows by one at a fork however many   *)
(* slots of the parent hold the file, so it must be known that a table     *)
(* holds a file once; and the table a child gets must have been empty.     *)
OnceEach ==
    \A p \in Proc, i, j \in Slot :
        fd[p][i] # None /\ fd[p][i] = fd[p][j] => i = j

Unborn == \A p \in Proc, i \in Slot : p > pids => fd[p][i] = None

IInv == CountsMatch /\ TablesFill /\ OnceEach /\ Unborn

-----------------------------------------------------------------------------
(* The operators.                                                          *)

LEMMA Constants ==
    /\ LastPid \in Nat \ {0} /\ FdScan \in Nat \ {0} /\ FdMax \in Nat /\ FdScan <= FdMax
    /\ \A inode \in Inode : Size[inode] \in Nat
    /\ IsFiniteSet(Proc \X Slot)
<1>1. IsFiniteSet(Proc) /\ IsFiniteSet(Slot)
    BY FilesAssumption, FS_Interval DEF Proc, Slot
<1>2. IsFiniteSet(Proc \X Slot)
    BY <1>1, FS_Product
<1> QED BY <1>2, FilesAssumption

\* The entry of a file that open or the loader makes, field by field.
LEMMA NewFileFields ==
    ASSUME NEW inode \in Inode, NEW acc \in 0..3
    PROVE  /\ NewFile(inode, acc) \in File
           /\ NewFile(inode, acc).inode = inode /\ NewFile(inode, acc).count = 1
           /\ NewFile(inode, acc).pos = 0 /\ NewFile(inode, acc).mode \in 0..3
<1>1. OpenFmode(acc) \in 0..3
    BY DEF OpenFmode
<1> QED BY <1>1 DEF NewFile, File

\* The same entry with another position is a file still.
LEMMA NewFileFacts ==
    ASSUME NEW inode \in Inode, NEW acc \in 0..3, NEW pos \in Nat
    PROVE  /\ NewFile(inode, acc) \in File
           /\ NewFile(inode, acc).inode = inode /\ NewFile(inode, acc).count = 1
           /\ NewFile(inode, acc).pos = 0 /\ NewFile(inode, acc).mode \in 0..3
           /\ [NewFile(inode, acc) EXCEPT !.pos = pos] \in File
           /\ [NewFile(inode, acc) EXCEPT !.pos = pos].inode = inode
           /\ [NewFile(inode, acc) EXCEPT !.pos = pos].count = 1
           /\ [NewFile(inode, acc) EXCEPT !.pos = pos].pos = pos
           /\ [NewFile(inode, acc) EXCEPT !.pos = pos].mode = NewFile(inode, acc).mode
<1>1. OpenFmode(acc) \in 0..3
    BY DEF OpenFmode
<1> QED BY <1>1 DEF NewFile, File

\* A read moves the offset forward, and not behind the end of the file.
LEMMA ReadEndFacts ==
    ASSUME NEW inode \in Inode, NEW pos \in Nat, NEW count \in Nat, pos <= Size[inode]
    PROVE  /\ ReadEnd(inode, pos, count) \in Nat
           /\ pos <= ReadEnd(inode, pos, count) /\ ReadEnd(inode, pos, count) <= Size[inode]
  BY Constants DEF ReadEnd

LEMMA FileFields ==
    ASSUME TypeOK, NEW f \in DOMAIN file
    PROVE  /\ file[f].inode \in Inode /\ file[f].mode \in 0..3
           /\ file[f].pos \in Nat /\ file[f].count \in Nat
           /\ f \in Nat \ {0}
<1>1. file[f] \in File /\ f \in Nat \ {0}
    BY DEF TypeOK
<1> QED BY <1>1 DEF File

\* The first slot that is free is where the table's prefix ends.
LEMMA FdFindFacts ==
    ASSUME IInv, NEW p \in Proc, NEW i \in (0..(FdScan - 1)) \cup {-EINVAL}, FdFind(p, i)
    PROVE  /\ i \in Int
           /\ i >= 0 =>
                /\ i \in Slot /\ i < FdScan /\ fd[p][i] = None
                /\ \A j \in Slot : fd[p][j] # None <=> j < i
           /\ i < 0 => \A j \in 0..(FdScan - 1) : fd[p][j] # None
<1>1. i \in Int /\ (i >= 0 => i \in 0..(FdScan - 1))
    BY Constants DEF EINVAL
<1>2. CASE i >= 0
    <2>1. /\ i \in 0..(FdScan - 1) /\ fd[p][i] = None
          /\ \A j \in 0..(i - 1) : fd[p][j] # None
        BY <1>1, <1>2 DEF FdFind, EINVAL
    <2>2. PICK n \in 0..FdScan : \A j \in Slot : fd[p][j] # None <=> j < n
        BY DEF IInv, TablesFill
    <2>3. i \in Slot /\ i < FdScan
        BY <2>1, Constants DEF Slot
    <2>4. ~(i < n)
        BY <2>1, <2>2, <2>3
    <2>5. ~(n < i)
        <3> SUFFICES ASSUME n < i PROVE FALSE
            OBVIOUS
        <3>1. n \in 0..(i - 1) /\ n \in Slot
            BY <1>1, <2>1, <2>2, Constants DEF Slot
        <3> QED BY <2>1, <2>2, <3>1
    <2>6. n = i
        BY <1>1, <2>4, <2>5, Constants
    <2> QED BY <1>1, <1>2, <2>1, <2>2, <2>3, <2>6
<1>3. CASE i < 0
    BY <1>1, <1>3 DEF FdFind
<1> QED BY <1>1, <1>2, <1>3

-----------------------------------------------------------------------------
(* Which slots hold a file.                                                *)

HoldersIn(table, f) == {s \in Proc \X Slot : table[s[1]][s[2]] = f}

LEMMA HoldersAre ==
    ASSUME NEW f
    PROVE  /\ Holders(f) = HoldersIn(fd, f)
           /\ Holders(f)' = HoldersIn(fd', f)
  BY DEF Holders, HoldersIn

LEMMA HoldersFinite ==
    ASSUME NEW table, NEW f
    PROVE  IsFiniteSet(HoldersIn(table, f))
<1>1. HoldersIn(table, f) \subseteq Proc \X Slot
    BY DEF HoldersIn
<1> QED BY <1>1, Constants, FS_Subset

\* Storing a new file in a free slot concerns that file only.
Stores(p, i, d) ==
    fd[p][i] = None /\ d \notin DOMAIN file /\ fd' = [fd EXCEPT ![p][i] = d]

LEMMA StoreHolders ==
    ASSUME TypeOK, NEW p \in Proc, NEW i \in Slot, NEW d \in Nat \ {0}, Stores(p, i, d)
    PROVE  /\ \A f : f # d /\ f # None => HoldersIn(fd', f) = HoldersIn(fd, f)
           /\ HoldersIn(fd', d) = {<<p, i>>}
<1>1. fd \in [Proc -> [Slot -> Nat]]
    BY DEF TypeOK
<1>2. ASSUME NEW q \in Proc, NEW j \in Slot
      PROVE  fd'[q][j] = IF q = p /\ j = i THEN d ELSE fd[q][j]
    BY <1>1 DEF Stores
<1>3. ASSUME NEW f, f # d, f # None PROVE HoldersIn(fd', f) = HoldersIn(fd, f)
    <2>1. ASSUME NEW q \in Proc, NEW j \in Slot PROVE fd'[q][j] = f <=> fd[q][j] = f
        <3>1. fd[p][i] = None
            BY Zenon DEF Stores
        <3>2. CASE q = p /\ j = i
            BY <1>2, <1>3, <3>1, <3>2
        <3>3. CASE ~(q = p /\ j = i)
            BY <1>2, <3>3
        <3> QED BY <3>2, <3>3
    <2> QED BY <2>1 DEF HoldersIn
<1>4. HoldersIn(fd', d) = {<<p, i>>}
    <2>1. ASSUME NEW q \in Proc, NEW j \in Slot PROVE fd[q][j] # d
        <3>1. fd[q][j] = None \/ fd[q][j] \in DOMAIN file
            BY DEF TypeOK
        <3> QED BY <3>1 DEF None, Stores
    <2>2. ASSUME NEW q \in Proc, NEW j \in Slot PROVE fd'[q][j] = d <=> q = p /\ j = i
        BY <1>2, <2>1
    <2>3. \A s \in Proc \X Slot : fd'[s[1]][s[2]] = d <=> s = <<p, i>>
        BY <2>2
    <2>4. <<p, i>> \in Proc \X Slot
        OBVIOUS
    <2> QED BY <2>3, <2>4 DEF HoldersIn
<1> QED BY <1>3, <1>4

-----------------------------------------------------------------------------
(* The invariant is inductive.                                             *)

\* Parts of the invariant, and what they say of one file.
LEMMA Counts ==
    ASSUME IInv, halted # "corrupt"
    PROVE  /\ \A f \in DOMAIN file : file[f].count = Cardinality(HoldersIn(fd, f))
           /\ \A inode \in Inode :
                 icount[inode] = Cardinality({f \in DOMAIN file : file[f].inode = inode})
  BY HoldersAre DEF IInv, CountsMatch

\* The number of files on an inode, with one file more.
LEMMA OneFileMore ==
    ASSUME file \in Seq(File), NEW f \in File, file' = Append(file, f), NEW inode
    PROVE  Cardinality({k \in DOMAIN file' : file'[k].inode = inode})
               = Cardinality({k \in DOMAIN file : file[k].inode = inode})
                     + (IF f.inode = inode THEN 1 ELSE 0)
<1> DEFINE old == {k \in DOMAIN file : file[k].inode = inode}
           new == {k \in DOMAIN file' : file'[k].inode = inode}
           n == Len(file)
<1>1. /\ n \in Nat /\ DOMAIN file = 1..n /\ DOMAIN file' = 1..(n + 1)
      /\ \A k \in 1..n : file'[k] = file[k]
      /\ file'[n + 1] = f
    OBVIOUS
<1> HIDE DEF n
<1>2. old \subseteq 1..n /\ IsFiniteSet(1..n)
    BY <1>1, FS_Interval
<1>3. IsFiniteSet(old) /\ n + 1 \notin old
    BY <1>1, <1>2, FS_Subset
<1>4. Cardinality(old) \in Nat
    BY <1>3, FS_CardinalityType
<1>5. CASE f.inode = inode
    <2>1. \A k : k \in new <=> k \in old \/ k = n + 1
        <3>1. \A k : k \in 1..(n + 1) <=> k \in 1..n \/ k = n + 1
            BY <1>1
        <3>2. n + 1 \in new
            BY <1>1, <1>5, <3>1
        <3> QED BY <1>1, <3>1, <3>2
    <2>3. new = old \cup {n + 1}
        BY <2>1
    <2>2. Cardinality(old \cup {n + 1}) = Cardinality(old) + 1
        BY <1>3, FS_AddElement
    <2> QED BY <1>5, <2>2, <2>3
<1>6. CASE f.inode # inode
    <2>1. \A k : k \in new <=> k \in old
        <3>1. \A k : k \in 1..(n + 1) <=> k \in 1..n \/ k = n + 1
            BY <1>1
        <3>2. n + 1 \notin new
            BY <1>1, <1>6
        <3> QED BY <1>1, <3>1, <3>2
    <2>2. new = old
        BY <2>1
    <2>3. \A m \in Nat : m + 0 = m
        OBVIOUS
    <2>4. Cardinality(old) + 0 = Cardinality(old)
        BY <1>4, <2>3
    <2> QED BY <1>6, <2>2, <2>4
<1> QED BY <1>5, <1>6

\* virt_fs_open's last statements, in the table or in front of it.
LEMMA InstallKeeps ==
    ASSUME IInv, halted = "no",
           NEW p \in Proc, p <= pids, NEW i \in (0..(FdScan - 1)) \cup {-EINVAL}, FdFind(p, i),
           NEW f \in File, f.count = 1, f.pos <= Size[f.inode],
           Install(p, i, f), UNCHANGED <<pids, exited>>
    PROVE  IInv'
<1> DEFINE n == Len(file)
<1>1. TypeOK /\ file \in Seq(File) /\ n \in Nat /\ DOMAIN file = 1..n
    BY DEF IInv, CountsMatch, TypeOK
<1>2. /\ file' = Append(file, f)
      /\ icount' = [icount EXCEPT ![f.inode] = @ + 1]
      /\ i >= 0 => fd' = [fd EXCEPT ![p][i] = Len(file')] /\ halted' = halted
      /\ ~(i >= 0) => fd' = fd /\ halted' = "corrupt"
    BY DEF Install
<1>3. /\ file' \in Seq(File) /\ Len(file') = n + 1 /\ DOMAIN file' = 1..(n + 1)
      /\ \A k \in 1..n : file'[k] = file[k]
      /\ file'[n + 1] = f
    BY <1>1, <1>2
<1> HIDE DEF n
<1>4. f.inode \in Inode
    BY DEF File
<1>5. icount \in [Inode -> Nat] /\ fd \in [Proc -> [Slot -> Nat]]
    BY <1>1 DEF TypeOK
<1>6. icount' \in [Inode -> Nat]
    BY <1>2, <1>4, <1>5
<1>7. \A k \in DOMAIN file' : file'[k].pos <= Size[file'[k].inode]
    <2> SUFFICES ASSUME NEW k \in 1..(n + 1) PROVE file'[k].pos <= Size[file'[k].inode]
        BY <1>3
    <2>1. CASE k \in 1..n
        BY <1>1, <1>3, <2>1 DEF TypeOK
    <2>2. CASE k = n + 1
        BY <1>3, <2>2
    <2> QED BY <1>1, <2>1, <2>2
<1>8. CASE i >= 0
    <2>1. /\ i \in Slot /\ i < FdScan /\ fd[p][i] = None
          /\ \A j \in Slot : fd[p][j] # None <=> j < i
        BY <1>8, FdFindFacts
    <2>2. /\ fd' = [fd EXCEPT ![p][i] = n + 1] /\ halted' = "no"
        BY <1>2, <1>3, <1>8
    <2>3. n + 1 \in Nat \ {0} /\ n + 1 \notin DOMAIN file /\ n + 1 # None
        BY <1>1 DEF None
    <2>4. ASSUME NEW q \in Proc, NEW j \in Slot
          PROVE  fd'[q][j] = IF q = p /\ j = i THEN n + 1 ELSE fd[q][j]
        BY <1>5, <2>1, <2>2
    <2>5. TypeOK'
        <3>1. fd' \in [Proc -> [Slot -> Nat]]
            BY <1>5, <2>1, <2>2, <2>3
        <3>2. \A q \in Proc, j \in Slot : fd'[q][j] = None \/ fd'[q][j] \in DOMAIN file'
            <4> TAKE q \in Proc, j \in Slot
            <4>1. fd[q][j] = None \/ fd[q][j] \in 1..n
                BY <1>1 DEF TypeOK
            <4> QED BY <1>1, <1>3, <2>4, <4>1
        <3> QED BY <1>1, <1>3, <1>6, <1>7, <2>2, <3>1, <3>2 DEF TypeOK
    <2>6. \A k \in DOMAIN file' : file'[k].count = Cardinality(HoldersIn(fd', k))
        <3> SUFFICES ASSUME NEW k \in 1..(n + 1)
                     PROVE  file'[k].count = Cardinality(HoldersIn(fd', k))
            BY <1>3
        <3>0. /\ \A d : d # n + 1 /\ d # None => HoldersIn(fd', d) = HoldersIn(fd, d)
              /\ HoldersIn(fd', n + 1) = {<<p, i>>}
            <4>1. PICK d \in Nat \ {0} : d = n + 1
                BY <2>3
            <4>2. TypeOK /\ i \in Slot /\ Stores(p, i, d)
                BY <1>1, <2>1, <2>2, <2>3, <4>1 DEF Stores
            <4>3. /\ \A e : e # d /\ e # None => HoldersIn(fd', e) = HoldersIn(fd, e)
                  /\ HoldersIn(fd', d) = {<<p, i>>}
                BY <4>2, StoreHolders
            <4> QED BY <4>1, <4>3, Zenon
        <3>1. CASE k \in 1..n
            <4>1. k # n + 1 /\ k # None /\ k \in DOMAIN file
                BY <1>1, <3>1 DEF None
            <4>2. file[k].count = Cardinality(HoldersIn(fd, k))
                BY <4>1, Counts
            <4>3. HoldersIn(fd', k) = HoldersIn(fd, k)
                BY <3>0, <4>1
            <4> QED BY <1>3, <3>1, <4>2, <4>3
        <3>2. CASE k = n + 1
            BY <1>3, <3>0, <3>2, FS_Singleton
        <3> QED BY <1>1, <3>1, <3>2
    <2>7. \A inode \in Inode :
              icount'[inode] = Cardinality({k \in DOMAIN file' : file'[k].inode = inode})
        <3> TAKE inode \in Inode
        <3>1. icount[inode] = Cardinality({k \in DOMAIN file : file[k].inode = inode})
            BY Counts
        <3>2. icount'[inode] = icount[inode] + (IF f.inode = inode THEN 1 ELSE 0)
            <4>1. icount[inode] \in Nat
                BY <1>5
            <4>2. CASE f.inode = inode
                BY <1>2, <1>5, <4>2
            <4>3. CASE f.inode # inode
                BY <1>2, <1>5, <4>1, <4>3
            <4> QED BY <4>2, <4>3
        <3>3. Cardinality({k \in DOMAIN file' : file'[k].inode = inode})
                  = Cardinality({k \in DOMAIN file : file[k].inode = inode})
                        + (IF f.inode = inode THEN 1 ELSE 0)
            BY <1>1, <1>2, OneFileMore
        <3> QED BY <3>1, <3>2, <3>3
    <2>8. CountsMatch'
        BY <2>5, <2>6, <2>7, HoldersAre DEF CountsMatch
    <2>9. TablesFill'
        <3>1. ASSUME NEW q \in Proc
              PROVE  \E m \in 0..FdScan : \A j \in Slot : fd'[q][j] # None <=> j < m
            <4>1. CASE q = p
                <5>1. i + 1 \in 0..FdScan
                    BY <2>1, Constants DEF Slot
                <5>2. ASSUME NEW j \in Slot PROVE fd'[q][j] # None <=> j < i + 1
                    <6>1. i \in Nat /\ j \in Nat
                        BY <2>1, Constants DEF Slot
                    <6>2. fd[p][j] # None <=> j < i
                        BY <2>1
                    <6>3. CASE j = i
                        <7>1. fd'[q][j] # None
                            BY <2>3, <2>4, <4>1, <6>3
                        <7> QED BY <6>1, <6>3, <7>1
                    <6>4. CASE j # i
                        <7>1. fd'[q][j] = fd[p][j]
                            BY <2>4, <4>1, <6>4
                        <7> QED BY <6>1, <6>2, <6>4, <7>1
                    <6> QED BY <6>3, <6>4
                <5> QED BY <5>1, <5>2
            <4>2. CASE q # p
                BY <2>4, <4>2 DEF IInv, TablesFill
            <4> QED BY <4>1, <4>2
        <3> QED BY <2>2, <3>1 DEF TablesFill
    <2>10. OnceEach'
        <3> SUFFICES ASSUME NEW q \in Proc, NEW j \in Slot, NEW k \in Slot,
                            fd'[q][j] # None, fd'[q][j] = fd'[q][k]
                     PROVE  j = k
            BY DEF OnceEach
        <3>1. \A l \in Slot : fd[q][l] # n + 1
            <4> TAKE l \in Slot
            <4>1. fd[q][l] = None \/ fd[q][l] \in DOMAIN file
                BY <1>1 DEF TypeOK
            <4> QED BY <2>3, <4>1
        <3> QED BY <2>4, <3>1 DEF IInv, OnceEach
    <2>11. Unborn'
        <3>1. ~(p > pids)
            BY <1>1, Constants DEF Proc, TypeOK
        <3> QED BY <2>4, <3>1 DEF IInv, Unborn
    <2> QED BY <2>8, <2>9, <2>10, <2>11 DEF IInv
<1>9. CASE ~(i >= 0)
    <2>1. fd' = fd /\ halted' = "corrupt"
        BY <1>2, <1>9
    <2>2. TypeOK'
        <3>1. \A q \in Proc, j \in Slot : fd'[q][j] = None \/ fd'[q][j] \in DOMAIN file'
            <4> TAKE q \in Proc, j \in Slot
            <4>1. fd[q][j] = None \/ fd[q][j] \in 1..n
                BY <1>1 DEF TypeOK
            <4> QED BY <1>1, <1>3, <2>1, <4>1
        <3> QED BY <1>1, <1>3, <1>6, <1>7, <2>1, <3>1 DEF TypeOK
    <2>3. \A j \in 0..(FdScan - 1) : fd[p][j] # None
        <3>1. i < 0
            BY <1>9, FdFindFacts
        <3> QED BY <3>1, FdFindFacts
    <2>4. TablesFill'
        BY <2>1, <2>3 DEF IInv, TablesFill
    <2> QED BY <2>1, <2>2, <2>4 DEF IInv, CountsMatch, OnceEach, Unborn
<1> QED BY <1>8, <1>9

\* Steps that change files only in offset or count: the inodes' files stay.
LEMMA SameInodes ==
    ASSUME DOMAIN file' = DOMAIN file,
           \A k \in DOMAIN file : file'[k].inode = file[k].inode, NEW inode
    PROVE  {k \in DOMAIN file' : file'[k].inode = inode}
               = {k \in DOMAIN file : file[k].inode = inode}
  OBVIOUS

\* Who holds a file once a process c without descriptors has got p's table.
LEMMA ForkHolders ==
    ASSUME TypeOK, NEW p \in Proc, NEW c \in Proc, c # p, \A i \in Slot : fd[c][i] = None,
           NEW f, f # None
    PROVE  /\ (\A i \in Slot : fd[p][i] # f) =>
                  HoldersIn([fd EXCEPT ![c] = fd[p]], f) = HoldersIn(fd, f)
           /\ \A i \in Slot : (\A j \in Slot : fd[p][j] = f <=> j = i) =>
                  /\ <<c, i>> \notin HoldersIn(fd, f)
                  /\ HoldersIn([fd EXCEPT ![c] = fd[p]], f) = HoldersIn(fd, f) \cup {<<c, i>>}
<1> DEFINE new == [fd EXCEPT ![c] = fd[p]]
<1>1. fd \in [Proc -> [Slot -> Nat]]
    BY DEF TypeOK
<1>2. ASSUME NEW q \in Proc, NEW j \in Slot
      PROVE  new[q][j] = IF q = c THEN fd[p][j] ELSE fd[q][j]
    BY <1>1
<1> HIDE DEF new
<1>3. ASSUME \A i \in Slot : fd[p][i] # f PROVE HoldersIn(new, f) = HoldersIn(fd, f)
    <2>1. ASSUME NEW q \in Proc, NEW j \in Slot PROVE new[q][j] = f <=> fd[q][j] = f
        BY <1>2, <1>3
    <2> QED BY <2>1 DEF HoldersIn
<1>4. ASSUME NEW i \in Slot, \A j \in Slot : fd[p][j] = f <=> j = i
      PROVE  /\ <<c, i>> \notin HoldersIn(fd, f)
             /\ HoldersIn(new, f) = HoldersIn(fd, f) \cup {<<c, i>>}
    <2>1. ASSUME NEW q \in Proc, NEW j \in Slot
          PROVE  new[q][j] = f <=> fd[q][j] = f \/ (q = c /\ j = i)
        BY <1>2, <1>4
    <2>2. \A s \in Proc \X Slot :
              new[s[1]][s[2]] = f <=> fd[s[1]][s[2]] = f \/ s = <<c, i>>
        BY <2>1
    <2>3. <<c, i>> \in Proc \X Slot
        OBVIOUS
    <2>4. <<c, i>> \notin HoldersIn(fd, f)
        BY DEF HoldersIn
    <2> QED BY <2>2, <2>3, <2>4 DEF HoldersIn
<1> QED BY <1>3, <1>4 DEF new

LEMMA ForkKeeps ==
    ASSUME IInv, NEW p \in Proc, Fork(p)
    PROVE  IInv'
<1> DEFINE c == pids + 1
<1>1. TypeOK /\ pids \in Nat /\ p \in Nat /\ p <= pids /\ pids < LastPid /\ halted = "no"
    BY DEF IInv, CountsMatch, TypeOK, Fork, Runs, Proc
<1>2. /\ pids' = c /\ fd' = [fd EXCEPT ![c] = fd[p]]
      /\ file' = [f \in DOMAIN file |->
                     IF Counted(p, f) THEN [file[f] EXCEPT !.count = @ + 1] ELSE file[f]]
      /\ UNCHANGED <<icount, exited, halted>>
    BY DEF Fork
<1>3. c \in Proc /\ c # p /\ c > pids /\ c \in Nat
    BY <1>1, Constants DEF Proc
<1>4. \A i \in Slot : fd[c][i] = None
    BY <1>3 DEF IInv, Unborn
<1> HIDE DEF c
<1>5. fd \in [Proc -> [Slot -> Nat]] /\ file \in Seq(File)
    BY <1>1 DEF TypeOK
<1>6. ASSUME NEW q \in Proc, NEW j \in Slot
      PROVE  fd'[q][j] = IF q = c THEN fd[p][j] ELSE fd[q][j]
    BY <1>2, <1>3, <1>5
<1>7. ASSUME NEW f \in DOMAIN file
      PROVE  /\ file'[f] \in File
             /\ file'[f].inode = file[f].inode /\ file'[f].pos = file[f].pos
             /\ file'[f].count = file[f].count + (IF Counted(p, f) THEN 1 ELSE 0)
    <2>1. file[f] \in File
        BY <1>5
    <2>2. CASE Counted(p, f)
        <3>1. file'[f] = [file[f] EXCEPT !.count = @ + 1]
            BY <1>2, <2>2
        <3> QED BY <2>1, <2>2, <3>1 DEF File
    <2>3. CASE ~Counted(p, f)
        <3>1. file'[f] = file[f]
            BY <1>2, <2>3
        <3> QED BY <2>1, <2>3, <3>1 DEF File
    <2> QED BY <2>2, <2>3
<1>8. DOMAIN file' = DOMAIN file /\ file' \in Seq(File)
    <2>1. DOMAIN file' = DOMAIN file /\ DOMAIN file = 1..Len(file) /\ Len(file) \in Nat
        BY <1>2, <1>5
    <2>2. file' \in [1..Len(file) -> File]
        BY <1>2, <1>7, <2>1
    <2> QED BY <2>1, <2>2
<1>9. TypeOK'
    <2>1. fd' \in [Proc -> [Slot -> Nat]]
        BY <1>2, <1>3, <1>5
    <2>2. \A q \in Proc, j \in Slot : fd'[q][j] = None \/ fd'[q][j] \in DOMAIN file'
        BY <1>1, <1>6, <1>8 DEF TypeOK
    <2>3. \A f \in DOMAIN file' : file'[f].pos <= Size[file'[f].inode]
        BY <1>1, <1>7, <1>8 DEF TypeOK
    <2>4. exited' \subseteq 1..pids'
        <3>1. 1..pids \subseteq 1..c
            BY <1>1, <1>3
        <3> QED BY <1>1, <1>2, <3>1 DEF TypeOK
    <2> QED BY <1>1, <1>2, <1>3, <1>8, <2>1, <2>2, <2>3, <2>4 DEF TypeOK
<1>10. ASSUME NEW f \in DOMAIN file'
       PROVE  file'[f].count = Cardinality(HoldersIn(fd', f))
    <2>1. f \in DOMAIN file /\ f # None
        BY <1>1, <1>8, FileFields DEF None
    <2>2. file[f].count = Cardinality(HoldersIn(fd, f)) /\ file[f].count \in Nat
        BY <1>1, <2>1, Counts, FileFields
    <2>3. CASE ~Counted(p, f)
        <3>1. \A i \in Slot : fd[p][i] # f
            BY <2>3 DEF Counted
        <3>2. HoldersIn([fd EXCEPT ![c] = fd[p]], f) = HoldersIn(fd, f)
            BY <1>1, <1>3, <1>4, <2>1, <3>1, ForkHolders
        <3> QED BY <1>2, <1>7, <2>1, <2>2, <2>3, <3>2
    <2>4. CASE Counted(p, f)
        <3>1. PICK i \in Slot : fd[p][i] = f
            BY <2>4 DEF Counted
        <3>2. \A j \in Slot : fd[p][j] = f <=> j = i
            BY <2>1, <3>1 DEF IInv, OnceEach
        <3>3. /\ <<c, i>> \notin HoldersIn(fd, f)
              /\ HoldersIn([fd EXCEPT ![c] = fd[p]], f) = HoldersIn(fd, f) \cup {<<c, i>>}
            BY <1>1, <1>3, <1>4, <2>1, <3>2, ForkHolders
        <3>4. Cardinality(HoldersIn(fd, f) \cup {<<c, i>>}) = Cardinality(HoldersIn(fd, f)) + 1
            BY <3>3, HoldersFinite, FS_AddElement
        <3> QED BY <1>2, <1>7, <2>1, <2>2, <2>4, <3>3, <3>4
    <2> QED BY <2>3, <2>4
<1>11. CountsMatch'
    <2>1. \A inode \in Inode :
              icount'[inode] = Cardinality({k \in DOMAIN file' : file'[k].inode = inode})
        <3> TAKE inode \in Inode
        <3>1. icount[inode] = Cardinality({k \in DOMAIN file : file[k].inode = inode})
            BY <1>1, Counts
        <3>2. {k \in DOMAIN file' : file'[k].inode = inode}
                  = {k \in DOMAIN file : file[k].inode = inode}
            BY <1>7, <1>8, SameInodes
        <3> QED BY <1>2, <3>1, <3>2
    <2> QED BY <1>9, <1>10, <2>1, HoldersAre DEF CountsMatch
<1>12. TablesFill'
    <2>1. ASSUME NEW q \in Proc
          PROVE  \E m \in 0..FdScan : \A j \in Slot : fd'[q][j] # None <=> j < m
        <3>1. CASE q = c
            BY <1>6, <3>1 DEF IInv, TablesFill
        <3>2. CASE q # c
            BY <1>6, <3>2 DEF IInv, TablesFill
        <3> QED BY <3>1, <3>2
    <2> QED BY <1>1, <1>2, <2>1 DEF TablesFill
<1>13. OnceEach'
    <2> SUFFICES ASSUME NEW q \in Proc, NEW j \in Slot, NEW k \in Slot,
                        fd'[q][j] # None, fd'[q][j] = fd'[q][k]
                 PROVE  j = k
        BY DEF OnceEach
    <2> QED BY <1>6 DEF IInv, OnceEach
<1>14. Unborn'
    <2>1. \A q \in Proc : q > c => q > pids /\ q # c
        BY <1>1, <1>3 DEF Proc
    <2> QED BY <1>2, <1>6, <2>1 DEF IInv, Unborn
<1> QED BY <1>11, <1>12, <1>13, <1>14 DEF IInv

\* read moves one offset.
LEMMA ReadKeeps ==
    ASSUME IInv, halted = "no", NEW f \in DOMAIN file, NEW end \in Nat,
           end <= Size[file[f].inode],
           UNCHANGED <<fd, icount, pids, exited, halted>>
    PROVE  file' = [file EXCEPT ![f].pos = end] => IInv'
<1> SUFFICES ASSUME file' = [file EXCEPT ![f].pos = end] PROVE IInv'
    OBVIOUS
<1>1. TypeOK /\ file \in Seq(File)
    BY DEF IInv, CountsMatch, TypeOK
<1>2. /\ DOMAIN file' = DOMAIN file
      /\ file'[f] = [file[f] EXCEPT !.pos = end]
      /\ \A k \in DOMAIN file : k # f => file'[k] = file[k]
    BY <1>1
<1>3. ASSUME NEW k \in DOMAIN file
      PROVE  /\ file'[k] \in File
             /\ file'[k].inode = file[k].inode /\ file'[k].count = file[k].count
             /\ file'[k].pos <= Size[file'[k].inode]
    <2>1. file[k] \in File /\ file[k].pos <= Size[file[k].inode]
        BY <1>1 DEF TypeOK
    <2>2. CASE k = f
        BY <1>2, <2>1, <2>2 DEF File
    <2>3. CASE k # f
        BY <1>2, <2>1, <2>3
    <2> QED BY <2>2, <2>3
<1>4. file' \in Seq(File)
    <2>1. [file[f] EXCEPT !.pos = end] \in File
        BY <1>2, <1>3
    <2>2. [file EXCEPT ![f] = [file[f] EXCEPT !.pos = end]] \in Seq(File)
        BY <1>1, <2>1
    <2> QED BY <2>2
<1>5. TypeOK'
    BY <1>1, <1>2, <1>3, <1>4 DEF TypeOK
<1>6. ASSUME NEW k \in DOMAIN file'
      PROVE  file'[k].count = Cardinality(HoldersIn(fd', k))
    BY <1>2, <1>3, Counts
<1>7. ASSUME NEW inode \in Inode
      PROVE  icount'[inode] = Cardinality({k \in DOMAIN file' : file'[k].inode = inode})
    <2>1. icount[inode] = Cardinality({k \in DOMAIN file : file[k].inode = inode})
        BY Counts
    <2>2. {k \in DOMAIN file' : file'[k].inode = inode}
              = {k \in DOMAIN file : file[k].inode = inode}
        BY <1>2, <1>3, SameInodes
    <2> QED BY <2>1, <2>2
<1>8. CountsMatch'
    BY <1>5, <1>6, <1>7, HoldersAre DEF CountsMatch
<1>9. TablesFill' /\ OnceEach' /\ Unborn'
    BY DEF IInv, TablesFill, OnceEach, Unborn
<1> QED BY <1>8, <1>9 DEF IInv

\* Errors, panics, fstat and exit leave tables, files and counts alone.
LEMMA OthersKeep ==
    ASSUME IInv, UNCHANGED <<fd, file, icount, pids>>, exited' \subseteq 1..pids,
           halted' = halted \/ (halted = "no" /\ halted' \in {"panic", "astray"})
    PROVE  IInv'
<1>1. TypeOK'
    BY DEF IInv, CountsMatch, TypeOK
<1>2. CountsMatch'
    BY <1>1 DEF IInv, CountsMatch, Holders
<1>3. TablesFill' /\ OnceEach' /\ Unborn'
    BY DEF IInv, TablesFill, OnceEach, Unborn
<1> QED BY <1>2, <1>3 DEF IInv

\* virt_fs_fread moves the offset of the file it gets, whichever that is.
LEMMA ReadFileKeeps ==
    ASSUME IInv, halted = "no", NEW f \in DOMAIN file, NEW count \in 0..MaxCount,
           NEW answer, ReadFile(f, count, answer)
    PROVE  IInv'
<1>1. TypeOK /\ exited \subseteq 1..pids
    BY DEF IInv, CountsMatch, TypeOK
<1>2. CASE Error(EINVAL) \/ Fault
    BY <1>1, <1>2, OthersKeep DEF Fault, Error
<1>3. CASE ~(Error(EINVAL) \/ Fault)
    <2>1. PICK end : end = ReadEnd(file[f].inode, file[f].pos, count)
        OBVIOUS
    <2>2. /\ file[f].inode \in Inode /\ file[f].pos \in Nat /\ count \in Nat
          /\ file[f].pos <= Size[file[f].inode]
        BY <1>1, FileFields, FilesAssumption DEF TypeOK
    <2>3. end \in Nat /\ end <= Size[file[f].inode]
        BY <2>1, <2>2, ReadEndFacts
    <2>4. file' = [file EXCEPT ![f].pos = end] /\ UNCHANGED <<fd, icount, pids, exited, halted>>
        BY <1>3, <2>1 DEF ReadFile
    <2> QED BY <2>3, <2>4, ReadKeeps
<1> QED BY <1>2, <1>3

LEMMA OpenKeeps ==
    ASSUME IInv, NEW p \in Proc, Open(p)
    PROVE  IInv'
<1>1. halted = "no" /\ p <= pids /\ exited \subseteq 1..pids
    BY DEF Open, Runs, IInv, CountsMatch, TypeOK
<1>2. CASE Fault \/ \E e \in {ENOENT, EEXIST} : Error(e)
    BY <1>1, <1>2, OthersKeep DEF Fault, Error
<1>3. ASSUME NEW path \in Inode, NEW acc \in AccMode,
             NEW i \in (0..(FdScan - 1)) \cup {-EINVAL}, FdFind(p, i),
             Install(p, i, NewFile(path, acc)), UNCHANGED <<pids, exited>>
      PROVE  IInv'
    <2>1. acc \in 0..3 /\ 0 \in Nat
        BY FilesAssumption
    <2>2. /\ NewFile(path, acc) \in File /\ NewFile(path, acc).count = 1
          /\ NewFile(path, acc).pos <= Size[NewFile(path, acc).inode]
        <3>1. /\ NewFile(path, acc) \in File /\ NewFile(path, acc).count = 1
              /\ NewFile(path, acc).pos = 0 /\ NewFile(path, acc).inode = path
            BY <1>3, <2>1, NewFileFields
        <3>2. 0 <= Size[path]
            BY Constants
        <3> QED BY <3>1, <3>2
    <2> QED BY <1>1, <1>3, <2>2, InstallKeeps
<1> QED BY <1>2, <1>3 DEF Open

LEMMA LoadKeeps ==
    ASSUME IInv, NEW p \in Proc, Load(p)
    PROVE  IInv'
<1>1. halted = "no" /\ p <= pids /\ exited \subseteq 1..pids
    BY DEF Load, Runs, IInv, CountsMatch, TypeOK
<1>2. CASE Fault
    BY <1>1, <1>2, OthersKeep DEF Fault
<1>3. ASSUME NEW path \in Inode, NEW i \in (0..(FdScan - 1)) \cup {-EINVAL}, FdFind(p, i),
             Install(p, i, [NewFile(path, 2) EXCEPT
                               !.pos = IF i >= 0 THEN ReadEnd(path, 0, Size[path]) ELSE 0]),
             UNCHANGED <<pids, exited>>
      PROVE  IInv'
    <2> DEFINE pos == IF i >= 0 THEN ReadEnd(path, 0, Size[path]) ELSE 0
               f == [NewFile(path, 2) EXCEPT !.pos = pos]
    <2>1. pos \in Nat /\ pos <= Size[path]
        BY ReadEndFacts, Constants
    <2> HIDE DEF pos
    <2>2. f \in File /\ f.count = 1 /\ f.pos <= Size[f.inode]
        BY <2>1, NewFileFacts
    <2>3. Install(p, i, f)
        BY <1>3 DEF pos
    <2> HIDE DEF f
    <2> QED BY <1>1, <1>3, <2>2, <2>3, InstallKeeps
<1> QED BY <1>2, <1>3 DEF Load

LEMMA InitIInv == Init => IInv
<1> SUFFICES ASSUME Init PROVE IInv
    OBVIOUS
<1>1. TypeOK
    <2>1. file \in Seq(File) /\ DOMAIN file = {}
        BY DEF Init
    <2>2. fd \in [Proc -> [Slot -> Nat]] /\ \A p \in Proc, i \in Slot : fd[p][i] = None
        BY DEF Init, None
    <2>3. pids \in Proc /\ icount \in [Inode -> Nat] /\ exited \subseteq 1..pids
        BY Constants DEF Init, Proc
    <2> QED BY <2>1, <2>2, <2>3 DEF Init, TypeOK
<1>2. \A inode \in Inode : icount[inode] = Cardinality({f \in DOMAIN file : file[f].inode = inode})
    <2> TAKE inode \in Inode
    <2>1. {f \in DOMAIN file : file[f].inode = inode} = {}
        BY DEF Init
    <2> QED BY <2>1, FS_EmptySet DEF Init
<1>3. CountsMatch
    BY <1>1, <1>2 DEF Init, CountsMatch
<1>4. TablesFill
    <2>1. 0 \in 0..FdScan /\ \A i \in Slot : ~(i < 0)
        BY Constants DEF Slot
    <2> QED BY <2>1 DEF Init, TablesFill
<1>5. OnceEach /\ Unborn
    BY DEF Init, OnceEach, Unborn
<1> QED BY <1>3, <1>4, <1>5 DEF IInv

LEMMA NextIInv == IInv /\ [Next]_vars => IInv'
<1> SUFFICES ASSUME IInv, [Next]_vars PROVE IInv'
    OBVIOUS
<1>0. TypeOK /\ exited \subseteq 1..pids
    BY DEF IInv, CountsMatch, TypeOK
<1>1. ASSUME NEW p \in Proc, Open(p) PROVE IInv'
    BY <1>1, OpenKeeps
<1>2. ASSUME NEW p \in Proc, Read(p) PROVE IInv'
    <2>1. halted = "no"
        BY <1>2 DEF Read, Runs
    <2>2. CASE Error(EBADF) \/ Error(EINVAL)
        BY <1>0, <2>1, <2>2, OthersKeep DEF Error
    <2>3. ASSUME NEW i, Stray(i) PROVE IInv'
        BY <1>0, <2>1, <2>3, OthersKeep DEF Stray, Fault, Error
    <2>4. ASSUME NEW f \in DOMAIN file, NEW count \in 0..MaxCount, NEW answer,
                 ReadFile(f, count, answer)
          PROVE  IInv'
        BY <2>1, <2>4, ReadFileKeeps
    <2>5. ASSUME NEW i \in Used(p) PROVE fd[p][i] \in DOMAIN file
        BY <1>0 DEF Used, TypeOK
    <2> QED BY <1>2, <2>2, <2>3, <2>4, <2>5 DEF Read
<1>3. ASSUME NEW p \in Proc, Fstat(p) PROVE IInv'
    <2>1. halted = "no"
        BY <1>3 DEF Fstat, Runs
    <2>2. \/ UNCHANGED <<fd, file, icount, pids, exited, halted>>
          \/ UNCHANGED <<fd, file, icount, pids, exited>> /\ halted' \in {"panic", "astray"}
        BY <1>3 DEF Fstat, Stray, Error, Fault
    <2> QED BY <1>0, <2>1, <2>2, OthersKeep
<1>4. ASSUME NEW p \in Proc, Load(p) PROVE IInv'
    BY <1>4, LoadKeeps
<1>5. ASSUME NEW p \in Proc, Fork(p) PROVE IInv'
    BY <1>5, ForkKeeps
<1>6. ASSUME NEW p \in Proc, Exit(p) PROVE IInv'
    <2>1. halted = "no" /\ p \in 1..pids
        BY <1>6 DEF Exit, Runs
    <2>2. CASE Fault
        BY <1>0, <2>1, <2>2, OthersKeep DEF Fault
    <2>3. CASE exited' = exited \cup {p} /\ UNCHANGED <<fd, file, icount, pids, halted>>
        BY <1>0, <2>1, <2>3, OthersKeep
    <2> QED BY <1>6, <2>2, <2>3 DEF Exit
<1>7. CASE UNCHANGED vars
    BY <1>0, <1>7, OthersKeep DEF vars
<1> QED BY <1>1, <1>2, <1>3, <1>4, <1>5, <1>6, <1>7 DEF Next, Stopped

LEMMA IInvInvariant == Spec => []IInv
  BY InitIInv, NextIInv, PTL DEF Spec

(***************************************************************************)
(* For every number of processes, slots and files: a file counts the slots *)
(* that hold it, an inode the files opened on it.                          *)
(***************************************************************************)
THEOREM CountsAreReferences == Spec => []CountsMatch
<1>1. IInv => CountsMatch
    BY DEF IInv
<1> QED BY <1>1, IInvInvariant, PTL

(***************************************************************************)
(* For every number of slots: tables only fill, from the first slot on,    *)
(* and the store in front of a table needs a full one.                     *)
(***************************************************************************)
THEOREM DescriptorsFillUp == Spec => []TablesFill
<1>1. IInv => TablesFill
    BY DEF IInv
<1> QED BY <1>1, IInvInvariant, PTL

-----------------------------------------------------------------------------
(* The calls are those of OpenFiles.                                       *)

Table == [p \in Proc |-> Held(p)]

\* What a program sees of its table.
HeldFacts ==
    \A p \in Proc :
        /\ Held(p) \in [Slot -> Nat] /\ Table[p] = Held(p)
        /\ p \notin exited => Held(p) = fd[p]
        /\ p \in exited => \A i \in Slot : Held(p)[i] = None

LEMMA HeldNow == TypeOK => HeldFacts
  BY DEF HeldFacts, TypeOK, Held, Table, None

\* The open files a living process refers to, and what is seen of them.
IsReferred(f) == f \in DOMAIN file /\ \E q \in Proc \ exited, i \in Slot : fd[q][i] = f

Seen(f) == [inode |-> file[f].inode, readable |-> Readable(file[f].mode), pos |-> file[f].pos]

ViewFacts ==
    /\ View = [f \in DOMAIN View |-> View[f]]
    /\ \A f : f \in DOMAIN View <=> IsReferred(f)
    /\ \A f \in DOMAIN View : View[f] = Seen(f)

LEMMA ViewNow == TypeOK => ViewFacts
<1> SUFFICES ASSUME TypeOK PROVE ViewFacts
    OBVIOUS
<1>1. ASSUME NEW f PROVE f \in Referred <=> IsReferred(f)
    <2>1. ASSUME f \in Referred PROVE IsReferred(f)
        <3>1. PICK q \in Proc, i \in Slot : f \in DOMAIN file /\ Held(q)[i] = f
            BY <2>1 DEF Referred
        <3>2. f # None
            BY <3>1, FileFields DEF None
        <3>3. q \notin exited /\ fd[q][i] = f
            BY <3>1, <3>2, HeldNow DEF HeldFacts
        <3> QED BY <3>1, <3>3 DEF IsReferred
    <2>2. ASSUME f \in DOMAIN file, NEW q \in Proc \ exited, NEW i \in Slot, fd[q][i] = f
          PROVE  f \in Referred
        <3>1. Held(q)[i] = f
            BY <2>2, HeldNow DEF HeldFacts
        <3> QED BY <2>2, <3>1 DEF Referred
    <2> QED BY <2>1, <2>2 DEF IsReferred
<1>2. DOMAIN View = Referred /\ View = [f \in Referred |-> Seen(f)]
    BY DEF View, Seen
<1>3. \A f \in Referred : View[f] = Seen(f)
    BY <1>2
<1> QED BY <1>1, <1>2, <1>3 DEF ViewFacts

LEMMA TypesNow == IInv => TypeOK /\ HeldFacts /\ ViewFacts
  BY HeldNow, ViewNow DEF IInv, CountsMatch

LEMMA TypesNext == IInv' => TypeOK' /\ HeldFacts' /\ ViewFacts'
  BY TypesNow, PTL

\* Nothing a program can see changes.
LEMMA ViewStays ==
    ASSUME IInv, IInv', \A f : IsReferred(f)' <=> IsReferred(f),
           \A f : IsReferred(f) => Seen(f)' = Seen(f)
    PROVE  View' = View
<1>1. ViewFacts /\ ViewFacts'
    BY TypesNow, TypesNext
<1>2. DOMAIN View' = DOMAIN View
    BY <1>1 DEF ViewFacts
<1>3. \A f \in DOMAIN View : View'[f] = View[f]
    BY <1>1, <1>2 DEF ViewFacts
<1> QED BY <1>1, <1>2, <1>3 DEF ViewFacts

\* virt_fs_open with a free slot opens a file.
LEMMA InstallOpens ==
    ASSUME IInv, IInv', halted = "no", NEW p \in Proc, p \notin exited,
           NEW i \in (0..(FdScan - 1)) \cup {-EINVAL}, FdFind(p, i), i >= 0, Len(file) < MaxFile,
           NEW f \in File, Install(p, i, f), UNCHANGED <<pids, exited>>
    PROVE  \E d \in (1..MaxFile) \ DOMAIN View :
               Abstract!Opened(p, i, d, f.inode, Readable(f.mode), f.pos)
<1>0. PICK d : d = Len(file) + 1
    OBVIOUS
<1>1. /\ TypeOK /\ TypeOK' /\ file \in Seq(File) /\ Len(file) \in Nat
      /\ fd \in [Proc -> [Slot -> Nat]]
    <2>1. TypeOK /\ TypeOK'
        BY TypesNow, TypesNext
    <2> QED BY <2>1 DEF TypeOK
<1>2. /\ file' = Append(file, f) /\ Len(file') = d
      /\ DOMAIN file = 1..Len(file) /\ DOMAIN file' = 1..d
      /\ \A k \in DOMAIN file : file'[k] = file[k]
      /\ file'[d] = f /\ fd' = [fd EXCEPT ![p][i] = d]
    BY <1>0, <1>1 DEF Install
<1>3. /\ d \in 1..MaxFile /\ d \notin DOMAIN file /\ d # None
      /\ \A k : k \in DOMAIN file' <=> k \in DOMAIN file \/ k = d
    BY <1>0, <1>1, <1>2, FilesAssumption DEF None
<1>4. /\ i \in Slot /\ fd[p][i] = None
      /\ \A j \in Slot : fd[p][j] # None <=> j < i
    BY FdFindFacts
<1>5. HeldFacts /\ HeldFacts' /\ ViewFacts /\ ViewFacts'
    BY TypesNow, TypesNext
<1>6. ASSUME NEW q \in Proc, NEW j \in Slot
      PROVE  fd'[q][j] = IF q = p /\ j = i THEN d ELSE fd[q][j]
    BY <1>1, <1>2, <1>4
<1>7. Table' = [Table EXCEPT ![p][i] = d]
    <2>1. Held(p)' = [Held(p) EXCEPT ![i] = d]
        BY <1>1, <1>2, <1>4 DEF Held
    <2>2. \A q \in Proc : q # p => Held(q)' = Held(q)
        BY <1>1, <1>2 DEF Held
    <2> QED BY <2>1, <2>2 DEF Table
<1>8. \A k : IsReferred(k)' <=> IsReferred(k) \/ k = d
    <2> TAKE k
    <2>1. CASE k = d
        <3>1. fd'[p][i] = d /\ p \in Proc \ exited'
            BY <1>4, <1>6
        <3> QED BY <1>3, <1>4, <2>1, <3>1 DEF IsReferred
    <2>2. CASE k # d
        <3>1. ASSUME k \in DOMAIN file, NEW q \in Proc, NEW j \in Slot
              PROVE  fd'[q][j] = k <=> fd[q][j] = k
            <4>1. k # None
                BY <1>1, <3>1, FileFields DEF None
            <4> QED BY <1>4, <1>6, <2>2, <4>1
        <3> QED BY <1>3, <2>2, <3>1 DEF IsReferred
    <2> QED BY <2>1, <2>2
<1>9. d \notin DOMAIN View
    BY <1>3, <1>5 DEF ViewFacts, IsReferred
<1>10. View' = [e \in DOMAIN View \cup {d} |->
                  IF e = d THEN [inode |-> f.inode, readable |-> Readable(f.mode), pos |-> f.pos]
                  ELSE View[e]]
    <2>1. DOMAIN View' = DOMAIN View \cup {d}
        BY <1>5, <1>8 DEF ViewFacts
    <2>2. View'[d] = [inode |-> f.inode, readable |-> Readable(f.mode), pos |-> f.pos]
        <3>1. d \in DOMAIN View' /\ View'[d] = Seen(d)'
            BY <1>5, <2>1 DEF ViewFacts
        <3>2. Seen(d)' = [inode |-> f.inode, readable |-> Readable(f.mode), pos |-> f.pos]
            BY <1>2 DEF Seen
        <3> QED BY <3>1, <3>2
    <2>3. ASSUME NEW e \in DOMAIN View PROVE View'[e] = View[e]
        <3>1. e \in DOMAIN file /\ e \in DOMAIN View'
            BY <1>5, <2>1 DEF ViewFacts, IsReferred
        <3>2. file'[e] = file[e]
            BY <1>2, <3>1
        <3> QED BY <1>5, <3>1, <3>2 DEF ViewFacts, Seen
    <2> QED BY <1>5, <1>9, <2>1, <2>2, <2>3 DEF ViewFacts
<1>11. Abstract!IsFree(p, i)
    <2>1. Held(p) = fd[p] /\ Table[p] = Held(p)
        BY <1>5 DEF HeldFacts
    <2> QED BY <1>4, <2>1 DEF Abstract!IsFree, Table
<1> QED BY <1>3, <1>7, <1>9, <1>10, <1>11 DEF Abstract!Opened, Table

\* The store in front of a table is the end, as a panic is.
LEMMA InstallStops ==
    ASSUME IInv, IInv', halted = "no", NEW p \in Proc, NEW i, ~(i >= 0),
           NEW f \in File, Install(p, i, f), UNCHANGED <<pids, exited>>,
           ret' = <<"open", i>> \/ ret' = <<"error", i>>
    PROVE  Abstract!Stop
<1>0. ASSUME NEW k PROVE <<"open", i>> # <<"beyond", k>> /\ <<"error", i>> # <<"beyond", k>>
    OBVIOUS
<1>1. /\ TypeOK /\ TypeOK' /\ file \in Seq(File) /\ UNCHANGED fd /\ halted' = "corrupt"
      /\ file' = Append(file, f)
    <2>1. TypeOK /\ TypeOK'
        BY TypesNow, TypesNext
    <2>2. file \in Seq(File)
        BY <2>1 DEF TypeOK
    <2> QED BY <2>1, <2>2 DEF Install
<1>2. /\ \A k \in DOMAIN file : k \in DOMAIN file' /\ file'[k] = file[k]
    BY <1>1
<1>3. \A k : IsReferred(k)' <=> IsReferred(k)
    <2> TAKE k
    <2>1. ASSUME IsReferred(k)' PROVE IsReferred(k)
        <3>1. PICK q \in Proc \ exited, j \in Slot : k \in DOMAIN file' /\ fd[q][j] = k
            BY <1>1, <2>1 DEF IsReferred
        <3>2. k # None
            BY <1>1, <3>1 DEF None
        <3>3. k \in DOMAIN file
            BY <1>1, <3>1, <3>2 DEF TypeOK
        <3> QED BY <3>1, <3>3 DEF IsReferred
    <2> QED BY <1>1, <1>2, <2>1 DEF IsReferred
<1>4. \A k : IsReferred(k) => Seen(k)' = Seen(k)
    BY <1>2 DEF IsReferred, Seen
<1>5. View' = View
    BY <1>3, <1>4, ViewStays
<1>6. Table' = Table
    BY <1>1 DEF Table, Held
<1>7. ASSUME NEW k \in Slot PROVE ret' # <<"beyond", k>>
    BY <1>0
<1> QED BY <1>1, <1>5, <1>6, <1>7 DEF Abstract!Stop, Table

LEMMA FaultStops == Fault => Abstract!Stop
<1>1. Fault => View' = View /\ Table' = Table
    BY DEF Fault, View, Referred, Table, Held
<1>2. \A k : << >> # <<"beyond", k>>
    OBVIOUS
<1> QED BY <1>1, <1>2 DEF Fault, Abstract!Stop, Table

LEMMA ErrorRefuses ==
    ASSUME NEW e \in {ENOENT, EBADF, EEXIST, EINVAL}, Error(e), halted = "no"
    PROVE  Abstract!Refused
<1>1. View' = View /\ Table' = Table
    BY DEF Error, View, Referred, Table, Held
<1> QED BY <1>1 DEF Error, Abstract!Refused, Table

\* What follows from the word behind a table is what OpenFiles allows there.
LEMMA StraysAllowed ==
    ASSUME NEW i \in Beyond, Stray(i), halted = "no"
    PROVE  Abstract!Refused \/ Abstract!Stop \/ Abstract!Astray
<1>1. CASE Error(EBADF)
    BY <1>1, ErrorRefuses
<1>2. CASE Fault
    BY <1>2, FaultStops
<1>3. CASE /\ halted' = "astray" /\ ret' = <<"beyond", i>>
           /\ UNCHANGED <<fd, file, icount, pids, exited>>
    <2>1. View' = View /\ Table' = Table
        BY <1>3 DEF View, Referred, Table, Held
    <2> QED BY <1>3, <2>1 DEF Abstract!Astray, Table
<1> QED BY <1>1, <1>2, <1>3 DEF Stray

LEMMA OpenRefines ==
    ASSUME IInv, IInv', NEW p \in Proc, Open(p)
    PROVE  Abstract!Open(p) \/ Abstract!Refused \/ Abstract!Stop
<1>1. halted = "no" /\ p \notin exited
    BY DEF Open, Runs
<1>2. PICK path \in Inode \cup {Missing}, acc \in AccMode :
          \/ Fault \/ \E e \in {ENOENT, EEXIST} : Error(e)
          \/ /\ path \in Inode
             /\ \E i \in (0..(FdScan - 1)) \cup {-EINVAL} :
                   /\ FdFind(p, i)
                   /\ i >= 0 => Len(file) < MaxFile
                   /\ Install(p, i, NewFile(path, acc))
                   /\ ret' = <<"open", i>>
             /\ UNCHANGED <<pids, exited>>
    BY DEF Open
<1>3. CASE Fault \/ \E e \in {ENOENT, EEXIST} : Error(e)
    BY <1>1, <1>3, FaultStops, ErrorRefuses
<1>4. ASSUME path \in Inode, NEW i \in (0..(FdScan - 1)) \cup {-EINVAL}, FdFind(p, i),
             i >= 0 => Len(file) < MaxFile, Install(p, i, NewFile(path, acc)),
             ret' = <<"open", i>>, UNCHANGED <<pids, exited>>
      PROVE  Abstract!Open(p) \/ Abstract!Stop
    <2> DEFINE f == NewFile(path, acc)
    <2>1. f \in File /\ f.inode = path /\ f.pos = 0
        <3>1. acc \in 0..3 /\ 0 \in Nat
            BY FilesAssumption
        <3> QED BY <1>4, <3>1, NewFileFields
    <2>2. Install(p, i, f)
        BY <1>4
    <2> HIDE DEF f
    <2>3. CASE i >= 0
        <3>1. PICK d \in (1..MaxFile) \ DOMAIN View :
                  Abstract!Opened(p, i, d, f.inode, Readable(f.mode), f.pos)
            BY <1>1, <1>4, <2>1, <2>2, <2>3, InstallOpens
        <3>2. Abstract!Opened(p, i, d, path, Readable(f.mode), 0) /\ Readable(f.mode) \in BOOLEAN
            BY <2>1, <3>1 DEF Readable
        <3>3. i \in Slot /\ halted' = halted
            BY <1>4, <2>3, FdFindFacts DEF Install
        <3> QED BY <1>1, <1>4, <3>2, <3>3 DEF Abstract!Open
    <2>4. CASE ~(i >= 0)
        BY <1>1, <1>4, <2>1, <2>2, <2>4, InstallStops
    <2> QED BY <2>3, <2>4
<1> QED BY <1>2, <1>3, <1>4

LEMMA LoadRefines ==
    ASSUME IInv, IInv', NEW p \in Proc, Load(p)
    PROVE  Abstract!Load(p) \/ Abstract!Stop
<1>1. halted = "no" /\ p \notin exited
    BY DEF Load, Runs
<1>2. CASE Fault
    BY <1>2, FaultStops
<1>3. ASSUME NEW path \in Inode, NEW i \in (0..(FdScan - 1)) \cup {-EINVAL}, FdFind(p, i),
             i >= 0 => Len(file) < MaxFile,
             Install(p, i, [NewFile(path, 2) EXCEPT
                               !.pos = IF i >= 0 THEN ReadEnd(path, 0, Size[path]) ELSE 0]),
             ret' = IF i >= 0 THEN <<"load", path>> ELSE <<"error", i>>,
             UNCHANGED <<pids, exited>>
      PROVE  Abstract!Load(p) \/ Abstract!Stop
    <2>1. PICK pos : pos = IF i >= 0 THEN ReadEnd(path, 0, Size[path]) ELSE 0
        OBVIOUS
    <2>2. pos \in Nat /\ (i >= 0 => pos = Size[path])
        BY <2>1, Constants DEF ReadEnd
    <2> DEFINE f == [NewFile(path, 2) EXCEPT !.pos = pos]
    <2>3. f \in File /\ f.inode = path /\ f.pos = pos /\ Readable(f.mode) = TRUE
        <3>1. /\ f \in File /\ f.inode = path /\ f.pos = pos
              /\ f.mode = NewFile(path, 2).mode
            BY <2>2, NewFileFacts
        <3>2. NewFile(path, 2).mode = 3
            BY DEF NewFile, OpenFmode
        <3>3. Readable(3) = TRUE
            BY DEF Readable
        <3> QED BY <3>1, <3>2, <3>3
    <2>4. Install(p, i, f)
        BY <1>3, <2>1
    <2> HIDE DEF f
    <2>5. CASE i >= 0
        <3>1. PICK d \in (1..MaxFile) \ DOMAIN View :
                  Abstract!Opened(p, i, d, f.inode, Readable(f.mode), f.pos)
            BY <1>1, <1>3, <2>3, <2>4, <2>5, InstallOpens
        <3>2. Abstract!Opened(p, i, d, path, TRUE, Size[path])
            BY <2>2, <2>3, <2>5, <3>1
        <3>3. i \in Slot /\ halted' = halted
            BY <1>3, <2>5, FdFindFacts DEF Install
        <3> QED BY <1>1, <1>3, <2>5, <3>2, <3>3 DEF Abstract!Load
    <2>6. CASE ~(i >= 0)
        BY <1>1, <1>3, <2>3, <2>4, <2>6, InstallStops
    <2> QED BY <2>5, <2>6
<1> QED BY <1>2, <1>3 DEF Load

\* A slot of a living process, as the program sees it.
LEMMA SlotSeen ==
    ASSUME IInv, NEW p \in Proc, p \notin exited, NEW i \in Slot, fd[p][i] # None
    PROVE  /\ Table[p][i] = fd[p][i] /\ fd[p][i] \in DOMAIN file
           /\ fd[p][i] \in DOMAIN View /\ View[fd[p][i]] = Seen(fd[p][i])
<1>1. TypeOK /\ HeldFacts /\ ViewFacts
    BY TypesNow
<1>2. fd[p][i] \in DOMAIN file
    BY <1>1 DEF TypeOK
<1>3. IsReferred(fd[p][i])
    BY <1>2 DEF IsReferred
<1> QED BY <1>1, <1>2, <1>3 DEF HeldFacts, ViewFacts

\* What a read changes, seen by the programs: one offset, if any of them has the
\* file.
LEMMA ReadSeen ==
    ASSUME IInv, IInv', NEW f \in DOMAIN file, NEW count \in 0..MaxCount, NEW end,
           end = ReadEnd(file[f].inode, file[f].pos, count),
           file' = [file EXCEPT ![f].pos = end],
           UNCHANGED <<fd, icount, pids, exited, halted>>
    PROVE  /\ Table' = Table
           /\ f \in DOMAIN View => /\ View' = [View EXCEPT ![f].pos = end]
                                   /\ end \in View[f].pos..Size[View[f].inode]
           /\ f \notin DOMAIN View => View' = View
<1>1. TypeOK /\ TypeOK' /\ ViewFacts /\ ViewFacts'
    BY TypesNow, TypesNext
<1>2. /\ DOMAIN file' = DOMAIN file
      /\ file'[f] = [file[f] EXCEPT !.pos = end]
      /\ \A k \in DOMAIN file : k # f => file'[k] = file[k]
      /\ file[f] \in File
    <2>1. file \in Seq(File)
        BY <1>1 DEF TypeOK
    <2> QED BY <2>1
<1>3. DOMAIN View' = DOMAIN View
    BY <1>1, <1>2 DEF ViewFacts, IsReferred
<1>4. ASSUME NEW e \in DOMAIN View, e # f PROVE View'[e] = View[e]
    <2>1. e \in DOMAIN file
        BY <1>1 DEF ViewFacts, IsReferred
    <2> QED BY <1>1, <1>2, <1>3, <1>4, <2>1 DEF ViewFacts, Seen
<1>5. ASSUME f \in DOMAIN View
      PROVE  /\ View' = [View EXCEPT ![f].pos = end]
             /\ end \in View[f].pos..Size[View[f].inode]
    <2>1. View[f] = Seen(f)
        BY <1>1, <1>5 DEF ViewFacts
    <2>2. View'[f] = [View[f] EXCEPT !.pos = end]
        <3>1. View'[f] = [inode |-> file'[f].inode, readable |-> Readable(file'[f].mode),
                          pos |-> file'[f].pos]
            BY <1>1, <1>3, <1>5 DEF ViewFacts, Seen
        <3>2. file'[f].inode = file[f].inode /\ file'[f].mode = file[f].mode /\ file'[f].pos = end
            BY <1>2 DEF File
        <3> QED BY <2>1, <3>1, <3>2 DEF Seen
    <2>3. View' = [View EXCEPT ![f].pos = end]
        BY <1>1, <1>3, <1>4, <1>5, <2>2 DEF ViewFacts
    <2>4. /\ file[f].inode \in Inode /\ file[f].pos \in Nat /\ count \in Nat
          /\ file[f].pos <= Size[file[f].inode] /\ Size[file[f].inode] \in Nat
        BY <1>1, FileFields, FilesAssumption DEF TypeOK
    <2>5. end \in Nat /\ file[f].pos <= end /\ end <= Size[file[f].inode]
        BY <2>4, ReadEndFacts
    <2>6. end \in file[f].pos..Size[file[f].inode]
        BY <2>4, <2>5
    <2>7. View[f].inode = file[f].inode /\ View[f].pos = file[f].pos
        BY <2>1 DEF Seen
    <2> QED BY <2>3, <2>6, <2>7
<1>6. ASSUME f \notin DOMAIN View PROVE View' = View
    <2>1. \A e \in DOMAIN View : View'[e] = View[e]
        BY <1>4, <1>6
    <2> QED BY <1>1, <1>3, <2>1 DEF ViewFacts
<1>7. Table' = Table
    BY DEF Table, Held
<1> QED BY <1>5, <1>6, <1>7

\* The two reads that reach a file: of a slot, and of a number behind the table.
LEMMA SlotReadRefines ==
    ASSUME IInv, IInv', halted = "no", NEW p \in Proc, p \notin exited, NEW i \in Used(p),
           NEW count \in 0..MaxCount, ReadFile(fd[p][i], count, Bytes(fd[p][i], count))
    PROVE  Abstract!Read(p) \/ Abstract!Refused \/ Abstract!Stop
<1>1. CASE Error(EINVAL) \/ Fault
    BY <1>1, FaultStops, ErrorRefuses
<1>2. CASE ~(Error(EINVAL) \/ Fault)
    <2>1. i \in Slot /\ fd[p][i] # None
        BY DEF Used
    <2>2. PICK f : f = fd[p][i]
        OBVIOUS
    <2>3. PICK end : end = ReadEnd(file[f].inode, file[f].pos, count)
        OBVIOUS
    <2>4. /\ Readable(file[f].mode) /\ file' = [file EXCEPT ![f].pos = end]
          /\ ret' = <<"read", file[f].inode, file[f].pos, end>>
          /\ UNCHANGED <<fd, icount, pids, exited, halted>>
        BY <1>2, <2>2, <2>3 DEF ReadFile, Bytes
    <2>5. /\ Table[p][i] = f /\ f \in DOMAIN file /\ f # None
          /\ f \in DOMAIN View /\ View[f] = Seen(f)
        BY <2>1, <2>2, SlotSeen
    <2>6. /\ View[f].readable = Readable(file[f].mode) /\ View[f].inode = file[f].inode
          /\ View[f].pos = file[f].pos
        BY <2>5 DEF Seen
    <2>7. /\ Table' = Table /\ View' = [View EXCEPT ![f].pos = end]
          /\ end \in View[f].pos..Size[View[f].inode]
        <3>1. f \in DOMAIN file /\ f \in DOMAIN View
            BY <2>5
        <3>2. file' = [file EXCEPT ![f].pos = end] /\ UNCHANGED <<fd, icount, pids, exited, halted>>
            BY <2>4
        <3>3. end = ReadEnd(file[f].inode, file[f].pos, count)
            BY <2>3
        <3> QED BY <3>1, <3>2, <3>3, ReadSeen
    <2>8. /\ i \in Slot /\ Table[p][i] # None /\ View[Table[p][i]].readable
          /\ end \in View[Table[p][i]].pos..Size[View[Table[p][i]].inode]
          /\ ret' = <<"read", View[Table[p][i]].inode, View[Table[p][i]].pos, end>>
          /\ View' = [View EXCEPT ![Table[p][i]].pos = end]
        BY <2>1, <2>4, <2>5, <2>6, <2>7
    <2>9. Abstract!Read(p)
        BY <2>4, <2>7, <2>8 DEF Abstract!Read, Table
    <2> QED BY <2>9
<1> QED BY <1>1, <1>2

LEMMA ForeignReadAllowed ==
    ASSUME IInv, IInv', halted = "no", NEW i \in Beyond, NEW f \in DOMAIN file,
           NEW count \in 0..MaxCount, ReadFile(f, count, <<"beyond", i>>)
    PROVE  Abstract!Astray \/ Abstract!Refused \/ Abstract!Stop
<1>1. CASE Error(EINVAL) \/ Fault
    BY <1>1, FaultStops, ErrorRefuses
<1>2. CASE ~(Error(EINVAL) \/ Fault)
    <2>1. PICK end : end = ReadEnd(file[f].inode, file[f].pos, count)
        OBVIOUS
    <2>2. /\ Readable(file[f].mode) /\ file' = [file EXCEPT ![f].pos = end]
          /\ ret' = <<"beyond", i>>
          /\ UNCHANGED <<fd, icount, pids, exited, halted>>
        BY <1>2, <2>1 DEF ReadFile
    <2>3. /\ Table' = Table
          /\ f \in DOMAIN View => /\ View' = [View EXCEPT ![f].pos = end]
                                  /\ end \in View[f].pos..Size[View[f].inode]
          /\ f \notin DOMAIN View => View' = View
        BY <2>1, <2>2, ReadSeen
    <2>4. CASE f \in DOMAIN View
        <3>1. View[f].readable
            <4>1. View[f] = Seen(f)
                BY <2>4, TypesNow DEF ViewFacts
            <4> QED BY <2>2, <4>1 DEF Seen
        <3> QED BY <2>2, <2>3, <2>4, <3>1 DEF Abstract!Astray, Table
    <2>5. CASE f \notin DOMAIN View
        BY <2>2, <2>3, <2>5 DEF Abstract!Astray, Table
    <2> QED BY <2>4, <2>5
<1> QED BY <1>1, <1>2

LEMMA ReadRefines ==
    ASSUME IInv, IInv', NEW p \in Proc, Read(p)
    PROVE  Abstract!Read(p) \/ Abstract!Refused \/ Abstract!Stop \/ Abstract!Astray
<1>1. halted = "no" /\ p \notin exited
    BY DEF Read, Runs
<1>2. CASE Error(EBADF) \/ Error(EINVAL)
    BY <1>1, <1>2, ErrorRefuses
<1>3. ASSUME NEW count \in 0..MaxCount, NEW i \in Used(p),
             ReadFile(fd[p][i], count, Bytes(fd[p][i], count))
      PROVE  Abstract!Read(p) \/ Abstract!Refused \/ Abstract!Stop
    BY <1>1, <1>3, SlotReadRefines
<1>4. ASSUME NEW i \in Beyond, Stray(i)
      PROVE  Abstract!Refused \/ Abstract!Stop \/ Abstract!Astray
    BY <1>1, <1>4, StraysAllowed
<1>5. ASSUME NEW count \in 0..MaxCount, NEW i \in Beyond, NEW f \in DOMAIN file,
             ReadFile(f, count, <<"beyond", i>>)
      PROVE  Abstract!Astray \/ Abstract!Refused \/ Abstract!Stop
    BY <1>1, <1>5, ForeignReadAllowed
<1> QED BY <1>2, <1>3, <1>4, <1>5 DEF Read

LEMMA FstatRefines ==
    ASSUME IInv, NEW p \in Proc, Fstat(p)
    PROVE  Abstract!Fstat(p) \/ Abstract!Refused \/ Abstract!Stop \/ Abstract!Astray
<1>1. halted = "no" /\ p \notin exited
    BY DEF Fstat, Runs
<1>2. CASE Error(EBADF)
    BY <1>1, <1>2, ErrorRefuses
<1>3. ASSUME UNCHANGED <<fd, file, icount, pids, exited, halted>>
      PROVE  View' = View /\ Table' = Table
    BY <1>3 DEF View, Referred, Table, Held
<1>4. ASSUME NEW i \in Used(p), ret' = <<"fstat", file[fd[p][i]].inode>>,
             UNCHANGED <<fd, file, icount, pids, exited, halted>>
      PROVE  Abstract!Fstat(p)
    <2>1. i \in Slot /\ fd[p][i] # None
        BY DEF Used
    <2>2. Table[p][i] = fd[p][i] /\ View[fd[p][i]].inode = file[fd[p][i]].inode
        <3>1. PICK f : f = fd[p][i]
            OBVIOUS
        <3>2. Table[p][i] = f /\ View[f] = Seen(f)
            BY <1>1, <2>1, <3>1, SlotSeen
        <3>3. View[f].inode = file[f].inode
            BY <3>2 DEF Seen
        <3> QED BY <3>1, <3>2, <3>3
    <2>3. Table[p][i] # None /\ ret' = <<"fstat", View[Table[p][i]].inode>>
        BY <1>4, <2>1, <2>2
    <2> QED BY <1>3, <1>4, <2>1, <2>3 DEF Abstract!Fstat, Table
<1>5. ASSUME NEW i \in Beyond, ret' = <<"beyond", i>>,
             UNCHANGED <<fd, file, icount, pids, exited, halted>>
      PROVE  Abstract!Astray
    BY <1>3, <1>5 DEF Abstract!Astray, Table
<1>6. ASSUME NEW i \in Beyond, Stray(i)
      PROVE  Abstract!Refused \/ Abstract!Stop \/ Abstract!Astray
    BY <1>1, <1>6, StraysAllowed
<1> QED BY <1>2, <1>4, <1>5, <1>6 DEF Fstat

LEMMA ForkRefines ==
    ASSUME IInv, IInv', NEW p \in Proc, Fork(p)
    PROVE  Abstract!Fork(p)
<1>1. PICK c : c = pids + 1
    OBVIOUS
<1>2. /\ TypeOK /\ TypeOK' /\ HeldFacts /\ ViewFacts /\ ViewFacts'
    BY TypesNow, TypesNext
<1>3. /\ p \notin exited /\ c \in Proc /\ c # p /\ c \notin exited
      /\ \A q \in Proc : q > pids <=> q >= c
    BY <1>1, <1>2, Constants DEF Fork, Runs, Proc, TypeOK
<1>4. /\ fd' = [fd EXCEPT ![c] = fd[p]] /\ ret' = <<"fork", c>>
      /\ file' = [f \in DOMAIN file |->
                     IF Counted(p, f) THEN [file[f] EXCEPT !.count = @ + 1] ELSE file[f]]
      /\ UNCHANGED <<exited, halted>>
    BY <1>1 DEF Fork
<1>5. fd \in [Proc -> [Slot -> Nat]] /\ file \in Seq(File)
    BY <1>2 DEF TypeOK
<1>6. \A i \in Slot : fd[c][i] = None
    BY <1>1, <1>2, <1>3 DEF IInv, Unborn, TypeOK, Proc
<1>7. Table[c] = Abstract!Closed
    <2>1. Table[c] = fd[c] /\ fd[c] = [i \in Slot |-> fd[c][i]]
        BY <1>2, <1>3, <1>5 DEF HeldFacts
    <2> QED BY <1>6, <2>1 DEF Abstract!Closed
<1>8. Table' = [Table EXCEPT ![c] = Table[p]]
    BY <1>3, <1>4, <1>5 DEF Table, Held
<1>9. ASSUME NEW q \in Proc, NEW j \in Slot
      PROVE  fd'[q][j] = IF q = c THEN fd[p][j] ELSE fd[q][j]
    BY <1>3, <1>4, <1>5
<1>10. \A f : IsReferred(f)' <=> IsReferred(f)
    <2> TAKE f
    <2>1. DOMAIN file' = DOMAIN file
        BY <1>4
    <2>2. f \in DOMAIN file => f # None
        BY <1>2, FileFields DEF None
    <2>3. IsReferred(f)' => IsReferred(f)
        BY <1>3, <1>4, <1>9, <2>1 DEF IsReferred
    <2>4. ASSUME IsReferred(f) PROVE IsReferred(f)'
        <3>1. PICK q \in Proc \ exited, j \in Slot : f \in DOMAIN file /\ fd[q][j] = f
            BY <2>4 DEF IsReferred
        <3>2. q # c
            BY <1>6, <2>2, <3>1
        <3> QED BY <1>4, <1>9, <2>1, <3>1, <3>2 DEF IsReferred
    <2> QED BY <2>3, <2>4
<1>11. ASSUME NEW f, IsReferred(f) PROVE Seen(f)' = Seen(f)
    <2>1. file[f] \in File /\ f \in DOMAIN file
        BY <1>5, <1>11 DEF IsReferred
    <2>2. /\ file'[f].inode = file[f].inode /\ file'[f].mode = file[f].mode
          /\ file'[f].pos = file[f].pos
        BY <1>4, <2>1 DEF File
    <2> QED BY <2>2 DEF Seen
<1>12. View' = View
    BY <1>10, <1>11, ViewStays
<1> QED BY <1>3, <1>4, <1>7, <1>8, <1>12 DEF Abstract!Fork, Table

LEMMA ExitRefines ==
    ASSUME IInv, IInv', NEW p \in Proc, Exit(p)
    PROVE  Abstract!Exit(p) \/ Abstract!Stop
<1>1. CASE Fault
    BY <1>1, FaultStops
<1>2. CASE /\ exited' = exited \cup {p}
           /\ ret' = <<"exit", p>>
           /\ UNCHANGED <<fd, file, icount, pids, halted>>
    <2>1. /\ TypeOK /\ HeldFacts /\ ViewFacts /\ ViewFacts'
        BY TypesNow, TypesNext
    <2>2. Table' = [Table EXCEPT ![p] = Abstract!Closed]
        <3>1. Held(p)' = Abstract!Closed
            BY <1>2 DEF Held, Abstract!Closed
        <3>2. \A q \in Proc : q # p => Held(q)' = Held(q)
            BY <1>2 DEF Held
        <3> QED BY <3>1, <3>2 DEF Table
    <2> DEFINE kept == {d \in DOMAIN View : \E q \in Proc \ {p}, i \in Slot : Table[q][i] = d}
    <2>3. \A f : f \in DOMAIN View' <=> f \in kept
        <3> TAKE f
        <3>1. ASSUME f \in DOMAIN View' PROVE f \in kept
            <4>1. PICK q \in Proc \ exited', i \in Slot : f \in DOMAIN file /\ fd[q][i] = f
                BY <1>2, <2>1, <3>1 DEF ViewFacts, IsReferred
            <4>2. q \notin exited /\ q # p
                BY <1>2, <4>1
            <4>3. f \in DOMAIN View
                BY <2>1, <4>1, <4>2 DEF ViewFacts, IsReferred
            <4>4. Table[q][i] = f
                BY <2>1, <4>1, <4>2 DEF HeldFacts
            <4> QED BY <4>2, <4>3, <4>4
        <3>2. ASSUME f \in kept PROVE f \in DOMAIN View'
            <4>1. PICK q \in Proc \ {p}, i \in Slot : Table[q][i] = f
                BY <3>2
            <4>2. f \in DOMAIN file /\ f # None
                BY <2>1, <3>2, FileFields DEF ViewFacts, IsReferred, None
            <4>3. q \notin exited /\ fd[q][i] = f
                BY <2>1, <4>1, <4>2 DEF HeldFacts
            <4>4. IsReferred(f)'
                BY <1>2, <4>1, <4>2, <4>3 DEF IsReferred
            <4> QED BY <2>1, <4>4 DEF ViewFacts
        <3> QED BY <3>1, <3>2
    <2>4. DOMAIN View' = kept
        BY <2>3
    <2>5. \A f \in kept : View'[f] = View[f]
        <3> TAKE f \in kept
        <3>1. View'[f] = Seen(f)' /\ View[f] = Seen(f)
            BY <2>1, <2>3 DEF ViewFacts
        <3>2. Seen(f)' = Seen(f)
            BY <1>2 DEF Seen
        <3> QED BY <3>1, <3>2
    <2>6. View' = [f \in kept |-> View[f]]
        <3>1. View' = [f \in DOMAIN View' |-> View'[f]]
            BY <2>1 DEF ViewFacts
        <3> HIDE DEF kept
        <3> QED BY <2>4, <2>5, <3>1
    <2>7. Abstract!Exit(p)
        BY <1>2, <2>2, <2>6 DEF Abstract!Exit, Table
    <2> QED BY <2>7
<1> QED BY <1>1, <1>2 DEF Exit

LEMMA InitRefines == Init => Abstract!Init
<1> SUFFICES ASSUME Init PROVE Abstract!Init
    OBVIOUS
<1>1. Table = [p \in Proc |-> Abstract!Closed]
    BY DEF Init, Table, Held, Abstract!Closed
<1>2. Referred = {}
    BY DEF Init, Referred
<1>3. View = << >>
    BY <1>2 DEF View
<1> QED BY <1>1, <1>3 DEF Init, Abstract!Init, Table

LEMMA NextRefines ==
    ASSUME IInv, IInv', [Next]_vars
    PROVE  [halted = "no" /\ Abstract!Next]_(Abstract!vars)
<1> DEFINE Answer == Abstract!Refused \/ Abstract!Stop \/ Abstract!Astray
<1>1. ASSUME NEW p \in Proc, Open(p)
      PROVE  halted = "no" /\ (Abstract!Open(p) \/ Answer)
    BY <1>1, OpenRefines DEF Open, Runs
<1>2. ASSUME NEW p \in Proc, Read(p)
      PROVE  halted = "no" /\ (Abstract!Read(p) \/ Answer)
    BY <1>2, ReadRefines DEF Read, Runs
<1>3. ASSUME NEW p \in Proc, Fstat(p)
      PROVE  halted = "no" /\ (Abstract!Fstat(p) \/ Answer)
    BY <1>3, FstatRefines DEF Fstat, Runs
<1>4. ASSUME NEW p \in Proc, Load(p)
      PROVE  halted = "no" /\ (Abstract!Load(p) \/ Answer)
    BY <1>4, LoadRefines DEF Load, Runs
<1>5. ASSUME NEW p \in Proc, Fork(p)
      PROVE  halted = "no" /\ Abstract!Fork(p)
    BY <1>5, ForkRefines DEF Fork, Runs
<1>6. ASSUME NEW p \in Proc, Exit(p)
      PROVE  halted = "no" /\ (Abstract!Exit(p) \/ Answer)
    BY <1>6, ExitRefines DEF Exit, Runs
<1>7. CASE UNCHANGED vars
    <2>1. UNCHANGED <<Table, View, ret, (halted = "no")>>
        BY <1>7 DEF vars, Table, Held, View, Referred
    <2> QED BY <2>1 DEF Abstract!vars, Table
<1> QED BY <1>1, <1>2, <1>3, <1>4, <1>5, <1>6, <1>7 DEF Next, Stopped, Abstract!Next

(***************************************************************************)
(* For every number of processes, slots and files, open, read, fstat, the  *)
(* loader, fork and exit are calls on the open files of OpenFiles.         *)
(***************************************************************************)
THEOREM FilesAreOpenFiles == Spec => ImplementsOpenFiles
<1>1. IInv /\ IInv' /\ [Next]_vars => [halted = "no" /\ Abstract!Next]_(Abstract!vars)
    BY NextRefines
<1>2. Init => Abstract!Init
    BY InitRefines
<1> QED BY <1>1, <1>2, IInvInvariant, PTL DEF Spec, ImplementsOpenFiles, Abstract!Spec
=============================================================================
