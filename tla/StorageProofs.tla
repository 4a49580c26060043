---------------------------- MODULE StorageProofs ----------------------------
(***************************************************************************)
(* Proofs about the way from a path to the bytes of a file: what a read of *)
(* the disk copies is what was asked for; the cache of dentries agrees     *)
(* with the disk, and a walk finds what is there; the bytes of a file are  *)
(* read from where they are; the scan of the buses finds every device.     *)
(***************************************************************************)
EXTENDS Ide, Dentries, Ext2, PciScan, FiniteSetTheorems, SequenceTheorems, NaturalsInduction, WellFoundedInduction, TLAPS

(* The status agrees with the command: what drq offers is not over, error   *)
(* means that it failed, and as long as it has sectors left and has not     *)
(* failed it is at work on the next one or has it ready.                    *)
StatusInv ==
    /\ drq => ~busy
    /\ error <=> failed
    /\ failed => left = 0
    /\ left > 0 => busy \/ drq

(* While a read is under way, the buffer has the first i sectors and the    *)
(* disk has the others left, unless it failed.                              *)
Reading == pc \in {"first", "copy", "next"}
FirstSectors == [k \in 1..i |-> Addressed(lba) + k - 1]

ReadInv ==
    /\ Reading => sectors > 0
    /\ pc = "first" => i = 0
    /\ pc = "copy" => i < sectors
    /\ Reading /\ ~failed => left = sectors - i /\ at = Addressed(lba) + i /\ buffer = FirstSectors
    /\ pc = "copy" /\ ~failed => drq
    /\ result # None => pc = "idle"
    /\ result = 0 => sectors > 0 /\ i = sectors /\ (~failed => left = 0 /\ buffer = FirstSectors)

DriveInv ==
    /\ TypeOK /\ buffer \in Seq(Int) /\ StatusInv /\ ReadInv
    /\ ErrorsAreReal /\ IdleBetween

-----------------------------------------------------------------------------
(* The disk: what it does by itself leaves the driver's variables alone.   *)

LEMMA AddressedIsNat == \A l \in Nat : Addressed(l) \in Nat
  BY IdeAssumption DEF Addressed

\* What each of the disk's steps does to its status.
LEMMA DiskFacts ==
    ASSUME TypeOK, StatusInv, Disk
    PROVE  /\ UNCHANGED <<driver, present>>
           /\ {busy', drq', error', failed'} \subseteq BOOLEAN
           /\ at' = at /\ left' \in {0, left} /\ busy /\ ~drq
           /\ failed => failed'
           /\ ~failed' => ~failed /\ left' = left
           /\ drq' => ~error' /\ left' > 0
           /\ StatusInv'
<1>1. /\ busy \in BOOLEAN /\ drq \in BOOLEAN /\ error \in BOOLEAN /\ failed \in BOOLEAN
      /\ left \in Nat
    BY DEF TypeOK
<1>2. CASE Deliver
    BY <1>1, <1>2 DEF Deliver, StatusInv
<1>3. CASE Fail
    BY <1>1, <1>3 DEF Fail, StatusInv
<1>4. CASE Settle
    <2>1. busy /\ busy' = FALSE /\ ~drq /\ drq' = drq /\ error' = error /\ failed' = failed
          /\ left' = left /\ at' = at /\ UNCHANGED <<driver, present>>
        BY <1>4, Zenon DEF Settle, StatusInv
    <2>2. ~drq'
        BY <2>1, Zenon
    <2>3. (error' <=> failed') /\ (failed' => left' = 0)
        BY <2>1 DEF StatusInv
    <2>4. ~(left' > 0)
        BY <1>1, <1>4 DEF Settle, StatusInv
    <2> QED BY <1>1, <2>1, <2>2, <2>3, <2>4 DEF StatusInv
<1> QED BY <1>2, <1>3, <1>4 DEF Disk

LEMMA DiskStep ==
    ASSUME DriveInv, Disk
    PROVE  DriveInv'
<1>1. TypeOK /\ StatusInv
    BY DEF DriveInv
<1>2. /\ UNCHANGED driver /\ UNCHANGED present
      /\ {busy', drq', error', failed'} \subseteq BOOLEAN
      /\ at' = at /\ left' \in {0, left} /\ busy /\ ~drq
      /\ failed => failed'
      /\ ~failed' => ~failed /\ left' = left
      /\ drq' => ~error' /\ left' > 0
      /\ StatusInv'
    BY <1>1, DiskFacts
<1>3. TypeOK' /\ (buffer \in Seq(Int))'
    BY <1>2, IdeAssumption DEF DriveInv, TypeOK, driver
<1>4. ReadInv'
    <2>1. UNCHANGED <<pc, lba, sectors, i, buffer, result, reads>>
        BY <1>2 DEF driver
    <2>2. ~(pc = "copy" /\ ~failed)
        BY <1>2 DEF DriveInv, ReadInv
    <2>3. FirstSectors' = FirstSectors
        BY <2>1 DEF FirstSectors, Addressed
    <2> QED BY <1>2, <2>1, <2>2, <2>3 DEF DriveInv, ReadInv, Reading, Addressed
<1>5. ErrorsAreReal'
    BY <1>2 DEF DriveInv, ErrorsAreReal, driver
<1>6. IdleBetween'
    BY <1>2 DEF DriveInv, IdleBetween, driver
<1> QED BY <1>2, <1>3, <1>4, <1>5, <1>6 DEF DriveInv

-----------------------------------------------------------------------------
(* The driver.                                                             *)

LEMMA DriveFields ==
    ASSUME DriveInv
    PROVE  /\ busy \in BOOLEAN /\ drq \in BOOLEAN /\ error \in BOOLEAN /\ failed \in BOOLEAN
           /\ present \in BOOLEAN /\ left \in 0..MaxSectors /\ at \in Nat
           /\ lba \in Nat /\ sectors \in 0..MaxSectors /\ i \in 0..sectors /\ Len(buffer) = i
           /\ MaxSectors \in Nat \ {0} /\ result \in {0, ENXIO, None} /\ reads \in 0..MaxReads
           /\ buffer \in Seq(Int) /\ (drq => ~error /\ left > 0)
           /\ StatusInv /\ ReadInv /\ ErrorsAreReal /\ IdleBetween
  BY IdeAssumption DEF DriveInv, TypeOK

\* A command leaves a disk that is at work on the first sector.
LEMMA CommandStatus ==
    ASSUME NEW l, NEW n \in Nat \ {0}, Command(l, n)
    PROVE  StatusInv' /\ ~failed' /\ ~drq' /\ left' = n /\ at' = l /\ ~error' /\ busy'
  BY DEF Command, StatusInv

LEMMA DetectStep ==
    ASSUME DriveInv, Detect
    PROVE  DriveInv'
<1>1. UNCHANGED <<lba, sectors, i, buffer, result, reads>> /\ pc = "off" /\ pc' = "identify"
    BY DEF Detect
<1>2. ReadInv' /\ ErrorsAreReal' /\ IdleBetween' /\ (buffer \in Seq(Int))'
    BY <1>1, DriveFields DEF ReadInv, Reading, ErrorsAreReal, IdleBetween, None, ENXIO
<1>3. TypeOK' /\ StatusInv'
    <2>1. CASE present /\ Command(0, 1)
        <3>1. {present', busy', drq', error', failed'} \subseteq BOOLEAN
            BY <2>1, DriveFields DEF Command
        <3>2. StatusInv' /\ left' = 1 /\ at' = 0 /\ ~drq'
            BY <2>1, CommandStatus
        <3> QED BY <1>1, <3>1, <3>2, DriveFields DEF TypeOK
    <2>2. CASE UNCHANGED disk
        <3>1. UNCHANGED <<present, busy, drq, error, at, left, failed>>
            BY <2>2 DEF disk
        <3> QED BY <1>1, <3>1, DriveFields DEF TypeOK, StatusInv
    <2> QED BY <2>1, <2>2 DEF Detect
<1> QED BY <1>2, <1>3 DEF DriveInv

\* The steps of the identification that only look at the status.
LEMMA IdentifyStep ==
    ASSUME DriveInv, IdentifyAbsent \/ IdentifyNotBusy \/ IdentifyError
    PROVE  DriveInv'
<1>1. /\ UNCHANGED <<lba, sectors, i, buffer, result, reads, present, busy, drq, error, at, left, failed>>
      /\ pc \in {"identify", "ready"} /\ pc' \in {"halted", "ready"}
    BY DEF IdentifyAbsent, IdentifyNotBusy, IdentifyError, disk
<1> QED BY <1>1, DriveFields DEF DriveInv, TypeOK, StatusInv, ReadInv, Reading, ErrorsAreReal, IdleBetween,
                                 None, ENXIO

\* What reading the data register leaves.
LEMMA InswFacts ==
    ASSUME DriveInv, Insw
    PROVE  /\ StatusInv' /\ ~drq' /\ left' \in 0..MaxSectors /\ at' \in Nat
           /\ {present', busy', drq', error', failed'} \subseteq BOOLEAN
           /\ (failed' <=> failed) /\ (drq => left' = left - 1 /\ at' = at + 1)
<1>1. CASE drq
    <2>1. /\ ~busy /\ ~error /\ ~failed /\ left > 0
          /\ drq' = FALSE /\ busy' = TRUE /\ at' = at + 1 /\ left' = left - 1
          /\ present' = present /\ error' = error /\ failed' = failed
        BY <1>1, DriveFields DEF Insw, StatusInv
    <2>2. left \in Nat /\ left <= MaxSectors /\ MaxSectors \in Nat /\ at \in Nat
          /\ present \in BOOLEAN /\ error \in BOOLEAN /\ failed \in BOOLEAN
        BY DriveFields
    <2>3. left' \in 0..MaxSectors /\ at' \in Nat
        BY <2>1, <2>2
    <2>4. StatusInv' /\ ~drq' /\ (failed' <=> failed) /\ {present', busy', drq', error', failed'} \subseteq BOOLEAN
        BY <2>1, <2>2 DEF StatusInv
    <2> QED BY <2>1, <2>3, <2>4
<1>2. CASE ~drq
    <2>1. /\ drq' = FALSE /\ busy' = busy /\ at' = at /\ left' = left
          /\ present' = present /\ error' = error /\ failed' = failed
        BY <1>2 DEF Insw
    <2>2. (error' <=> failed') /\ (failed' => left' = 0) /\ (left' > 0 => busy')
        BY <1>2, <2>1, DriveFields DEF StatusInv
    <2> QED BY <1>2, <2>1, <2>2, DriveFields DEF StatusInv
<1> QED BY <1>1, <1>2

LEMMA IdentifiedStep ==
    ASSUME DriveInv, Identified
    PROVE  DriveInv'
<1>1. pc = "ready" /\ drq /\ ~error /\ ~failed /\ pc' = "idle" /\ Insw
      /\ UNCHANGED <<lba, sectors, i, buffer, result, reads>>
    BY DriveFields DEF Identified, StatusInv
<1>2. StatusInv' /\ TypeOK' /\ (buffer \in Seq(Int))'
    BY <1>1, InswFacts, DriveFields DEF TypeOK
<1>3. result = None /\ ReadInv' /\ ErrorsAreReal' /\ IdleBetween'
    BY <1>1, DriveFields DEF ReadInv, Reading, ErrorsAreReal, IdleBetween, None, ENXIO
<1> QED BY <1>2, <1>3 DEF DriveInv

LEMMA ReadStep ==
    ASSUME DriveInv, Read
    PROVE  DriveInv'
<1>1. PICK l \in Lba, n \in 1..MaxSectors : lba' = l /\ sectors' = n /\ Command(Addressed(l), n)
    BY DEF Read
<1>2. pc' = "first" /\ i' = 0 /\ buffer' = << >> /\ result' = None /\ reads' = reads + 1
      /\ reads < MaxReads
    BY DEF Read
<1>3. l \in Nat /\ n \in Nat \ {0} /\ n <= MaxSectors /\ Addressed(l) \in Nat
    BY IdeAssumption, AddressedIsNat
<1>4. StatusInv' /\ ~failed' /\ ~drq' /\ left' = n /\ at' = Addressed(l)
    BY <1>1, <1>3, CommandStatus
<1>5. {present', busy', drq', error', failed'} \subseteq BOOLEAN
    BY <1>1, DriveFields DEF Command
<1>6. TypeOK' /\ (buffer \in Seq(Int))'
    BY <1>1, <1>2, <1>3, <1>4, <1>5, DriveFields, IdeAssumption DEF TypeOK
<1>7. buffer' = FirstSectors'
    BY <1>2 DEF FirstSectors
<1>8. Addressed(lba)' = Addressed(l)
    BY <1>1 DEF Addressed
<1>9. ReadInv' /\ ErrorsAreReal' /\ IdleBetween'
    BY <1>1, <1>2, <1>3, <1>4, <1>7, <1>8 DEF ReadInv, Reading, ErrorsAreReal, IdleBetween, None, ENXIO
<1> QED BY <1>4, <1>6, <1>9 DEF DriveInv

LEMMA PollSuccessStep ==
    ASSUME DriveInv, PollSuccess
    PROVE  DriveInv'
<1>1. /\ UNCHANGED <<lba, sectors, i, buffer, reads, present, busy, drq, error, at, left, failed>>
      /\ pc \in {"first", "next"} /\ (~busy \/ drq)
      /\ \/ i < sectors /\ pc' = "copy" /\ result' = result
         \/ ~(i < sectors) /\ pc' = "idle" /\ result' = 0
    BY DEF PollSuccess, Polled, disk
<1>2. TypeOK' /\ (buffer \in Seq(Int))' /\ StatusInv'
    BY <1>1, DriveFields DEF TypeOK, StatusInv
<1>3. FirstSectors' = FirstSectors /\ Addressed(lba)' = Addressed(lba)
    BY <1>1 DEF FirstSectors, Addressed
<1>4. /\ sectors > 0 /\ result = None
      /\ ~failed => left = sectors - i /\ at = Addressed(lba) + i /\ buffer = FirstSectors
    BY <1>1, DriveFields DEF ReadInv, Reading
<1>5. i < sectors /\ ~failed => drq
    BY <1>1, <1>4, DriveFields DEF StatusInv
<1>6. ~(i < sectors) => i = sectors /\ (~failed => left = 0 /\ ~drq /\ ~busy)
    BY <1>1, <1>4, DriveFields
<1>7. ReadInv'
    BY <1>1, <1>3, <1>4, <1>5, <1>6 DEF ReadInv, Reading, None
<1>8. ErrorsAreReal' /\ IdleBetween'
    BY <1>1, <1>4, <1>6 DEF ErrorsAreReal, IdleBetween, None, ENXIO
<1> QED BY <1>2, <1>7, <1>8 DEF DriveInv

LEMMA PollErrorStep ==
    ASSUME DriveInv, PollError
    PROVE  DriveInv'
<1>1. /\ UNCHANGED <<lba, sectors, i, buffer, reads, present, busy, drq, error, at, left, failed>>
      /\ pc' = "idle" /\ result' = ENXIO /\ error
    BY DEF PollError, disk
<1>2. failed
    BY <1>1, DriveFields DEF StatusInv
<1> QED BY <1>1, <1>2, DriveFields DEF DriveInv, TypeOK, StatusInv, ReadInv, Reading, ErrorsAreReal,
                                       IdleBetween, ENXIO, None

\* The sector that comes over is the next of the read, unless the disk failed.
LEMMA CopyStep ==
    ASSUME DriveInv, Copy
    PROVE  DriveInv'
<1>1. /\ pc = "copy" /\ pc' = "next" /\ buffer' = Append(buffer, Data) /\ i' = i + 1
      /\ Insw /\ UNCHANGED <<lba, sectors, result, reads>>
    BY DEF Copy
<1>2. i < sectors /\ sectors > 0 /\ result = None
    BY <1>1, DriveFields DEF ReadInv, Reading
<1>3. Data \in Int
    BY DriveFields DEF Data
<1>4. StatusInv' /\ left' \in 0..MaxSectors /\ at' \in Nat /\ (failed' <=> failed) /\ ~drq'
      /\ {present', busy', drq', error', failed'} \subseteq BOOLEAN
    BY <1>1, InswFacts
<1>5. TypeOK' /\ (buffer \in Seq(Int))'
    BY <1>1, <1>2, <1>3, <1>4, DriveFields DEF TypeOK
<1>6. ASSUME ~failed
      PROVE  left' = sectors - (i + 1) /\ at' = Addressed(lba) + (i + 1) /\ buffer' = FirstSectors'
    <2>1. /\ drq /\ left = sectors - i /\ at = Addressed(lba) + i /\ buffer = FirstSectors
          /\ left' = left - 1 /\ at' = at + 1 /\ Addressed(lba) \in Nat /\ Addressed(lba') = Addressed(lba)
        BY <1>1, <1>6, DriveFields, InswFacts, AddressedIsNat DEF ReadInv, Reading
    <2> i \in Nat /\ sectors \in Nat /\ at \in Nat /\ left \in Nat
        BY DriveFields
    <2> DEFINE first == Addressed(lba)
    <2>2. Data = first + (i + 1) - 1
        <3>1. Data = at
            BY <2>1, Zenon DEF Data
        <3> HIDE DEF first
        <3> QED BY <2>1, <3>1 DEF first
    <2>3. FirstSectors' = [k \in 1..(i + 1) |-> Addressed(lba) + k - 1]
        BY <1>1, <2>1 DEF FirstSectors
    <2>4. buffer' = FirstSectors'
        <3>1. Len(buffer) = i /\ \A k \in 1..i : buffer[k] = Addressed(lba) + k - 1
            BY <2>1, DriveFields DEF FirstSectors
        <3>2. i \in Nat /\ buffer \in Seq(Int) /\ Data \in Int
            BY <1>3, DriveFields
        <3>3. /\ buffer' \in Seq(Int) /\ Len(buffer') = i + 1 /\ buffer'[i + 1] = Data
              /\ \A k \in 1..i : buffer'[k] = buffer[k]
            BY <1>1, <3>1, <3>2
        <3>4. \A k \in 1..(i + 1) : buffer'[k] = Addressed(lba) + k - 1
            BY <2>2, <3>1, <3>2, <3>3
        <3> QED BY <2>3, <3>2, <3>3, <3>4
    <2>5. left' = sectors - (i + 1) /\ at' = first + (i + 1)
        <3> HIDE DEF first
        <3> QED BY <2>1 DEF first
    <2> QED BY <2>4, <2>5
<1>7. ReadInv'
    BY <1>1, <1>2, <1>4, <1>6 DEF ReadInv, Reading, None, Addressed
<1>8. ErrorsAreReal' /\ IdleBetween'
    BY <1>1, <1>2 DEF ErrorsAreReal, IdleBetween, None, ENXIO
<1> QED BY <1>4, <1>5, <1>7, <1>8 DEF DriveInv

-----------------------------------------------------------------------------
LEMMA DriveInit == Init => DriveInv
<1> SUFFICES ASSUME Init PROVE DriveInv
    OBVIOUS
<1>1. TypeOK /\ buffer \in Seq(Int)
    <2>1. {present, busy, drq, error, failed} \subseteq BOOLEAN /\ ~drq
        BY DEF Init
    <2>2. /\ pc = "off" /\ lba = 0 /\ sectors = 0 /\ i = 0 /\ buffer = << >> /\ result = None /\ reads = 0
          /\ at = 0 /\ left = 0 /\ MaxSectors \in Nat /\ MaxReads \in Nat
        BY IdeAssumption DEF Init
    <2> QED BY <2>1, <2>2 DEF TypeOK
<1>2. StatusInv /\ ReadInv /\ ErrorsAreReal /\ IdleBetween
    BY DEF Init, StatusInv, ReadInv, Reading, ErrorsAreReal, IdleBetween, None, ENXIO
<1> QED BY <1>1, <1>2 DEF DriveInv

THEOREM DriveInductive == Spec => []DriveInv
<1>1. DriveInv /\ [Driver \/ Disk]_vars => DriveInv'
    <2> SUFFICES ASSUME DriveInv, [Driver \/ Disk]_vars PROVE DriveInv'
        OBVIOUS
    <2>1. CASE UNCHANGED vars
        <3>1. UNCHANGED <<pc, lba, sectors, i, buffer, result, reads, present, busy, drq, error, at,
                          left, failed>>
            BY <2>1 DEF vars, driver, disk
        <3> QED BY <3>1, Zenon DEF DriveInv, TypeOK, StatusInv, ReadInv, Reading, FirstSectors, Addressed,
                                   ErrorsAreReal, IdleBetween
    <2>2. CASE Disk
        BY <2>2, DiskStep
    <2>3. CASE Driver
        BY <2>3, DetectStep, IdentifyStep, IdentifiedStep, ReadStep, PollSuccessStep, PollErrorStep,
           CopyStep DEF Driver
    <2> QED BY <2>1, <2>2, <2>3
<1> QED BY DriveInit, <1>1, PTL DEF Spec

\* A read that returns 0 from a disk that did not fail has put the sectors that
\* ide_ata_read was asked for into the buffer, in their order; it returns an error
\* only if the disk failed; and it leaves no data behind for the next command.
THEOREM DriverReadsTheDisk == Spec => []DiskReads
<1>1. DriveInv => DiskReads
    <2> SUFFICES ASSUME DriveInv PROVE DiskReads
        OBVIOUS
    <2>1. ReadExact
        <3> SUFFICES ASSUME result = 0, ~failed, lba + sectors <= LbaRange
                     PROVE  buffer = [k \in 1..sectors |-> lba + k - 1]
            BY DEF ReadExact
        <3>1. sectors > 0 /\ i = sectors /\ buffer = FirstSectors
            BY DriveFields DEF ReadInv
        <3>2. Addressed(lba) = lba
            <4>1. lba \in Nat /\ sectors \in Nat /\ LbaRange \in Nat \ {0} /\ lba < LbaRange
                BY <3>1, DriveFields, IdeAssumption
            <4> QED BY <4>1, SMT DEF Addressed
        <3> QED BY <3>1, <3>2 DEF FirstSectors
    <2> QED BY <2>1 DEF DriveInv, DiskReads
<1> QED BY DriveInductive, <1>1, PTL


-----------------------------------------------------------------------------
(* The walks that the recursive functions of Dentries define               *)

\* A nonempty set of natural numbers has a least element.
LEMMA LeastNatural ==
    ASSUME NEW T, T \subseteq Nat, T # {}
    PROVE  \E x \in T : \A y \in T : x <= y
<1> DEFINE R == {ss \in Nat \X Nat : ss[1] < ss[2]}
<1>1. R = OpToRel(<, Nat)
    BY Zenon DEF OpToRel
<1>2. IsWellFoundedOn(R, Nat)
    BY <1>1, NatLessThanWellFounded, Zenon
<1> HIDE DEF R
<1>3. PICK x \in T : \A y \in T : ~(<<y, x>> \in R)
    BY <1>2, WFMin, Zenon
<1>4. \A a, b \in Nat : a < b => <<a, b>> \in R
    <2> TAKE a, b \in Nat
    <2> HAVE a < b
    <2>1. <<a, b>> \in Nat \X Nat /\ <<a, b>>[1] = a /\ <<a, b>>[2] = b
        OBVIOUS
    <2> QED BY <2>1, Zenon DEF R
<1>5. ASSUME NEW y \in T PROVE x <= y
    <2>1. x \in Nat /\ y \in Nat
        OBVIOUS
    <2>2. ~(y < x)
        BY <1>4, <2>1, <1>3
    <2> QED
        BY <2>1, <2>2
<1> QED
    BY <1>3, <1>5

\* f goes from a by what the steps G make of the place before, for n steps.
Steps(T, n, a, G, f) ==
    /\ f \in [0..n -> T] /\ f[0] = a
    /\ \A k \in 1..n : f[k] = G[<<k, f[k - 1]>>]

LEMMA StepsExist ==
    ASSUME NEW T, NEW n \in Nat, NEW a \in T, NEW G \in [(1..n) \X T -> T]
    PROVE  \E f : Steps(T, n, a, G, f)
<1> DEFINE Upto(k, f) ==
        f \in [0..k -> T] /\ f[0] = a /\ \A j \in 1..k : f[j] = G[<<j, f[j - 1]>>]
           Bad == {k \in 0..n : ~\E f : Upto(k, f)}
<1>1. Bad = {}
    <2> SUFFICES ASSUME Bad # {} PROVE FALSE
        OBVIOUS
    <2>1. Bad \subseteq Nat /\ Bad \subseteq 0..n
        OBVIOUS
    <2>2. PICK k \in Bad : \A j \in Bad : k <= j
        <3> HIDE DEF Bad
        <3> QED
            BY <2>1, LeastNatural
    <2>3. CASE k = 0
        <3>1. Upto(0, [j \in 0..0 |-> a])
            OBVIOUS
        <3> QED
            BY <2>3, <3>1
    <2>4. CASE k # 0
        <3>1. k \in Nat /\ k - 1 \in Nat /\ k \in 1..n /\ k - 1 \notin Bad /\ k - 1 \in 0..n
            <4> HIDE DEF Bad
            <4>1. k \in Nat /\ k \in 0..n
                BY <2>1
            <4>2. k - 1 \in Nat /\ ~(k <= k - 1) /\ k \in 1..n /\ k - 1 \in 0..n
                BY <4>1, <2>4
            <4> QED
                BY <4>1, <4>2, <2>2
        <3>2. PICK g : Upto(k - 1, g)
            BY <3>1
        <3> DEFINE f == [j \in 0..k |-> IF j = k THEN G[<<k, g[k - 1]>>] ELSE g[j]]
        <3>3. \A j \in 0..(k - 1) : g[j] \in T /\ j \in 0..k /\ j # k
            BY <3>1, <3>2
        <3>4. g[k - 1] \in T /\ G[<<k, g[k - 1]>>] \in T
            <4>1. g[k - 1] \in T
                BY <3>1, <3>3
            <4> QED
                BY <3>1, <4>1
        <3>5. /\ \A j \in 0..(k - 1) : f[j] = g[j]
              /\ f[k] = G[<<k, g[k - 1]>>]
            BY <3>1, <3>3
        <3>6. f \in [0..k -> T]
            BY <3>1, <3>3, <3>4
        <3> HIDE DEF f
        <3>7. f[0] = a
            BY <3>1, <3>2, <3>5
        <3>8. ASSUME NEW j \in 1..k PROVE f[j] = G[<<j, f[j - 1]>>]
            <4>1. j - 1 \in 0..(k - 1) /\ f[j - 1] = g[j - 1]
                BY <3>1, <3>5
            <4>2. CASE j = k
                BY <3>5, <4>1, <4>2
            <4>3. CASE j # k
                <5>1. j \in 0..(k - 1) /\ j \in 1..(k - 1)
                    BY <3>1, <4>3
                <5> QED
                    BY <3>2, <3>5, <4>1, <5>1
            <4> QED
                BY <4>2, <4>3
        <3>9. Upto(k, f)
            BY <3>6, <3>7, <3>8
        <3> QED
            BY <2>2, <3>9
    <2> QED
        BY <2>3, <2>4
<1>2. \E f : Upto(n, f)
    <2>1. n \in 0..n
        OBVIOUS
    <2> QED
        BY <1>1, <2>1
<1> QED
    BY <1>2 DEF Steps

\* What holds at the beginning and goes on from place to place holds in the end.
LEMMA ThroughSteps ==
    ASSUME NEW n \in Nat, NEW S \in SUBSET (0..n), 0 \in S,
           \A k \in 1..n : k - 1 \in S => k \in S
    PROVE  S = 0..n
<1> DEFINE Out == (0..n) \ S
<1> SUFFICES ASSUME Out # {} PROVE FALSE
    OBVIOUS
<1>1. PICK k \in Out : \A j \in Out : k <= j
    <2>1. Out \subseteq Nat
        OBVIOUS
    <2> HIDE DEF Out
    <2> QED
        BY <2>1, LeastNatural
<1>2. k \in 1..n /\ k - 1 \in 0..n /\ k - 1 \notin Out
    BY <1>1
<1> QED
    BY <1>1, <1>2

-----------------------------------------------------------------------------
(* The cache of dentries                                                   *)

Cachable == [name : Name \cup {"/"}, parent : Nat, ino : Ino \cup {Garbage}]

\* Every dentry but the root is the only one of its parent and name, and says
\* what the disk says of them.
Sound(c) ==
    /\ c \in Seq(Cachable) /\ Len(c) > 0
    /\ c[1].ino = Root /\ c[1].parent = NoDentry
    /\ \A d \in 2..Len(c) : /\ c[d].name \in Name /\ c[d].parent \in 1..(d - 1)
                            /\ c[d].ino = Lookup(c[c[d].parent].ino, c[d].name)
    /\ \A d, e \in 2..Len(c) : c[d].parent = c[e].parent /\ c[d].name = c[e].name => d = e

Extends(c, c2) == Len(c) <= Len(c2) /\ \A d \in 1..Len(c) : c2[d] = c[d]

LEMMA LookupFacts ==
    ASSUME NEW dir \in Ino \cup {Garbage}, NEW name \in Name
    PROVE  /\ Lookup(dir, name) = NULL \/ Lookup(dir, name) \in Ino \cup {Garbage}
           /\ Lookup(dir, name) = NULL <=> Kind[dir] # "directory"
<1>1. CASE Kind[dir] # "directory"
    BY <1>1 DEF Lookup
<1>2. CASE Kind[dir] = "directory"
    <2>1. Blocks[dir] \in Seq(DirBlock) /\ Blocks[dir] # << >>
        BY <1>2, DentriesAssumption
    <2>2. Blocks[dir][1] \in DirBlock
        BY <2>1
    <2>3. PICK names \in SUBSET Name : Blocks[dir][1] \in [names -> Ino]
        BY <2>2 DEF DirBlock
    <2> DEFINE ino == InoFind(Blocks[dir][1], name)
    <2>4. ino \in Ino \/ ino = ENOENT
        BY <2>3 DEF InoFind
    <2>5. Lookup(dir, name) = IF ino = ENOENT THEN Garbage ELSE ino
        BY <1>2, <2>1 DEF Lookup
    <2>6. Lookup(dir, name) \in Ino \cup {Garbage}
        BY <2>4, <2>5
    <2>7. NULL \notin Ino \cup {Garbage}
        BY DentriesAssumption DEF NULL
    <2> QED
        BY <1>2, <2>6, <2>7
<1> QED
    BY <1>1, <1>2

LEMMA SoundFields ==
    ASSUME NEW c, Sound(c), NEW d \in 1..Len(c)
    PROVE  /\ c[d] \in Cachable /\ c[d].parent \in Nat
           /\ c[d].ino \in Ino \cup {Garbage} /\ d \in DOMAIN c /\ Len(c) \in Nat
<1>1. c \in Seq(Cachable)
    BY DEF Sound
<1>2. c[d] \in Cachable /\ DOMAIN c = 1..Len(c) /\ Len(c) \in Nat
    BY <1>1
<1> QED
    BY <1>2 DEF Cachable

\* The search of subdirs stays in the cache.
LEMMA ChildRange ==
    ASSUME NEW c \in Seq(Cachable), NEW d, NEW name
    PROVE  /\ Child(c, d, name) \in 0..Len(c)
           /\ Child(c, d, name) # NoDentry =>
                 c[Child(c, d, name)].parent = d /\ c[Child(c, d, name)].name = name
           /\ \A e \in 1..Len(c) : c[e].parent = d /\ c[e].name = name => Child(c, d, name) # NoDentry
<1> DEFINE hits == {e \in DOMAIN c : c[e].parent = d /\ c[e].name = name}
<1>1. DOMAIN c = 1..Len(c) /\ Len(c) \in Nat
    OBVIOUS
<1>2. Child(c, d, name) = IF hits = {} THEN NoDentry
                          ELSE CHOOSE h \in hits : \A e \in hits : h <= e
    BY Zenon DEF Child
<1>3. CASE hits = {}
    BY <1>1, <1>2, <1>3 DEF NoDentry
<1>4. CASE hits # {}
    <2>1. hits \subseteq Nat /\ 0 \notin hits
        BY <1>1
    <2>2. Child(c, d, name) \in hits
        <3> HIDE DEF hits
        <3>1. \E h \in hits : \A e \in hits : h <= e
            BY <1>4, <2>1, LeastNatural
        <3> QED
            BY <1>2, <1>4, <3>1
    <2> QED
        BY <1>1, <2>1, <2>2 DEF NoDentry
<1> QED
    BY <1>3, <1>4

\* What the search finds is there, is what the disk has, and is the only one.
LEMMA ChildFacts ==
    ASSUME NEW c, Sound(c), NEW d \in 1..Len(c), NEW name \in Name
    PROVE  /\ Child(c, d, name) \in 0..Len(c)
           /\ Child(c, d, name) # NoDentry =>
                 /\ Child(c, d, name) \in 2..Len(c)
                 /\ c[Child(c, d, name)].ino = Lookup(c[d].ino, name)
           /\ \A e \in 2..Len(c) : c[e].parent = d /\ c[e].name = name => Child(c, d, name) = e
           /\ Child(c, d, name) # NoDentry =>
                 c[Child(c, d, name)].parent = d /\ c[Child(c, d, name)].name = name
<1> DEFINE f == Child(c, d, name)
<1>1. c \in Seq(Cachable) /\ Len(c) \in Nat /\ Len(c) > 0 /\ c[1].parent = 0
    BY DEF Sound, NoDentry
<1>2. /\ f \in 0..Len(c)
      /\ f # NoDentry => c[f].parent = d /\ c[f].name = name
      /\ \A e \in 1..Len(c) : c[e].parent = d /\ c[e].name = name => f # NoDentry
    BY <1>1, ChildRange
<1> HIDE DEF f
<1>3. f # NoDentry => f \in 2..Len(c)
    BY <1>1, <1>2 DEF NoDentry
<1>4. f # NoDentry => c[f].ino = Lookup(c[d].ino, name)
    BY <1>2, <1>3 DEF Sound
<1>5. ASSUME NEW e \in 2..Len(c), c[e].parent = d, c[e].name = name
      PROVE  f = e
    <2>1. f # NoDentry
        BY <1>1, <1>2, <1>5
    <2> QED
        BY <1>2, <1>3, <1>5, <2>1 DEF Sound
<1> QED
    BY <1>2, <1>3, <1>4, <1>5 DEF f

\* A search that finds something finds the same when the cache has grown.
LEMMA ChildStays ==
    ASSUME NEW c, NEW c2, Sound(c), Sound(c2), Extends(c, c2),
           NEW d \in 1..Len(c), NEW name \in Name, Child(c, d, name) # NoDentry
    PROVE  Child(c2, d, name) = Child(c, d, name)
<1> DEFINE f == Child(c, d, name)
<1>1. /\ f \in 2..Len(c) /\ c[f].parent = d /\ c[f].name = name
    BY ChildFacts
<1> HIDE DEF f
<1>2. Len(c) \in Nat /\ Len(c2) \in Nat
    BY DEF Sound
<1>3. f \in 2..Len(c2) /\ d \in 1..Len(c2) /\ c2[f] = c[f]
    BY <1>1, <1>2 DEF Extends
<1>4. Child(c2, d, name) = f
    BY <1>1, <1>3, ChildFacts
<1> QED
    BY <1>4 DEF f

\* A new dentry for a name that the disk has keeps the cache sound.
LEMMA LinkSound ==
    ASSUME NEW c, Sound(c), NEW d \in 1..Len(c), NEW name \in Name,
           Child(c, d, name) = NoDentry, Lookup(c[d].ino, name) # NULL
    PROVE  LET c2 == Linked(c, d, name, Lookup(c[d].ino, name))
           IN  /\ Sound(c2) /\ Extends(c, c2) /\ Len(c2) = Len(c) + 1
               /\ Child(c2, d, name) = Len(c) + 1
               /\ c2[Len(c) + 1].ino = Lookup(c[d].ino, name)
<1> DEFINE ino == Lookup(c[d].ino, name)
           new == [name |-> name, parent |-> d, ino |-> ino]
           c2  == Linked(c, d, name, ino)
           m   == Len(c)
<1>1. c \in Seq(Cachable) /\ m \in Nat /\ m > 0
    BY DEF Sound
<1>2. c[d].ino \in Ino \cup {Garbage}
    BY SoundFields
<1>3. ino \in Ino \cup {Garbage}
    BY <1>2, LookupFacts
<1>4. new \in Cachable /\ new.name = name /\ new.parent = d /\ new.ino = ino
    BY <1>1, <1>3 DEF Cachable
<1>5. c2 = Append(c, new)
    BY Zenon DEF Linked
<1> HIDE DEF new, c2, ino
<1>6. /\ c2 \in Seq(Cachable) /\ Len(c2) = m + 1
      /\ c2[m + 1] = new
      /\ \A e \in 1..m : c2[e] = c[e]
    BY <1>1, <1>4, <1>5
<1>7. Extends(c, c2)
    BY <1>1, <1>6 DEF Extends
<1>8. c2[1].ino = Root /\ c2[1].parent = NoDentry
    <2>1. c2[1] = c[1]
        BY <1>1, <1>6
    <2> QED
        BY <2>1 DEF Sound
<1>9. ASSUME NEW e \in 2..(m + 1)
      PROVE  /\ c2[e].name \in Name /\ c2[e].parent \in 1..(e - 1)
             /\ c2[e].ino = Lookup(c2[c2[e].parent].ino, c2[e].name)
    <2>1. CASE e = m + 1
        <3>1. c2[e] = new /\ c2[d] = c[d]
            BY <1>6, <2>1
        <3> QED
            BY <1>1, <1>4, <2>1, <3>1 DEF ino
    <2>2. CASE e # m + 1
        <3>1. e \in 2..m /\ e \in 1..m /\ c2[e] = c[e]
            BY <1>1, <1>6, <2>2
        <3>2. /\ c[e].name \in Name /\ c[e].parent \in 1..(e - 1)
              /\ c[e].ino = Lookup(c[c[e].parent].ino, c[e].name)
            BY <3>1 DEF Sound
        <3>3. c[e].parent \in 1..m
            BY <1>1, <3>1, <3>2
        <3>4. c2[c[e].parent] = c[c[e].parent]
            BY <1>6, <3>3
        <3> QED
            BY <3>1, <3>2, <3>4
    <2> QED
        BY <2>1, <2>2
<1>10. ASSUME NEW e \in 2..m PROVE ~(c2[e].parent = d /\ c2[e].name = name)
    <2>1. c2[e] = c[e]
        BY <1>1, <1>6
    <2>2. c[e].parent = d /\ c[e].name = name => Child(c, d, name) = e
        BY ChildFacts
    <2>3. e # NoDentry
        BY <1>1 DEF NoDentry
    <2> QED
        BY <2>1, <2>2, <2>3
<1>11. ASSUME NEW e \in 2..(m + 1), NEW g \in 2..(m + 1),
              c2[e].parent = c2[g].parent, c2[e].name = c2[g].name
       PROVE  e = g
    <2>1. CASE e \in 2..m /\ g \in 2..m
        <3>1. c2[e] = c[e] /\ c2[g] = c[g]
            BY <1>1, <1>6, <2>1
        <3> QED
            BY <1>11, <2>1, <3>1 DEF Sound
    <2>2. CASE e = m + 1 /\ g \in 2..m
        BY <1>4, <1>6, <1>10, <1>11, <2>2
    <2>3. CASE e \in 2..m /\ g = m + 1
        BY <1>4, <1>6, <1>10, <1>11, <2>3
    <2>4. (e \in 2..m \/ e = m + 1) /\ (g \in 2..m \/ g = m + 1)
        BY <1>1
    <2> QED
        BY <2>1, <2>2, <2>3, <2>4
<1>12. Sound(c2)
    BY <1>1, <1>6, <1>8, <1>9, <1>11 DEF Sound
<1>13. Child(c2, d, name) = m + 1
    <2>1. d \in 1..Len(c2) /\ m + 1 \in 2..Len(c2)
        BY <1>1, <1>6
    <2>2. c2[m + 1].parent = d /\ c2[m + 1].name = name
        BY <1>4, <1>6
    <2>3. \A e \in 2..Len(c2) : c2[e].parent = d /\ c2[e].name = name => Child(c2, d, name) = e
        BY <1>12, <2>1, ChildFacts
    <2> QED
        BY <2>1, <2>2, <2>3
<1> QED
    BY <1>4, <1>6, <1>7, <1>12, <1>13 DEF c2, ino

-----------------------------------------------------------------------------
(* The loop of virt_fs_path_find                                           *)

Walking(w) ==
    /\ Sound(w.cache)
    /\ w.at \in 1..Len(w.cache)
    /\ w.result \in {0, EEXIST, ENOENT, CREATE}
    /\ w.result \in {ENOENT, CREATE} => Kind[w.cache[w.at].ino] # "directory"

Walker == {w \in [cache : Seq(Cachable), at : Nat, result : Int] : Walking(w)}

\* w2 is behind w when the loop has looked for the k-th name.  It stays where
\* it is once it has a result, goes to the child that the name has in the end,
\* and refuses what is there only to those who want a new file.
Turned(w, w2, path, k, creat, excl) ==
    LET ino == Lookup(w.cache[w.at].ino, path[k])
        new == k = Len(path) /\ creat /\ excl
    IN  /\ w2 \in Walker
        /\ Extends(w.cache, w2.cache)
        /\ w.result # 0 => w2 = w
        /\ w2.result = 0 => w.result = 0 /\ Child(w2.cache, w.at, path[k]) = w2.at
        /\ w.result = 0 /\ ino # NULL =>
              IF new THEN w2.result = EEXIST
              ELSE w2.result = 0 /\ w2.cache[w2.at].ino = ino

LEMMA ExtendsItself ==
    ASSUME NEW c, Sound(c)
    PROVE  Extends(c, c)
BY DEF Extends, Sound

LEMMA ExtendsOn ==
    ASSUME NEW c, NEW c2, NEW c3, Sound(c), Sound(c2), Sound(c3), Extends(c, c2), Extends(c2, c3)
    PROVE  Extends(c, c3)
<1>1. Len(c) \in Nat /\ Len(c2) \in Nat /\ Len(c3) \in Nat
    BY DEF Sound
<1>2. Len(c) <= Len(c2) /\ Len(c2) <= Len(c3)
    BY DEF Extends
<1>3. Len(c) <= Len(c3)
    BY <1>1, <1>2
<1>4. ASSUME NEW d \in 1..Len(c) PROVE c3[d] = c[d]
    <2>1. d \in 1..Len(c2)
        BY <1>1, <1>2
    <2> QED
        BY <2>1 DEF Extends
<1> QED
    BY <1>3, <1>4 DEF Extends

LEMMA TurnFacts ==
    ASSUME NEW w \in Walker, NEW path \in Seq(Name), NEW k \in 1..Len(path),
           NEW creat \in BOOLEAN, NEW excl \in BOOLEAN
    PROVE  Turned(w, Turn(w, path, k, creat, excl), path, k, creat, excl)
<1> DEFINE name  == path[k]
           child == Child(w.cache, w.at, name)
           ino   == Lookup(w.cache[w.at].ino, name)
           new   == k = Len(path) /\ creat /\ excl
           w2    == Turn(w, path, k, creat, excl)
<1>1. /\ name \in Name
      /\ w.cache \in Seq(Cachable) /\ w.at \in Nat /\ w.result \in Int
      /\ Sound(w.cache) /\ w.at \in 1..Len(w.cache)
      /\ w.result \in {0, EEXIST, ENOENT, CREATE}
      /\ w.result \in {ENOENT, CREATE} => Kind[w.cache[w.at].ino] # "directory"
    BY DEF Walker, Walking
<1>2. w = [cache |-> w.cache, at |-> w.at, result |-> w.result]
    BY DEF Walker
<1>3. w.cache[w.at].ino \in Ino \cup {Garbage}
    BY <1>1, SoundFields
<1>4. ino = NULL <=> Kind[w.cache[w.at].ino] # "directory"
    BY <1>1, <1>3, LookupFacts
<1>5. Extends(w.cache, w.cache)
    BY <1>1, ExtendsItself
<1>6. /\ EEXIST \in Int /\ ENOENT \in Int /\ CREATE \in Int
      /\ 0 \notin {EEXIST, ENOENT, CREATE} /\ EEXIST \notin {0, ENOENT, CREATE}
    BY DEF EEXIST, ENOENT, CREATE
<1>7. /\ child \in 0..Len(w.cache)
      /\ child # NoDentry => child \in 2..Len(w.cache) /\ w.cache[child].ino = ino
    BY <1>1, ChildFacts
<1>8. CASE w.result # 0
    <2>1. w2 = w
        BY <1>8, Zenon DEF Turn
    <2> HIDE DEF w2
    <2> QED
        BY <1>5, <1>8, <2>1, Zenon DEF Turned, w2
<1>9. CASE w.result = 0 /\ child # NoDentry
    <2>1. w2 = [w EXCEPT !.at = child, !.result = IF new THEN EEXIST ELSE 0]
        BY <1>9, Zenon DEF Turn
    <2>2. /\ w2.cache = w.cache /\ w2.at = child
          /\ w2.result = IF new THEN EEXIST ELSE 0
          /\ w2 \in [cache : Seq(Cachable), at : Nat, result : Int]
        <3> HIDE DEF child, new, w2, ino, name
        <3>1. child \in Nat /\ (IF new THEN EEXIST ELSE 0) \in Int
            BY <1>1, <1>6, <1>7
        <3> QED
            BY <1>2, <1>1, <2>1, <3>1
    <2> HIDE DEF w2
    <2>3. w2 \in Walker
        <3>1. w2.at \in 1..Len(w2.cache)
            BY <1>7, <1>9, <2>2
        <3>2. w2.result \in {0, EEXIST} /\ w2.result \notin {ENOENT, CREATE}
            BY <1>6, <2>2
        <3> QED
            BY <1>1, <2>2, <3>1, <3>2 DEF Walker, Walking
    <2>4. w2.cache[w2.at].ino = ino
        BY <1>7, <1>9, <2>2
    <2>5. Child(w2.cache, w.at, name) = w2.at
        BY <2>2
    <2>6. IF new THEN w2.result = EEXIST ELSE w2.result = 0 /\ w2.cache[w2.at].ino = ino
        BY <2>2, <2>4
    <2>7. Extends(w.cache, w2.cache)
        BY <1>5, <2>2
    <2> QED
        BY <1>9, <2>3, <2>5, <2>6, <2>7, Zenon DEF Turned, w2
<1>10. CASE w.result = 0 /\ child = NoDentry /\ ino = NULL
    <2> DEFINE out == IF k = Len(path) /\ creat THEN CREATE ELSE ENOENT
    <2>1. w2 = [w EXCEPT !.result = out]
        BY <1>10, Zenon DEF Turn
    <2>2. /\ w2.cache = w.cache /\ w2.at = w.at /\ w2.result = out
          /\ w2 \in [cache : Seq(Cachable), at : Nat, result : Int]
        <3>1. out \in Int
            BY <1>6
        <3> HIDE DEF out, w2, ino, name, child
        <3> QED
            BY <1>2, <1>1, <2>1, <3>1
    <2>3. out \in {ENOENT, CREATE} /\ out # 0
        BY <1>6
    <2> HIDE DEF w2, out
    <2>4. w2 \in Walker
        BY <1>1, <1>4, <1>10, <2>2, <2>3 DEF Walker, Walking
    <2>5. Extends(w.cache, w2.cache) /\ w2.result # 0
        BY <1>5, <2>2, <2>3
    <2> QED
        BY <1>10, <2>4, <2>5, Zenon DEF Turned, w2
<1>11. CASE w.result = 0 /\ child = NoDentry /\ ino # NULL /\ new
    <2>1. w2 = [w EXCEPT !.result = EEXIST]
        BY <1>11, Zenon DEF Turn
    <2>2. /\ w2.cache = w.cache /\ w2.at = w.at /\ w2.result = EEXIST
          /\ w2 \in [cache : Seq(Cachable), at : Nat, result : Int]
        <3> HIDE DEF w2, ino, name, child, new
        <3> QED
            BY <1>1, <1>2, <1>6, <2>1
    <2> HIDE DEF w2
    <2>3. w2 \in Walker
        <3>1. w2.result \in {0, EEXIST, ENOENT, CREATE} /\ w2.result \notin {ENOENT, CREATE}
            BY <1>6, <2>2
        <3> QED
            BY <1>1, <2>2, <3>1 DEF Walker, Walking
    <2>4. Extends(w.cache, w2.cache) /\ w2.result # 0
        BY <1>5, <1>6, <2>2
    <2> QED
        BY <1>11, <2>2, <2>3, <2>4, Zenon DEF Turned, w2
<1>12. CASE w.result = 0 /\ child = NoDentry /\ ino # NULL /\ ~new
    <2> DEFINE c2 == Linked(w.cache, w.at, name, ino)
    <2>1. w2 = [w EXCEPT !.cache = c2, !.at = Len(w.cache) + 1]
        BY <1>12, Zenon DEF Turn
    <2>2. /\ Sound(c2) /\ Extends(w.cache, c2) /\ Len(c2) = Len(w.cache) + 1
          /\ Child(c2, w.at, name) = Len(w.cache) + 1
          /\ c2[Len(w.cache) + 1].ino = ino
        <3> HIDE DEF name, child, new, w2
        <3> QED
            BY <1>1, <1>12, LinkSound, Zenon DEF child
    <2>3. /\ w2.cache = c2 /\ w2.at = Len(w.cache) + 1 /\ w2.result = 0
          /\ w2 \in [cache : Seq(Cachable), at : Nat, result : Int]
        <3>1. c2 \in Seq(Cachable) /\ Len(w.cache) + 1 \in Nat
            <4> HIDE DEF c2
            <4> QED
                BY <1>1, <2>2 DEF Sound
        <3> HIDE DEF c2, w2, ino, name, child, new
        <3> QED
            BY <1>1, <1>2, <1>12, <2>1, <3>1
    <2> HIDE DEF c2, w2
    <2>4. w2 \in Walker
        <3>1. w2.at \in 1..Len(w2.cache)
            BY <2>2, <2>3
        <3>2. w2.result \in {0, EEXIST, ENOENT, CREATE} /\ w2.result \notin {ENOENT, CREATE}
            BY <1>6, <2>3
        <3> QED
            BY <2>2, <2>3, <3>1, <3>2 DEF Walker, Walking
    <2>5. /\ Extends(w.cache, w2.cache) /\ Child(w2.cache, w.at, name) = w2.at
          /\ w2.cache[w2.at].ino = ino
        BY <2>2, <2>3
    <2> QED
        BY <1>12, <2>3, <2>4, <2>5, Zenon DEF Turned, w2
<1> QED
    BY <1>8, <1>9, <1>10, <1>11, <1>12

\* The walk of virt_fs_path_find, as the recursive function of PathFind has it.
IsPathWalk(path, creat, excl, w) ==
    w = [k \in 0..Len(path) |->
            IF k = 0 THEN [cache |-> dentry, at |-> 1, result |-> 0]
            ELSE Turn(w[k - 1], path, k, creat, excl)]
PathWalk(path, creat, excl) == CHOOSE w : IsPathWalk(path, creat, excl, w)

LEMMA PathFindIs ==
    ASSUME NEW path, NEW creat, NEW excl
    PROVE  PathFind(path, creat, excl) = PathWalk(path, creat, excl)[Len(path)]
BY Zenon DEF PathFind, PathWalk, IsPathWalk

Walks(f, path, creat, excl) ==
    /\ f \in [0..Len(path) -> Walker]
    /\ f[0] = [cache |-> dentry, at |-> 1, result |-> 0]
    /\ \A k \in 1..Len(path) : Turned(f[k - 1], f[k], path, k, creat, excl)

LEMMA PathWalks ==
    ASSUME Sound(dentry), NEW path \in Seq(Name), NEW creat \in BOOLEAN, NEW excl \in BOOLEAN
    PROVE  Walks(PathWalk(path, creat, excl), path, creat, excl)
<1> DEFINE n == Len(path)
           a == [cache |-> dentry, at |-> 1, result |-> 0]
           G == [z \in (1..n) \X Walker |-> Turn(z[2], path, z[1], creat, excl)]
           g == PathWalk(path, creat, excl)
<1>1. n \in Nat
    OBVIOUS
<1>2. a \in Walker
    <2>1. dentry \in Seq(Cachable) /\ 1 \in 1..Len(dentry)
        BY DEF Sound
    <2>2. 0 \notin {ENOENT, CREATE}
        BY DEF ENOENT, CREATE
    <2> QED
        BY <2>1, <2>2 DEF Walker, Walking
<1>3. \A k \in 1..n, w \in Walker : /\ Turned(w, Turn(w, path, k, creat, excl), path, k, creat, excl)
                                    /\ Turn(w, path, k, creat, excl) \in Walker
    <2> TAKE k \in 1..n, w \in Walker
    <2>1. Turned(w, Turn(w, path, k, creat, excl), path, k, creat, excl)
        BY TurnFacts
    <2>2. Turn(w, path, k, creat, excl) \in Walker
        BY <2>1, Zenon DEF Turned
    <2> QED
        BY <2>1, <2>2
<1>4. /\ G \in [(1..n) \X Walker -> Walker]
      /\ \A k \in 1..n, w \in Walker : G[<<k, w>>] = Turn(w, path, k, creat, excl)
    BY <1>3
<1> HIDE DEF G, a
<1>5. PICK f : Steps(Walker, n, a, G, f)
    BY <1>1, <1>2, <1>4, StepsExist, Zenon
<1>6. IsPathWalk(path, creat, excl, f)
    <2>1. f \in [0..n -> Walker] /\ f[0] = a /\ \A k \in 1..n : f[k] = G[<<k, f[k - 1]>>]
        BY <1>5 DEF Steps
    <2>2. ASSUME NEW k \in 0..n
          PROVE  f[k] = IF k = 0 THEN a ELSE Turn(f[k - 1], path, k, creat, excl)
        <3>1. CASE k = 0
            BY <2>1, <3>1
        <3>2. CASE k # 0
            <4>1. k \in 1..n /\ k - 1 \in 0..n
                BY <1>1, <3>2
            <4>2. f[k - 1] \in Walker
                BY <2>1, <4>1
            <4>3. f[k] = Turn(f[k - 1], path, k, creat, excl)
                BY <1>4, <2>1, <4>1, <4>2, Zenon
            <4> QED
                BY <3>2, <4>3, Zenon
        <3> QED
            BY <3>1, <3>2
    <2>3. f = [k \in 0..n |-> f[k]]
        BY <2>1
    <2>4. f = [k \in 0..n |-> IF k = 0 THEN a ELSE Turn(f[k - 1], path, k, creat, excl)]
        BY <2>2, <2>3, Zenon
    <2> QED
        BY <2>4, Zenon DEF IsPathWalk, a
<1>7. IsPathWalk(path, creat, excl, g)
    BY <1>6, Zenon DEF PathWalk
<1> HIDE DEF g
<1>8. /\ g = [k \in 0..n |-> IF k = 0 THEN a ELSE Turn(g[k - 1], path, k, creat, excl)]
    BY <1>7, Zenon DEF IsPathWalk, a
<1>9. /\ g = [k \in 0..n |-> g[k]]
      /\ \A k \in 0..n : g[k] = IF k = 0 THEN a ELSE Turn(g[k - 1], path, k, creat, excl)
    BY <1>8
<1>10. g[0] = a
    BY <1>1, <1>9
<1>11. \A k \in 1..n : g[k] = Turn(g[k - 1], path, k, creat, excl)
    <2> TAKE k \in 1..n
    <2>1. k \in 0..n /\ k # 0
        BY <1>1
    <2> QED
        BY <1>9, <2>1, Zenon
<1> DEFINE S == {k \in 0..n : g[k] \in Walker}
<1>12. S = 0..n
    <2>1. 0 \in S
        BY <1>1, <1>2, <1>10
    <2>2. ASSUME NEW k \in 1..n, k - 1 \in S PROVE k \in S
        <3>1. g[k - 1] \in Walker /\ k \in 0..n
            BY <1>1, <2>2
        <3>2. g[k] \in Walker
            BY <1>3, <1>11, <3>1, Zenon
        <3> QED
            BY <3>1, <3>2
    <2>3. S \in SUBSET (0..n)
        OBVIOUS
    <2> HIDE DEF S
    <2> QED
        BY <1>1, <2>1, <2>2, <2>3, ThroughSteps
<1>13. \A k \in 0..n : g[k] \in Walker
    BY <1>12
<1>14. g \in [0..n -> Walker]
    BY <1>9, <1>13
<1>15. ASSUME NEW k \in 1..n PROVE Turned(g[k - 1], g[k], path, k, creat, excl)
    <2>1. k - 1 \in 0..n
        BY <1>1
    <2>2. g[k - 1] \in Walker
        BY <1>13, <2>1
    <2> QED
        BY <1>3, <1>11, <2>2, Zenon
<1> QED
    BY <1>10, <1>14, <1>15, Zenon DEF Walks, g, a

\* The walk to a place in the cache c, as the recursive function of Cached has it.
IsCacheWalk(c, path, w) ==
    w = [k \in 0..Len(path) |->
            IF k = 0 THEN 1
            ELSE IF w[k - 1] = NoDentry THEN NoDentry ELSE Child(c, w[k - 1], path[k])]
CachedIn(c, path) == (CHOOSE w : IsCacheWalk(c, path, w))[Len(path)]

\* A sequence of children from the root on is that walk.
LEMMA CachedAt ==
    ASSUME NEW c, Sound(c), NEW path \in Seq(Name),
           NEW f \in [0..Len(path) -> 1..Len(c)], f[0] = 1,
           \A k \in 1..Len(path) : Child(c, f[k - 1], path[k]) = f[k]
    PROVE  CachedIn(c, path) = f[Len(path)]
<1> DEFINE n == Len(path)
           g == CHOOSE w : IsCacheWalk(c, path, w)
<1>1. n \in Nat /\ Len(c) \in Nat
    BY DEF Sound
<1>2. \A k \in 0..n : f[k] \in 1..Len(c) /\ f[k] # NoDentry
    <2> TAKE k \in 0..n
    <2>1. f[k] \in 1..Len(c)
        OBVIOUS
    <2>2. NoDentry \notin 1..Len(c)
        BY <1>1 DEF NoDentry
    <2> QED
        BY <2>1, <2>2
<1>3. IsCacheWalk(c, path, f)
    <2>1. ASSUME NEW k \in 0..n
          PROVE  f[k] = IF k = 0 THEN 1
                        ELSE IF f[k - 1] = NoDentry THEN NoDentry ELSE Child(c, f[k - 1], path[k])
        <3>1. CASE k = 0
            BY <3>1
        <3>2. CASE k # 0
            <4>1. k \in 1..n /\ k - 1 \in 0..n
                BY <1>1, <3>2
            <4>2. f[k - 1] # NoDentry /\ Child(c, f[k - 1], path[k]) = f[k]
                BY <1>2, <4>1
            <4> QED
                BY <3>2, <4>2, Zenon
        <3> QED
            BY <3>1, <3>2
    <2>2. f = [k \in 0..n |-> f[k]]
        OBVIOUS
    <2> QED
        BY <2>1, <2>2, Zenon DEF IsCacheWalk
<1>4. IsCacheWalk(c, path, g)
    BY <1>3, Zenon
<1>5. CachedIn(c, path) = g[n]
    BY Zenon DEF CachedIn
<1> HIDE DEF g
<1>6. g = [k \in 0..n |-> IF k = 0 THEN 1
                          ELSE IF g[k - 1] = NoDentry THEN NoDentry ELSE Child(c, g[k - 1], path[k])]
    BY <1>4, Zenon DEF IsCacheWalk
<1>7. \A k \in 0..n : g[k] = IF k = 0 THEN 1
                             ELSE IF g[k - 1] = NoDentry THEN NoDentry ELSE Child(c, g[k - 1], path[k])
    BY <1>6
<1> DEFINE S == {k \in 0..n : g[k] = f[k]}
<1>8. S = 0..n
    <2>1. 0 \in S
        BY <1>1, <1>7
    <2>2. ASSUME NEW k \in 1..n, k - 1 \in S PROVE k \in S
        <3>1. k \in 0..n /\ k # 0 /\ k - 1 \in 0..n /\ g[k - 1] = f[k - 1]
            BY <1>1, <2>2
        <3>2. g[k - 1] # NoDentry
            BY <1>2, <3>1
        <3>3. g[k] = Child(c, g[k - 1], path[k])
            BY <1>7, <3>1, <3>2, Zenon
        <3>4. g[k] = f[k]
            BY <3>1, <3>3
        <3> QED
            BY <3>1, <3>4
    <2>3. S \in SUBSET (0..n)
        OBVIOUS
    <2> HIDE DEF S
    <2> QED
        BY <1>1, <2>1, <2>2, <2>3, ThroughSteps
<1> QED
    BY <1>1, <1>5, <1>8

\* A walk with a result has the results of all places before it, in a cache
\* that only grew.
LEMMA WalkGrows ==
    ASSUME NEW path \in Seq(Name), NEW creat \in BOOLEAN, NEW excl \in BOOLEAN,
           NEW f, Walks(f, path, creat, excl), NEW k \in 0..Len(path)
    PROVE  /\ f[Len(path)].result = 0 => f[k].result = 0
           /\ Extends(f[k].cache, f[Len(path)].cache)
<1> DEFINE n == Len(path)
           Before(h) == \A j \in 0..h : /\ f[h].result = 0 => f[j].result = 0
                                        /\ Extends(f[j].cache, f[h].cache)
           S == {h \in 0..n : Before(h)}
<1>1. n \in Nat
    OBVIOUS
<1>2. \A h \in 0..n : f[h] \in Walker /\ Sound(f[h].cache)
    <2>1. \A h \in 0..n : f[h] \in Walker
        BY DEF Walks
    <2> QED
        BY <2>1 DEF Walker, Walking
<1>3. \A h \in 1..n : /\ Extends(f[h - 1].cache, f[h].cache)
                      /\ f[h].result = 0 => f[h - 1].result = 0
    BY Zenon DEF Walks, Turned
<1>4. S = 0..n
    <2>1. 0 \in S
        <3>1. 0 \in 0..n
            BY <1>1
        <3>2. ASSUME NEW j \in 0..0 PROVE j = 0
            OBVIOUS
        <3>3. Extends(f[0].cache, f[0].cache)
            BY <1>2, <3>1, ExtendsItself
        <3>4. Before(0)
            BY <3>2, <3>3
        <3> HIDE DEF Before
        <3> QED
            BY <3>1, <3>4
    <2>2. ASSUME NEW h \in 1..n, h - 1 \in S PROVE h \in S
        <3>1. h \in 0..n /\ h - 1 \in 0..n
            BY <1>1
        <3>2. Before(h - 1)
            <4> HIDE DEF Before
            <4> QED
                BY <2>2
        <3>3. ASSUME NEW j \in 0..h
              PROVE  /\ f[h].result = 0 => f[j].result = 0
                     /\ Extends(f[j].cache, f[h].cache)
            <4>1. CASE j = h
                <5>1. Extends(f[h].cache, f[h].cache)
                    BY <1>2, <3>1, ExtendsItself
                <5> QED
                    BY <4>1, <5>1
            <4>2. CASE j # h
                <5>1. j \in 0..(h - 1) /\ j \in 0..n
                    BY <1>1, <4>2
                <5>2. /\ f[h - 1].result = 0 => f[j].result = 0
                      /\ Extends(f[j].cache, f[h - 1].cache)
                    BY <3>2, <5>1
                <5>3. Extends(f[h - 1].cache, f[h].cache)
                    BY <1>3
                <5>4. Extends(f[j].cache, f[h].cache)
                    BY <1>2, <3>1, <5>1, <5>2, <5>3, ExtendsOn
                <5> QED
                    BY <1>3, <5>2, <5>4
            <4> QED
                BY <4>1, <4>2
        <3>4. Before(h)
            BY <3>3
        <3> HIDE DEF Before
        <3> QED
            BY <3>1, <3>4
    <2>3. S \in SUBSET (0..n)
        OBVIOUS
    <2> HIDE DEF S, Before
    <2> QED
        BY <1>1, <2>1, <2>2, <2>3, ThroughSteps
<1>5. n \in S
    BY <1>1, <1>4
<1>6. Before(n)
    <2> HIDE DEF Before
    <2> QED
        BY <1>5
<1> QED
    BY <1>6

\* A walk that succeeds ends where the cache, as it leaves it, has the path.
LEMMA EndsInCache ==
    ASSUME NEW path \in Seq(Name), NEW creat \in BOOLEAN, NEW excl \in BOOLEAN,
           NEW f, Walks(f, path, creat, excl), f[Len(path)].result = 0
    PROVE  CachedIn(f[Len(path)].cache, path) = f[Len(path)].at
<1> DEFINE n == Len(path)
           c == f[n].cache
           h == [k \in 0..n |-> f[k].at]
<1>1. n \in Nat /\ n \in 0..n
    OBVIOUS
<1>2. \A k \in 0..n : /\ f[k] \in Walker /\ Sound(f[k].cache)
                      /\ f[k].at \in 1..Len(f[k].cache) /\ Len(f[k].cache) \in Nat
    <2>1. \A k \in 0..n : f[k] \in Walker
        BY DEF Walks
    <2>2. \A k \in 0..n : Sound(f[k].cache) /\ f[k].at \in 1..Len(f[k].cache)
        BY <2>1 DEF Walker, Walking
    <2> QED
        BY <2>1, <2>2 DEF Sound
<1>3. \A k \in 0..n : f[k].result = 0 /\ Extends(f[k].cache, c)
    BY WalkGrows
<1>4. Sound(c) /\ Len(c) \in Nat
    BY <1>1, <1>2
<1> HIDE DEF c
<1>5. \A k \in 0..n : f[k].at \in 1..Len(c)
    BY <1>2, <1>3, <1>4 DEF Extends
<1>6. h \in [0..n -> 1..Len(c)] /\ \A k \in 0..n : h[k] = f[k].at
    BY <1>5
<1>7. h[0] = 1
    <2>1. f[0].at = 1
        BY DEF Walks
    <2> QED
        BY <1>1, <1>6, <2>1
<1>8. ASSUME NEW k \in 1..n PROVE Child(c, h[k - 1], path[k]) = h[k]
    <2>1. k - 1 \in 0..n /\ k \in 0..n /\ path[k] \in Name
        BY <1>1
    <2>2. Child(f[k].cache, f[k - 1].at, path[k]) = f[k].at
        BY <1>3, <2>1, Zenon DEF Walks, Turned
    <2>3. /\ f[k - 1].at \in 1..Len(f[k].cache) /\ f[k].at # NoDentry
        <3>1. Extends(f[k - 1].cache, f[k].cache)
            BY Zenon DEF Walks, Turned
        <3>2. Len(f[k - 1].cache) <= Len(f[k].cache)
            BY <3>1 DEF Extends
        <3>3. /\ f[k - 1].at \in 1..Len(f[k - 1].cache) /\ Len(f[k - 1].cache) \in Nat
              /\ f[k].at \in 1..Len(f[k].cache) /\ Len(f[k].cache) \in Nat
            BY <1>2, <2>1, Zenon
        <3> DEFINE u == Len(f[k - 1].cache)
                   v == Len(f[k].cache)
        <3>4. u <= v /\ u \in Nat /\ v \in Nat /\ f[k - 1].at \in 1..u /\ f[k].at \in 1..v
            BY <3>2, <3>3, Zenon
        <3> HIDE DEF u, v
        <3>5. f[k - 1].at \in 1..v /\ f[k].at # 0
            BY <3>4
        <3> QED
            BY <3>5 DEF v, NoDentry
    <2>4. Child(c, f[k - 1].at, path[k]) = f[k].at
        BY <1>2, <1>3, <1>4, <2>1, <2>2, <2>3, ChildStays
    <2> QED
        BY <1>6, <2>1, <2>4
<1> HIDE DEF h
<1>9. CachedIn(c, path) = h[n]
    <2>1. /\ h \in [0..Len(path) -> 1..Len(c)]
          /\ \A k \in 1..Len(path) : Child(c, h[k - 1], path[k]) = h[k]
        BY <1>6, <1>8
    <2> QED
        BY <1>4, <1>7, <2>1, CachedAt, Zenon
<1> QED
    BY <1>1, <1>6, <1>9 DEF c

-----------------------------------------------------------------------------
(* What the disk holds under a path                                        *)

Below(dirs, name) == {ino \in Ino : \E d \in dirs : <<name, ino>> \in DirEntries(d)}

IsReach(path, w) ==
    w = [k \in 0..Len(path) |-> IF k = 0 THEN {Root} ELSE Below(w[k - 1], path[k])]
Reach(path) == CHOOSE w : IsReach(path, w)

LEMMA ReachedIs ==
    ASSUME NEW path
    PROVE  Reached(path) = Reach(path)[Len(path)]
BY Zenon DEF Reached, Reach, IsReach, Below

Reaches(f, path) ==
    /\ f \in [0..Len(path) -> SUBSET Ino]
    /\ f[0] = {Root}
    /\ \A k \in 1..Len(path) : f[k] = Below(f[k - 1], path[k])

LEMMA ReachFacts ==
    ASSUME NEW path \in Seq(Name)
    PROVE  Reaches(Reach(path), path)
<1> DEFINE n == Len(path)
           G == [z \in (1..n) \X SUBSET Ino |-> Below(z[2], path[z[1]])]
           g == Reach(path)
<1>1. n \in Nat
    OBVIOUS
<1>2. {Root} \in SUBSET Ino
    BY DentriesAssumption
<1>3. \A dirs, name : Below(dirs, name) \in SUBSET Ino
    BY DEF Below
<1>4. /\ G \in [(1..n) \X SUBSET Ino -> SUBSET Ino]
      /\ \A k \in 1..n, dirs \in SUBSET Ino : G[<<k, dirs>>] = Below(dirs, path[k])
    BY <1>3
<1> HIDE DEF G
<1>5. PICK f : Steps(SUBSET Ino, n, {Root}, G, f)
    BY <1>1, <1>2, <1>4, StepsExist, Zenon
<1>6. IsReach(path, f)
    <2>1. /\ f \in [0..n -> SUBSET Ino] /\ f[0] = {Root}
          /\ \A k \in 1..n : f[k] = G[<<k, f[k - 1]>>]
        BY <1>5 DEF Steps
    <2>2. ASSUME NEW k \in 0..n
          PROVE  f[k] = IF k = 0 THEN {Root} ELSE Below(f[k - 1], path[k])
        <3>1. CASE k = 0
            BY <2>1, <3>1
        <3>2. CASE k # 0
            <4>1. k \in 1..n /\ k - 1 \in 0..n
                BY <1>1, <3>2
            <4>2. f[k - 1] \in SUBSET Ino
                BY <2>1, <4>1
            <4>3. f[k] = Below(f[k - 1], path[k])
                BY <1>4, <2>1, <4>1, <4>2, Zenon
            <4> QED
                BY <3>2, <4>3, Zenon
        <3> QED
            BY <3>1, <3>2
    <2>3. f = [k \in 0..n |-> f[k]]
        BY <2>1
    <2> QED
        BY <2>2, <2>3, Zenon DEF IsReach
<1>7. IsReach(path, g)
    BY <1>6, Zenon DEF Reach
<1> HIDE DEF g
<1>8. g = [k \in 0..n |-> IF k = 0 THEN {Root} ELSE Below(g[k - 1], path[k])]
    BY <1>7, Zenon DEF IsReach
<1>9. /\ g = [k \in 0..n |-> g[k]]
      /\ \A k \in 0..n : g[k] = IF k = 0 THEN {Root} ELSE Below(g[k - 1], path[k])
    BY <1>8
<1>10. g[0] = {Root}
    BY <1>1, <1>9
<1>11. \A k \in 1..n : g[k] = Below(g[k - 1], path[k])
    <2> TAKE k \in 1..n
    <2>1. k \in 0..n /\ k # 0
        BY <1>1
    <2> QED
        BY <1>9, <2>1, Zenon
<1>12. ASSUME NEW k \in 0..n PROVE g[k] \in SUBSET Ino
    <2>1. CASE k = 0
        BY <1>2, <1>10, <2>1
    <2>2. CASE k # 0
        <3>1. k \in 1..n
            BY <1>1, <2>2
        <3>2. Below(g[k - 1], path[k]) \in SUBSET Ino
            BY <1>3
        <3>3. g[k] = Below(g[k - 1], path[k])
            BY <1>11, <3>1
        <3> QED
            BY <3>2, <3>3, Zenon
    <2> QED
        BY <2>1, <2>2
<1>13. g \in [0..n -> SUBSET Ino]
    BY <1>9, <1>12
<1> QED
    BY <1>10, <1>11, <1>13, Zenon DEF Reaches, g

\* The beginning of a path reaches what the path reaches there.
LEMMA ReachOfPrefix ==
    ASSUME NEW path \in Seq(Name), NEW j \in 0..Len(path)
    PROVE  Reached(SubSeq(path, 1, j)) = Reach(path)[j]
<1> DEFINE s == SubSeq(path, 1, j)
           f == Reach(path)
           g == Reach(s)
           S == {k \in 0..j : g[k] = f[k]}
<1>1. /\ s \in Seq(Name) /\ Len(s) = j /\ j \in Nat
      /\ \A k \in 1..j : s[k] = path[k]
    OBVIOUS
<1> HIDE DEF s, f, g
<1>2. Reaches(f, path) /\ Reaches(g, s)
    BY <1>1, ReachFacts, Zenon DEF f, g
<1>3. S = 0..j
    <2>1. 0 \in S
        BY <1>1, <1>2 DEF Reaches
    <2>2. ASSUME NEW k \in 1..j, k - 1 \in S PROVE k \in S
        <3>1. k \in 0..j /\ k \in 1..Len(path) /\ k \in 1..Len(s) /\ g[k - 1] = f[k - 1]
            BY <1>1, <2>2
        <3>2. f[k] = Below(f[k - 1], path[k]) /\ g[k] = Below(g[k - 1], s[k])
            BY <1>2, <3>1 DEF Reaches
        <3>3. g[k] = f[k]
            BY <1>1, <3>1, <3>2, Zenon
        <3> QED
            BY <3>1, <3>3
    <2>3. S \in SUBSET (0..j)
        OBVIOUS
    <2> HIDE DEF S
    <2> QED
        BY <1>1, <2>1, <2>2, <2>3, ThroughSteps
<1>4. g[j] = f[j]
    BY <1>1, <1>3
<1>5. Reached(s) = g[Len(s)]
    BY ReachedIs, Zenon DEF g
<1> QED
    BY <1>1, <1>4, <1>5, Zenon DEF s, f

\* The one number that a directory of one block has for a name is the answer
\* of the lookup.
LEMMA OneBlockLookup ==
    ASSUME NEW dir \in Ino, NEW name \in Name, Below({dir}, name) # {},
           Kind[dir] = "directory" => Len(Blocks[dir]) = 1
    PROVE  /\ Lookup(dir, name) # NULL
           /\ Below({dir}, name) = {Lookup(dir, name)}
<1>1. PICK num \in Ino : <<name, num>> \in DirEntries(dir)
    BY DEF Below
<1>2. Kind[dir] = "directory"
    BY <1>1 DEF DirEntries
<1>3. Blocks[dir] \in Seq(DirBlock) /\ Len(Blocks[dir]) = 1 /\ Blocks[dir] # << >>
    BY <1>2, DentriesAssumption
<1> DEFINE block == Blocks[dir][1]
<1>4. DOMAIN Blocks[dir] = {1} /\ block \in DirBlock
    BY <1>3
<1>5. DirEntries(dir) = {<<m, block[m]>> : m \in DOMAIN block}
    BY <1>2, <1>4 DEF DirEntries
<1> HIDE DEF block
<1>6. name \in DOMAIN block /\ num = block[name]
    BY <1>1, <1>5
<1>7. num # ENOENT /\ num # NULL
    BY DentriesAssumption DEF ENOENT, NULL
<1>8. InoFind(block, name) = num
    BY <1>6 DEF InoFind
<1>9. Lookup(dir, name) = num
    <2>1. Lookup(dir, name) = LET ino == InoFind(block, name)
                              IN  IF ino = ENOENT THEN Garbage ELSE ino
        BY <1>2, <1>3 DEF Lookup, block
    <2> QED
        BY <1>7, <1>8, <2>1
<1>10. \A other \in Ino : <<name, other>> \in DirEntries(dir) <=> other = num
    <2> TAKE other \in Ino
    <2>1. <<name, other>> \in DirEntries(dir) => other = num
        BY <1>5, <1>6
    <2> QED
        BY <1>1, <2>1
<1>11. Below({dir}, name) = {num}
    BY <1>10 DEF Below
<1> QED
    BY <1>7, <1>9, <1>11

\* A walk along a path that exists, through directories of one block, finds
\* what the disk has there; only those who want a new file are refused.
LEMMA FindsIt ==
    ASSUME Sound(dentry), NEW path \in Seq(Name), NEW creat \in BOOLEAN, NEW excl \in BOOLEAN,
           NEW f, Walks(f, path, creat, excl), Reached(path) # {}, OneBlock(path)
    PROVE  IF creat /\ excl /\ path # << >>
           THEN f[Len(path)].result = EEXIST
           ELSE /\ f[Len(path)].result = 0
                /\ Reached(path) = {f[Len(path)].cache[f[Len(path)].at].ino}
<1> DEFINE n == Len(path)
           g == Reach(path)
           ino(k) == f[k].cache[f[k].at].ino
           There(k) == f[k].result = 0 /\ g[k] = {ino(k)}
           N == {k \in 0..n : g[k] # {} => \A j \in 0..k : g[j] # {}}
           S == {k \in 0..n : ~(k = n /\ creat /\ excl /\ k # 0) => There(k)}
<1>1. n \in Nat /\ \A k \in 1..n : path[k] \in Name
    OBVIOUS
<1>2. Reaches(g, path) /\ Reached(path) = g[n]
    BY ReachFacts, ReachedIs, Zenon
<1> HIDE DEF g
<1>3. N = 0..n
    <2>1. 0 \in N
        BY <1>1
    <2>2. ASSUME NEW k \in 1..n, k - 1 \in N PROVE k \in N
        <3>1. k \in 0..n /\ k - 1 \in 0..n
            BY <1>1
        <3>2. g[k - 1] # {} => \A j \in 0..(k - 1) : g[j] # {}
            BY <2>2
        <3>3. g[k] = Below(g[k - 1], path[k])
            BY <1>2, Zenon DEF Reaches
        <3>4. g[k] # {} => g[k - 1] # {}
            BY <3>3 DEF Below
        <3>5. ASSUME g[k] # {}, NEW j \in 0..k PROVE g[j] # {}
            <4>1. j = k \/ j \in 0..(k - 1)
                BY <3>1
            <4> QED
                BY <3>2, <3>4, <3>5, <4>1
        <3>6. g[k] # {} => \A j \in 0..k : g[j] # {}
            BY <3>5
        <3> QED
            BY <3>1, <3>6
    <2>3. N \in SUBSET (0..n)
        OBVIOUS
    <2> HIDE DEF N
    <2> QED
        BY <1>1, <2>1, <2>2, <2>3, ThroughSteps
<1>4. \A k \in 0..n : g[k] # {}
    <2>1. n \in N /\ g[n] # {}
        BY <1>1, <1>2, <1>3
    <2> QED
        BY <2>1
<1>5. ASSUME NEW k \in 1..n, NEW dir \in Ino, g[k - 1] = {dir}
      PROVE  Lookup(dir, path[k]) # NULL /\ g[k] = {Lookup(dir, path[k])}
    <2>1. k - 1 \in 0..(n - 1) /\ k - 1 \in 0..n /\ k \in 0..n
        BY <1>1
    <2>2. Reached(SubSeq(path, 1, k - 1)) = {dir}
        BY <1>5, <2>1, ReachOfPrefix, Zenon DEF g
    <2>3. Kind[dir] = "directory" => Len(Blocks[dir]) = 1
        BY <2>1, <2>2 DEF OneBlock
    <2>4. g[k] = Below({dir}, path[k])
        BY <1>2, <1>5, Zenon DEF Reaches
    <2>5. Below({dir}, path[k]) # {}
        BY <1>4, <2>1, <2>4
    <2> QED
        BY <1>1, <2>3, <2>4, <2>5, OneBlockLookup
<1>6. ASSUME NEW k \in 1..n, There(k - 1)
      PROVE  IF k = n /\ creat /\ excl THEN f[k].result = EEXIST ELSE There(k)
    <2>1. k - 1 \in 0..n /\ k \in 0..n
        BY <1>1
    <2>2. ino(k - 1) \in Ino
        <3>1. g[k - 1] \in SUBSET Ino
            BY <1>2, <2>1 DEF Reaches
        <3> QED
            BY <1>6, <3>1
    <2> DEFINE num == Lookup(ino(k - 1), path[k])
    <2>3. num # NULL /\ g[k] = {num}
        BY <1>5, <1>6, <2>2
    <2>4. Turned(f[k - 1], f[k], path, k, creat, excl) /\ f[k - 1].result = 0
        BY <1>6, Zenon DEF Walks
    <2>5. IF k = n /\ creat /\ excl THEN f[k].result = EEXIST
          ELSE f[k].result = 0 /\ ino(k) = num
        BY <2>3, <2>4, Zenon DEF Turned
    <2> HIDE DEF num
    <2> QED
        BY <2>3, <2>5
<1>7. There(0)
    <2>1. f[0] = [cache |-> dentry, at |-> 1, result |-> 0]
        BY DEF Walks
    <2>2. ino(0) = Root /\ f[0].result = 0
        BY <2>1 DEF Sound
    <2>3. g[0] = {Root}
        BY <1>2 DEF Reaches
    <2> QED
        BY <2>2, <2>3
<1>8. S = 0..n
    <2>1. 0 \in S
        BY <1>1, <1>7
    <2>2. ASSUME NEW k \in 1..n, k - 1 \in S PROVE k \in S
        <3>1. k \in 0..n /\ k - 1 # n
            BY <1>1
        <3>2. There(k - 1)
            <4> HIDE DEF There
            <4> QED
                BY <2>2, <3>1
        <3>3. IF k = n /\ creat /\ excl THEN f[k].result = EEXIST ELSE There(k)
            BY <1>6, <3>2, Zenon
        <3> HIDE DEF There
        <3> QED
            BY <3>1, <3>3
    <2>3. S \in SUBSET (0..n)
        OBVIOUS
    <2> HIDE DEF S, There
    <2> QED
        BY <1>1, <2>1, <2>2, <2>3, ThroughSteps
<1>9. path = << >> <=> n = 0
    OBVIOUS
<1>10. CASE creat /\ excl /\ path # << >>
    <2>1. n \in 1..n /\ n - 1 \in 0..n /\ n - 1 # n
        BY <1>1, <1>9, <1>10
    <2>2. There(n - 1)
        <3> HIDE DEF There
        <3> QED
            BY <1>8, <2>1
    <2>3. f[n].result = EEXIST
        BY <1>6, <1>10, <2>1, <2>2, Zenon
    <2> QED
        BY <1>10, <2>3
<1>11. CASE ~(creat /\ excl /\ path # << >>)
    <2>1. There(n)
        <3> HIDE DEF There
        <3>1. n \in S
            BY <1>1, <1>8
        <3> QED
            BY <1>9, <1>11, <3>1
    <2> QED
        BY <1>2, <1>11, <2>1
<1> QED
    BY <1>10, <1>11

-----------------------------------------------------------------------------
(* The invariant of path resolution                                        *)

\* The cache is sound, and what the last walk said is so.
TreeInv ==
    /\ Sound(dentry) /\ halted \in BOOLEAN
    /\ last # << >> => /\ last.path \in Seq(Name)
                       /\ last.result = 0 => CachedIn(dentry, last.path) = last.at
    /\ LookupAnswers

LEMMA TreeInitial == TreeInit => TreeInv
<1> SUFFICES ASSUME TreeInit PROVE TreeInv
    OBVIOUS
<1>1. Sound(dentry)
    <2> DEFINE root == [name |-> "/", parent |-> NoDentry, ino |-> Root]
    <2>1. root \in Cachable /\ root.ino = Root /\ root.parent = NoDentry
        BY DentriesAssumption DEF Cachable, NoDentry
    <2>2. dentry = <<root>>
        BY DEF TreeInit
    <2> HIDE DEF root
    <2>3. dentry \in Seq(Cachable) /\ Len(dentry) = 1 /\ dentry[1] = root
        BY <2>1, <2>2
    <2>4. 2..Len(dentry) = {}
        BY <2>3
    <2> QED
        BY <2>1, <2>3, <2>4 DEF Sound
<1>2. last = << >> /\ halted = FALSE
    BY DEF TreeInit
<1>3. LookupAnswers
    BY <1>2 DEF LookupAnswers, FindsWhatExists, NoEntryOnlyBehindFiles
<1> QED
    BY <1>1, <1>2, <1>3 DEF TreeInv

LEMMA OpenStep == TreeInv /\ Open => TreeInv'
<1> SUFFICES ASSUME TreeInv, Open PROVE TreeInv'
    OBVIOUS
<1>1. PICK path \in Path, creat \in BOOLEAN, excl \in BOOLEAN :
        LET w == PathFind(path, creat, excl)
        IN  /\ dentry' = w.cache
            /\ halted' = (w.result = CREATE)
            /\ last' = [path |-> path, new |-> creat /\ excl, at |-> w.at, result |-> w.result]
    BY Zenon DEF Open
<1>2. path \in Seq(Name) /\ Sound(dentry)
    BY DentriesAssumption DEF TreeInv
<1> DEFINE f == PathWalk(path, creat, excl)
           w == f[Len(path)]
<1>3. Walks(f, path, creat, excl) /\ PathFind(path, creat, excl) = w
    BY <1>2, PathWalks, PathFindIs
<1> HIDE DEF f
<1>4. w \in Walker
    BY <1>2, <1>3 DEF Walks
<1>5. /\ dentry' = w.cache /\ halted' = (w.result = CREATE)
      /\ last' = [path |-> path, new |-> creat /\ excl, at |-> w.at, result |-> w.result]
    BY <1>1, <1>3
<1>6. /\ last'.path = path /\ last'.new = (creat /\ excl) /\ last'.at = w.at
      /\ last'.result = w.result
    BY <1>5
<1>7. Sound(w.cache) /\ w.at \in 1..Len(w.cache)
    BY <1>4 DEF Walker, Walking
<1>8. Sound(dentry') /\ halted' \in BOOLEAN
    BY <1>5, <1>7
<1>9. w.result = 0 => CachedIn(w.cache, path) = w.at
    BY <1>2, <1>3, EndsInCache
<1>10. Reached(path) # {} /\ OneBlock(path) =>
          IF creat /\ excl /\ path # << >> THEN w.result = EEXIST
          ELSE w.result = 0 /\ Reached(path) = {w.cache[w.at].ino}
    BY <1>2, <1>3, FindsIt
<1>11. w.result \in {ENOENT, CREATE} => Kind[w.cache[w.at].ino] # "directory"
    BY <1>4 DEF Walker, Walking
<1>12. FindsWhatExists'
    BY <1>5, <1>6, <1>10, Zenon DEF FindsWhatExists
<1>13. NoEntryOnlyBehindFiles'
    <2>1. w.at \in DOMAIN w.cache
        BY <1>7, SoundFields
    <2> QED
        BY <1>5, <1>6, <1>11, <2>1, Zenon DEF NoEntryOnlyBehindFiles
<1>14. LookupAnswers'
    BY <1>12, <1>13 DEF LookupAnswers
<1>15. last'.result = 0 => CachedIn(dentry', last'.path) = last'.at
    BY <1>5, <1>6, <1>9
<1> QED
    BY <1>2, <1>6, <1>8, <1>14, <1>15, Zenon DEF TreeInv

LEMMA TreeStep == TreeInv /\ [TreeNext]_treeVars => TreeInv'
<1> SUFFICES ASSUME TreeInv, [TreeNext]_treeVars PROVE TreeInv'
    OBVIOUS
<1>1. CASE Open
    BY <1>1, OpenStep
<1>2. CASE UNCHANGED treeVars
    BY <1>2 DEF TreeInv, treeVars, LookupAnswers, FindsWhatExists, NoEntryOnlyBehindFiles
<1> QED
    BY <1>1, <1>2 DEF TreeNext, Stopped

LEMMA TreeInvSound == TreeInv => CacheSound
<1> SUFFICES ASSUME TreeInv PROVE CacheSound
    OBVIOUS
<1>1. Sound(dentry)
    BY DEF TreeInv
<1>2. /\ dentry \in Seq(Cachable) /\ Len(dentry) \in Nat /\ Len(dentry) > 0
      /\ DOMAIN dentry = 1..Len(dentry) /\ DOMAIN dentry \ {1} = 2..Len(dentry)
    BY <1>1 DEF Sound
<1>3. ASSUME NEW d \in DOMAIN dentry \ {1}
      PROVE  dentry[d] \in Dentry /\ dentry[d].parent \in 1..(d - 1)
    <2>1. dentry[d] \in Cachable
        BY <1>2
    <2>2. dentry[d].name \in Name /\ dentry[d].parent \in 1..(d - 1)
        BY <1>1, <1>2, <1>3 DEF Sound
    <2> QED
        BY <2>1, <2>2 DEF Cachable, Dentry
<1>4. TreeTypeOK
    BY <1>1, <1>3 DEF TreeInv, TreeTypeOK, Sound
<1>5. ASSUME NEW d \in DOMAIN dentry \ {1}
      PROVE  /\ dentry[d].ino = Lookup(dentry[dentry[d].parent].ino, dentry[d].name)
             /\ \A e \in DOMAIN dentry : dentry[e].parent = dentry[d].parent
                                         /\ dentry[e].name = dentry[d].name => e = d
    <2>1. d \in 2..Len(dentry)
        BY <1>2, <1>5
    <2>2. dentry[d].ino = Lookup(dentry[dentry[d].parent].ino, dentry[d].name)
        BY <1>1, <2>1 DEF Sound
    <2>3. ASSUME NEW e \in DOMAIN dentry, dentry[e].parent = dentry[d].parent,
                 dentry[e].name = dentry[d].name
          PROVE  e = d
        <3>1. CASE e = 1
            <4>1. dentry[e].parent = 0
                BY <1>1, <3>1 DEF Sound, NoDentry
            <4>2. dentry[d].parent \in 1..(d - 1)
                BY <1>3
            <4> QED
                BY <2>3, <4>1, <4>2
        <3>2. CASE e # 1
            <4>1. e \in 2..Len(dentry)
                BY <1>2, <3>2
            <4> QED
                BY <1>1, <2>1, <2>3, <4>1 DEF Sound
        <3> QED
            BY <3>1, <3>2
    <2> QED
        BY <2>2, <2>3
<1>6. \A path : Cached(path) = CachedIn(dentry, path)
    BY Zenon DEF Cached, CachedIn, IsCacheWalk
<1>7. last # << >> /\ last.result = 0 => Cached(last.path) = last.at
    BY <1>6, Zenon DEF TreeInv
<1> QED
    BY <1>4, <1>5, <1>7, Zenon DEF CacheSound

\* Whatever programs open, in whatever order, the cache of dentries is a tree
\* that agrees with the disk, without a second dentry of a name.
THEOREM CacheAgreesWithDisk == TreeSpec => []CacheSound
<1>1. TreeInit => TreeInv
    BY TreeInitial
<1>2. TreeInv /\ [TreeNext]_treeVars => TreeInv'
    BY TreeStep
<1>3. TreeInv => CacheSound
    BY TreeInvSound
<1> QED
    BY <1>1, <1>2, <1>3, PTL DEF TreeSpec

\* virt_fs_path_find finds what exists under directories of one block, from
\* every state of the cache, and denies a name only behind what is no directory.
THEOREM WalksAnswerTheDisk == TreeSpec => []LookupAnswers
<1>1. TreeInit => TreeInv
    BY TreeInitial
<1>2. TreeInv /\ [TreeNext]_treeVars => TreeInv'
    BY TreeStep
<1>3. TreeInv => LookupAnswers
    BY DEF TreeInv
<1> QED
    BY <1>1, <1>2, <1>3, PTL DEF TreeSpec

-----------------------------------------------------------------------------
(* Arithmetic of blocks                                                    *)

\* Division rounds down, and leaves what it does not cover.
LEMMA DivFacts ==
    ASSUME NEW a \in Nat, NEW b \in Nat \ {0}
    PROVE  /\ a \div b \in Nat
           /\ (a \div b) * b <= a
           /\ a < (a \div b) * b + b
  OBVIOUS

LEMMA ModFacts ==
    ASSUME NEW a \in Nat, NEW b \in Nat \ {0}
    PROVE  a % b = a - (a \div b) * b
  OBVIOUS

LEMMA TimesSuccessor ==
    ASSUME NEW a \in Nat, NEW b \in Nat
    PROVE  (a + 1) * b = a * b + b
  OBVIOUS

LEMMA TimesMonotone ==
    ASSUME NEW a \in Nat, NEW b \in Nat, NEW c \in Nat, a <= b
    PROVE  a * c <= b * c
  OBVIOUS

LEMMA TimesMod ==
    ASSUME NEW a \in Nat, NEW b \in Nat \ {0}
    PROVE  (a * b) % b = 0
  OBVIOUS

\* Only one multiple of b is so close below.
LEMMA CloseMultiple ==
    ASSUME NEW p \in Nat, NEW q \in Nat, NEW b \in Nat \ {0}, p * b <= q * b, q * b < p * b + b
    PROVE  p = q
<1>1. p * b \in Nat /\ q * b \in Nat
    OBVIOUS
<1>2. CASE p < q
    <2>1. (p + 1) * b <= q * b
        BY <1>2, TimesMonotone
    <2>2. (p + 1) * b = p * b + b
        BY TimesSuccessor
    <2> QED
        BY <1>1, <2>1, <2>2
<1>3. CASE q < p
    <2>1. (q + 1) * b <= p * b
        BY <1>3, TimesMonotone
    <2>2. (q + 1) * b = q * b + b
        BY TimesSuccessor
    <2> QED
        BY <1>1, <2>1, <2>2
<1> QED
    BY <1>2, <1>3

\* The place of a multiple.
LEMMA PlaceOf ==
    ASSUME NEW t \in Nat, NEW b \in Nat \ {0}
    PROVE  (t * b) \div b = t
<1> DEFINE q == (t * b) \div b
<1>1. t * b \in Nat
    OBVIOUS
<1>2. q \in Nat /\ q * b <= t * b /\ t * b < q * b + b
    BY <1>1, DivFacts
<1> HIDE DEF q
<1>3. q = t
    BY <1>2, CloseMultiple
<1> QED
    BY <1>3 DEF q

\* The a-th piece of c is at a * c when blocks of b hold b \div c of them.
InPlace(a, b, c) ==
    /\ b \div c \in Nat \ {0}
    /\ (a \div (b \div c)) * b + (a % (b \div c)) * c = a * c

LEMMA InPieces ==
    ASSUME NEW a \in Nat, NEW b \in Nat \ {0}, NEW c \in Nat \ {0}, b % c = 0
    PROVE  InPlace(a, b, c)
<1> DEFINE n == b \div c
<1>1. n \in Nat /\ b = n * c
    <2>1. n \in Nat
        BY DivFacts
    <2>2. b % c = b - n * c
        BY ModFacts
    <2> QED
        BY <2>1, <2>2
<1>2. n # 0
    BY <1>1
<1> HIDE DEF n
<1> DEFINE q == a \div n
           r == a % n
<1>3. q \in Nat /\ r = a - q * n /\ r \in Int
    <2>1. n \in Nat \ {0}
        BY <1>1, <1>2
    <2>2. q \in Nat /\ r = a - q * n
        BY <2>1, DivFacts, ModFacts
    <2> HIDE DEF q, r
    <2> QED
        BY <2>1, <2>2
<1> HIDE DEF q, r
<1>4. a = q * n + r
    BY <1>1, <1>3
<1>5. a * c = (q * n) * c + r * c
    BY <1>1, <1>3, <1>4
<1>6. (q * n) * c = q * b
    BY <1>1, <1>3
<1>7. q * b + r * c = a * c
    BY <1>5, <1>6
<1> QED
    BY <1>1, <1>2, <1>7 DEF InPlace, n, q, r

-----------------------------------------------------------------------------
(* The calls of ext2_fs_bread_n_rec, where an index block has e entries    *)

\* Blocks below an entry of an index block of level l + 1, or below a block of
\* level l.
Span(e, l) == CASE l = 0 -> 1 [] l = 1 -> e [] l = 2 -> e * e [] l = 3 -> e * (e * e)

Call(e) == [block : (0..3) \X Nat, i : 0..e]
Level(c) == c.block[1]

\* The block that a call comes to next, and the one behind its last.
NextOf(e, c) == IF Level(c) = 0 THEN c.block[2]
                ELSE c.block[2] + c.i * Span(e, Level(c) - 1)
EndOf(e, c) == c.block[2] + Span(e, Level(c))

\* Where ext2_fs_read descends from i_block.
Starts(e) == (0..Direct) \cup {Direct + e, Direct + e + e * e, Direct + e + e * e + e * (e * e)}

\* Every call is about to go on where the call inside it ends, and the
\* outermost ends where ext2_fs_read goes on.
Chained(e, s) ==
    /\ \A j \in 1..(Len(s) - 1) : /\ Level(s[j + 1]) = Level(s[j]) + 1
                                  /\ EndOf(e, s[j]) = NextOf(e, s[j + 1])
    /\ s # << >> => EndOf(e, s[Len(s)]) \in Starts(e)

LEMMA SpanFacts ==
    ASSUME NEW e \in Nat, NEW l \in 0..3
    PROVE  /\ Span(e, l) \in Nat
           /\ l # 0 => e * Span(e, l - 1) = Span(e, l)
<1>1. CASE l = 0
    BY <1>1 DEF Span
<1>2. CASE l = 1
    BY <1>2 DEF Span
<1>3. CASE l = 2
    BY <1>3 DEF Span
<1>4. CASE l = 3
    <2>1. Span(e, 3) = e * (e * e) /\ Span(e, 2) = e * e
        BY DEF Span
    <2> QED
        BY <1>4, <2>1
<1> QED
    BY <1>1, <1>2, <1>3, <1>4

LEMMA CallFields ==
    ASSUME NEW e \in Nat, NEW c \in Call(e)
    PROVE  /\ Level(c) \in 0..3 /\ c.block[2] \in Nat /\ c.i \in 0..e
           /\ c = [block |-> c.block, i |-> c.i] /\ c.block \in (0..3) \X Nat
           /\ c.block = <<Level(c), c.block[2]>>
           /\ NextOf(e, c) \in Nat /\ EndOf(e, c) \in Nat
<1>1. /\ Level(c) \in 0..3 /\ c.block[2] \in Nat /\ c.i \in 0..e
      /\ c = [block |-> c.block, i |-> c.i] /\ c.block \in (0..3) \X Nat
      /\ c.block = <<Level(c), c.block[2]>>
    BY DEF Call, Level
<1>2. EndOf(e, c) \in Nat
    BY <1>1, SpanFacts DEF EndOf
<1>3. NextOf(e, c) \in Nat
    <2>1. CASE Level(c) = 0
        BY <1>1, <2>1 DEF NextOf
    <2>2. CASE Level(c) # 0
        <3>1. Level(c) - 1 \in 0..3
            BY <1>1, <2>2
        <3>2. Span(e, Level(c) - 1) \in Nat
            BY <3>1, SpanFacts
        <3>3. NextOf(e, c) = c.block[2] + c.i * Span(e, Level(c) - 1)
            BY <2>2 DEF NextOf
        <3> QED
            BY <1>1, <3>2, <3>3
    <2> QED
        BY <2>1, <2>2
<1> QED
    BY <1>1, <1>2, <1>3

\* A call that is through leaves the others as they should be.
LEMMA ChainPop ==
    ASSUME NEW e \in Nat, NEW s \in Seq(Call(e)), s # << >>, Chained(e, s)
    PROVE  /\ Tail(s) \in Seq(Call(e)) /\ Chained(e, Tail(s))
           /\ Tail(s) # << >> => NextOf(e, Tail(s)[1]) = EndOf(e, s[1])
           /\ Tail(s) = << >> => EndOf(e, s[1]) \in Starts(e)
<1> DEFINE t == Tail(s)
           m == Len(s)
<1>1. /\ t \in Seq(Call(e)) /\ m \in Nat /\ m > 0 /\ Len(t) = m - 1
      /\ \A j \in 1..(m - 1) : t[j] = s[j + 1]
      /\ t = << >> <=> m = 1
    <2>1. m \in Nat /\ m > 0 /\ t \in Seq(Call(e)) /\ Len(t) = m - 1
        OBVIOUS
    <2>2. \A j \in 1..(m - 1) : t[j] = s[j + 1]
        OBVIOUS
    <2> HIDE DEF t, m
    <2>3. t = << >> <=> Len(t) = 0
        BY <2>1
    <2> QED
        BY <2>1, <2>2, <2>3
<1> HIDE DEF t
<1>2. /\ \A j \in 1..(m - 1) : /\ Level(s[j + 1]) = Level(s[j]) + 1
                               /\ EndOf(e, s[j]) = NextOf(e, s[j + 1])
      /\ EndOf(e, s[m]) \in Starts(e)
    BY DEF Chained
<1> HIDE DEF m
<1>3. ASSUME NEW j \in 1..(Len(t) - 1)
      PROVE  Level(t[j + 1]) = Level(t[j]) + 1 /\ EndOf(e, t[j]) = NextOf(e, t[j + 1])
    <2>1. j \in 1..(m - 1) /\ j + 1 \in 1..(m - 1)
        BY <1>1
    <2>2. t[j] = s[j + 1] /\ t[j + 1] = s[(j + 1) + 1]
        BY <1>1, <2>1
    <2> QED
        BY <1>2, <2>1, <2>2
<1>4. t # << >> => EndOf(e, t[Len(t)]) \in Starts(e)
    <2> HAVE t # << >>
    <2>1. m - 1 \in 1..(m - 1) /\ (m - 1) + 1 = m
        BY <1>1
    <2>2. t[Len(t)] = s[m]
        BY <1>1, <2>1
    <2> QED
        BY <1>2, <2>2
<1>5. t # << >> => NextOf(e, t[1]) = EndOf(e, s[1])
    <2> HAVE t # << >>
    <2>1. 1 \in 1..(m - 1) /\ 1 + 1 = 2
        BY <1>1
    <2> QED
        BY <1>1, <1>2, <2>1
<1>6. t = << >> => EndOf(e, s[1]) \in Starts(e)
    BY <1>1, <1>2
<1> QED
    BY <1>1, <1>3, <1>4, <1>5, <1>6 DEF Chained, t

\* So does a call that goes one entry down.
LEMMA ChainPush ==
    ASSUME NEW e \in Nat, NEW s \in Seq(Call(e)), s # << >>, Chained(e, s),
           Level(s[1]) # 0, s[1].i < e
    PROVE  LET c  == s[1]
               d  == [block |-> <<Level(c) - 1, c.block[2] + c.i * Span(e, Level(c) - 1)>>, i |-> 0]
               s2 == <<d, [c EXCEPT !.i = @ + 1]>> \o Tail(s)
           IN  /\ s2 \in Seq(Call(e)) /\ s2 # << >> /\ s2[1] = d /\ Chained(e, s2)
               /\ NextOf(e, d) = NextOf(e, c)
<1> DEFINE c  == s[1]
           l  == Level(c) - 1
           d  == [block |-> <<l, c.block[2] + c.i * Span(e, l)>>, i |-> 0]
           c2 == [c EXCEPT !.i = @ + 1]
           s2 == <<d, c2>> \o Tail(s)
           m  == Len(s)
<1>1. /\ c \in Call(e) /\ m \in Nat /\ m > 0 /\ Len(Tail(s)) = m - 1
      /\ Tail(s) \in Seq(Call(e))
      /\ \A j \in 1..(m - 1) : Tail(s)[j] = s[j + 1]
    OBVIOUS
<1>2. /\ Level(c) \in 0..3 /\ c.block[2] \in Nat /\ c.i \in 0..e
      /\ c = [block |-> c.block, i |-> c.i] /\ c.block \in (0..3) \X Nat
    BY <1>1, CallFields
<1>3. l \in 0..2 /\ Level(c) = l + 1
    BY <1>2
<1>4. Span(e, l) \in Nat
    <2>1. l \in 0..3
        BY <1>3
    <2> HIDE DEF l
    <2> QED
        BY <2>1, SpanFacts
<1> HIDE DEF l
<1>5. c.i * Span(e, l) \in Nat /\ (c.i + 1) * Span(e, l) = c.i * Span(e, l) + Span(e, l)
    BY <1>2, <1>4
<1>6. /\ d \in Call(e) /\ Level(d) = l /\ d.block[2] = c.block[2] + c.i * Span(e, l) /\ d.i = 0
    <2> DEFINE k == c.block[2] + c.i * Span(e, l)
    <2>1. k \in Nat /\ 0 \in 0..e
        BY <1>2, <1>5
    <2> HIDE DEF k
    <2> QED
        BY <1>3, <2>1 DEF Call, Level, k
<1>7. /\ c2 \in Call(e) /\ c2.block = c.block /\ c2.i = c.i + 1 /\ Level(c2) = Level(c)
    <2>1. c.i + 1 \in 0..e
        BY <1>2
    <2>2. c2 = [block |-> c.block, i |-> c.i + 1]
        BY <1>2
    <2> QED
        BY <1>2, <2>1, <2>2 DEF Call, Level
<1> HIDE DEF d, c2
<1>8. NextOf(e, c) = c.block[2] + c.i * Span(e, l)
    BY <1>3 DEF NextOf, l
<1>9. NextOf(e, d) = c.block[2] + c.i * Span(e, l)
    <2>1. CASE Level(d) = 0
        BY <1>6, <2>1 DEF NextOf
    <2>2. CASE Level(d) # 0
        <3>1. NextOf(e, d) = d.block[2] + 0 * Span(e, l - 1)
            BY <1>6, <2>2 DEF NextOf
        <3>2. l - 1 \in 0..3
            BY <1>3, <1>6, <2>2
        <3>3. Span(e, l - 1) \in Nat
            BY <3>2, SpanFacts
        <3>4. 0 * Span(e, l - 1) = 0
            BY <3>3
        <3> QED
            BY <1>2, <1>5, <1>6, <3>1, <3>4
    <2> QED
        BY <2>1, <2>2
<1>10. EndOf(e, d) = NextOf(e, c2)
    <2>1. EndOf(e, d) = (c.block[2] + c.i * Span(e, l)) + Span(e, l)
        BY <1>6 DEF EndOf
    <2>2. NextOf(e, c2) = c.block[2] + (c.i + 1) * Span(e, l)
        BY <1>3, <1>7 DEF NextOf, l
    <2> QED
        BY <1>2, <1>4, <1>5, <2>1, <2>2
<1>11. EndOf(e, c2) = EndOf(e, c) /\ Level(c2) = Level(d) + 1
    BY <1>3, <1>6, <1>7 DEF EndOf
<1> HIDE DEF c
<1>12. /\ s2 \in Seq(Call(e)) /\ Len(s2) = m + 1 /\ s2 # << >>
       /\ s2[1] = d /\ s2[2] = c2
       /\ \A j \in 3..(m + 1) : s2[j] = s[j - 1]
    <2>1. <<d, c2>> \in Seq(Call(e)) /\ Len(<<d, c2>>) = 2
        BY <1>6, <1>7
    <2>2. s2 \in Seq(Call(e)) /\ Len(s2) = m + 1
        BY <1>1, <2>1
    <2>3. s2[1] = d /\ s2[2] = c2
        BY <1>1, <2>1
    <2>4. ASSUME NEW j \in 3..(m + 1) PROVE s2[j] = s[j - 1]
        <3>1. j - 2 \in 1..(m - 1) /\ (j - 2) + 1 = j - 1 /\ j \in 1..(m + 1)
            BY <1>1
        <3>2. s2[j] = Tail(s)[j - 2]
            BY <1>1, <2>1, <3>1
        <3> QED
            BY <1>1, <3>1, <3>2
    <2>5. s2 # << >>
        BY <1>1, <2>2
    <2> QED
        BY <2>2, <2>3, <2>4, <2>5
<1> HIDE DEF s2
<1>13. /\ \A j \in 1..(m - 1) : /\ Level(s[j + 1]) = Level(s[j]) + 1
                                /\ EndOf(e, s[j]) = NextOf(e, s[j + 1])
       /\ EndOf(e, s[m]) \in Starts(e)
    BY DEF Chained
<1> HIDE DEF m
<1>14. ASSUME NEW j \in 1..m
       PROVE  Level(s2[j + 1]) = Level(s2[j]) + 1 /\ EndOf(e, s2[j]) = NextOf(e, s2[j + 1])
    <2>1. CASE j = 1
        BY <1>10, <1>11, <1>12, <2>1
    <2>2. CASE j = 2
        <3>1. s2[3] = s[2] /\ 1 \in 1..(m - 1) /\ 1 + 1 = 2 /\ 2 + 1 = 3
            BY <1>1, <1>12, <2>2
        <3>2. Level(s[2]) = Level(s[1]) + 1 /\ EndOf(e, s[1]) = NextOf(e, s[2])
            BY <1>13, <3>1
        <3>3. Level(c2) = Level(s[1]) /\ EndOf(e, c2) = EndOf(e, s[1])
            BY <1>7, <1>11 DEF c
        <3> QED
            BY <1>12, <2>2, <3>1, <3>2, <3>3
    <2>3. CASE j > 2
        <3>1. j \in 3..(m + 1) /\ j + 1 \in 3..(m + 1) /\ j - 1 \in 1..(m - 1) /\ (j + 1) - 1 = (j - 1) + 1
            BY <1>1, <2>3
        <3>2. s2[j] = s[j - 1] /\ s2[j + 1] = s[(j - 1) + 1]
            BY <1>12, <3>1
        <3> QED
            BY <1>13, <3>1, <3>2
    <2> QED
        BY <1>1, <2>1, <2>2, <2>3
<1>15. EndOf(e, s2[m + 1]) \in Starts(e)
    <2>1. CASE m = 1
        BY <1>11, <1>12, <1>13, <2>1 DEF c
    <2>2. CASE m # 1
        <3>1. m + 1 \in 3..(m + 1) /\ (m + 1) - 1 = m
            BY <1>1, <2>2
        <3>2. s2[m + 1] = s[m]
            BY <1>12, <3>1
        <3> QED
            BY <1>13, <3>2
    <2> QED
        BY <2>1, <2>2
<1>16. Chained(e, s2)
    BY <1>1, <1>12, <1>14, <1>15 DEF Chained
<1> QED
    BY <1>8, <1>9, <1>12, <1>16 DEF s2, c2, d, c, l

\* ext2_fs_read descends from the place of i_block that has the block.
LEMMA PlaceType ==
    ASSUME entries \in Entries, NEW t \in Nat, PlaceFor(t) # NoPlace
    PROVE  IBlock(PlaceFor(t)) \in (0..3) \X Nat
<1>1. entries \in Nat /\ Direct \in 1..12
    BY Ext2Assumption
<1>2. entries * entries \in Nat
    BY <1>1
<1>3. CASE t < Direct
    <2>1. PlaceFor(t) = t /\ t < 12
        BY <1>1, <1>3 DEF PlaceFor
    <2>2. IBlock(t) = <<0, t>>
        BY <2>1 DEF IBlock
    <2> QED
        BY <2>1, <2>2
<1>4. CASE ~(t < Direct)
    <2>1. PlaceFor(t) \in {12, 13, 14}
        BY <1>4 DEF PlaceFor, NoPlace
    <2>2. /\ IBlock(12) = <<1, Direct>>
          /\ IBlock(13) = <<2, Direct + entries>>
          /\ IBlock(14) = <<3, Direct + entries + entries * entries>>
        BY DEF IBlock
    <2> QED
        BY <1>1, <1>2, <2>1, <2>2
<1> QED
    BY <1>3, <1>4

LEMMA PlaceOfStart ==
    ASSUME entries \in Entries, NEW t \in Starts(entries), t < Upper3
    PROVE  LET c == [block |-> IBlock(PlaceFor(t)), i |-> 0]
           IN  /\ t \in Nat /\ PlaceFor(t) # NoPlace
               /\ NextOf(entries, c) = t /\ EndOf(entries, c) \in Starts(entries)
<1> DEFINE e  == entries
           e2 == e * e
           e3 == e * (e * e)
           a2 == Assumed * Assumed
           a3 == Assumed * Assumed * Assumed
           call(b) == [block |-> b, i |-> 0]
<1>1. /\ e \in Nat /\ Assumed \in Nat /\ Assumed > 0 /\ Direct \in 1..12
      /\ Assumed <= e /\ e < Assumed + a2
    BY Ext2Assumption
<1>2. e2 \in Nat /\ a2 \in Nat /\ a2 <= e2
    <2>1. Assumed * Assumed <= e * Assumed
        BY <1>1, TimesMonotone
    <2>2. e * Assumed <= e * e
        BY <1>1
    <2> QED
        BY <1>1, <2>1, <2>2
<1>3. e3 \in Nat /\ a3 \in Nat /\ a3 <= e3
    <2>1. a2 * Assumed <= e2 * Assumed
        BY <1>1, <1>2, TimesMonotone
    <2>2. Assumed * e2 <= e * e2
        BY <1>1, <1>2, TimesMonotone
    <2>3. e2 * Assumed = Assumed * e2
        BY <1>1, <1>2
    <2>4. e3 \in Nat /\ a3 \in Nat /\ e2 * Assumed \in Nat
        BY <1>1
    <2>5. a3 = a2 * Assumed /\ e3 = e * e2
        OBVIOUS
    <2>6. a3 <= e2 * Assumed /\ e2 * Assumed <= e3
        BY <2>1, <2>2, <2>3, <2>5, Zenon
    <2> DEFINE m == e2 * Assumed
    <2> HIDE DEF e3, a3, m
    <2>7. a3 <= m /\ m <= e3 /\ e3 \in Nat /\ a3 \in Nat /\ m \in Nat
        BY <2>4, <2>6 DEF m
    <2> QED
        BY <2>7
<1>4. /\ Upper1 = Direct + Assumed /\ Upper2 = Direct + Assumed + a2
      /\ Upper3 = Direct + Assumed + a2 + a3
    BY DEF Upper1, Upper2, Upper3
<1>5. Starts(e) = (0..Direct) \cup {Direct + e, Direct + e + e2, Direct + e + e2 + e3}
    BY DEF Starts
<1>6. /\ Span(e, 0) = 1 /\ Span(e, 1) = e /\ Span(e, 2) = e2 /\ Span(e, 3) = e3
    BY DEF Span
<1>7. \A l \in 0..3, k \in Nat : /\ Level(call(<<l, k>>)) = l
                                 /\ call(<<l, k>>).block[2] = k /\ call(<<l, k>>).i = 0
    BY DEF Level
<1>8. /\ IBlock(12) = <<1, Direct>> /\ IBlock(13) = <<2, Direct + e>>
      /\ IBlock(14) = <<3, Direct + e + e2>>
      /\ \A k \in 0..11 : IBlock(k) = <<0, k>>
    BY DEF IBlock
<1>9. \A l \in 0..3, k \in Nat : /\ NextOf(e, call(<<l, k>>)) = k
                                 /\ EndOf(e, call(<<l, k>>)) = k + Span(e, l)
    <2> TAKE l \in 0..3, k \in Nat
    <2>1. EndOf(e, call(<<l, k>>)) = k + Span(e, l)
        BY <1>7 DEF EndOf
    <2>2. CASE l = 0
        BY <1>7, <2>1, <2>2 DEF NextOf
    <2>3. CASE l # 0
        <3>1. NextOf(e, call(<<l, k>>)) = k + 0 * Span(e, l - 1)
            BY <1>7, <2>3 DEF NextOf
        <3>2. l - 1 \in 0..3
            BY <2>3
        <3>3. Span(e, l - 1) \in Nat
            BY <1>1, <3>2, SpanFacts
        <3>4. 0 * Span(e, l - 1) = 0
            BY <3>3
        <3> QED
            BY <2>1, <3>1, <3>4
    <2> QED
        BY <2>2, <2>3
<1> HIDE DEF e, e2, e3, a2, a3, call
<1>10. t \in Nat
    <2>1. t \in Starts(e)
        BY DEF e
    <2> QED
        BY <1>1, <1>2, <1>3, <1>5, <2>1
<1> DEFINE Good(p) == /\ PlaceFor(t) = p /\ p # NoPlace
                      /\ NextOf(e, call(IBlock(p))) = t /\ EndOf(e, call(IBlock(p))) \in Starts(e)
<1>11. CASE t < Direct
    <2>1. PlaceFor(t) = t /\ t \in 0..11 /\ t # 15
        BY <1>1, <1>10, <1>11 DEF PlaceFor
    <2>2. NextOf(e, call(<<0, t>>)) = t /\ EndOf(e, call(<<0, t>>)) = t + 1
        BY <1>6, <1>9, <1>10
    <2>3. t + 1 \in Starts(e)
        BY <1>1, <1>5, <1>10, <1>11
    <2>4. IBlock(t) = <<0, t>>
        BY <1>8, <2>1
    <2>5. Good(t)
        BY <2>1, <2>2, <2>3, <2>4 DEF NoPlace
    <2> QED
        BY <1>10, <2>5 DEF e, call
<1>12. CASE t = Direct
    <2>1. PlaceFor(t) = 12
        BY <1>1, <1>4, <1>12 DEF PlaceFor
    <2>2. NextOf(e, call(<<1, t>>)) = t /\ EndOf(e, call(<<1, t>>)) = t + e
        BY <1>6, <1>9, <1>10
    <2>3. t + e \in Starts(e)
        BY <1>5, <1>12
    <2>4. Good(12)
        BY <1>8, <1>12, <2>1, <2>2, <2>3 DEF NoPlace
    <2> QED
        BY <1>10, <2>4 DEF e, call
<1>13. CASE t = Direct + e
    <2>1. PlaceFor(t) = 13
        BY <1>1, <1>2, <1>4, <1>13 DEF PlaceFor
    <2>2. NextOf(e, call(<<2, t>>)) = t /\ EndOf(e, call(<<2, t>>)) = t + e2
        BY <1>6, <1>9, <1>10
    <2>3. t + e2 \in Starts(e)
        BY <1>5, <1>13
    <2>4. Good(13)
        BY <1>8, <1>13, <2>1, <2>2, <2>3 DEF NoPlace
    <2> QED
        BY <1>10, <2>4 DEF e, call
<1>14. CASE t = Direct + e + e2
    <2>1. PlaceFor(t) = 14
        BY <1>1, <1>2, <1>3, <1>4, <1>14 DEF PlaceFor
    <2>2. NextOf(e, call(<<3, t>>)) = t /\ EndOf(e, call(<<3, t>>)) = t + e3
        BY <1>6, <1>9, <1>10
    <2>3. t + e3 \in Starts(e)
        BY <1>5, <1>14
    <2>4. Good(14)
        BY <1>8, <1>14, <2>1, <2>2, <2>3 DEF NoPlace
    <2> QED
        BY <1>10, <2>4 DEF e, call
<1>15. t # Direct + e + e2 + e3
    BY <1>1, <1>2, <1>3, <1>4, <1>10
<1>16. t < Direct \/ t = Direct \/ t = Direct + e \/ t = Direct + e + e2
    <2>1. t \in Starts(e)
        BY DEF e
    <2> QED
        BY <1>1, <1>5, <1>15, <2>1
<1> QED
    BY <1>11, <1>12, <1>13, <1>14, <1>16

-----------------------------------------------------------------------------
(* The invariant of a read                                                 *)

\* A read of n bytes from p on has so many of them before the byte t; from a
\* block of b bytes at t it leaves out so many in front and behind.
CopiedAt(p, n, t) == IF t <= p THEN 0 ELSE IF t < p + n THEN t - p ELSE n
FromOf(p, t) == IF p > t THEN p - t ELSE 0
ToOf(p, n, t, b) == IF p + n < t + b THEN t + b - p - n ELSE 0

LEMMA PartOfBlock ==
    ASSUME NEW p \in Nat, NEW n \in Nat, NEW t \in Nat, NEW b \in Nat \ {0},
           p < t + b, t < p + n
    PROVE  /\ FromOf(p, t) \in Nat /\ b - FromOf(p, t) - ToOf(p, n, t, b) \in Nat
           /\ CopiedAt(p, n, t) \in Nat
           /\ CopiedAt(p, n, t) + (b - FromOf(p, t) - ToOf(p, n, t, b)) = CopiedAt(p, n, t + b)
           /\ t + FromOf(p, t) = p + CopiedAt(p, n, t)
<1>1. CASE t <= p /\ t + b < p + n
    BY <1>1 DEF CopiedAt, FromOf, ToOf
<1>2. CASE t <= p /\ ~(t + b < p + n)
    BY <1>2 DEF CopiedAt, FromOf, ToOf
<1>3. CASE ~(t <= p) /\ t + b < p + n
    BY <1>3 DEF CopiedAt, FromOf, ToOf
<1>4. CASE ~(t <= p) /\ ~(t + b < p + n)
    BY <1>4 DEF CopiedAt, FromOf, ToOf
<1> QED
    BY <1>1, <1>2, <1>3, <1>4

Progress(t) == CopiedAt(pos, count, t)

FileBase ==
    /\ entries \in Entries /\ size \in 0..MaxSize /\ pos \in 0..size
    /\ phase \in {"idle", "reading", "done", "wild"} /\ count \in 0..(Word - 1)
    /\ target_pos \in Nat /\ target_pos = (target_pos \div BlockSize) * BlockSize
    /\ calls \in Seq(Call(entries)) /\ copied \in Seq(Nat)
    /\ phase # "reading" => calls = << >>
    /\ phase \in {"reading", "done"} =>
          /\ pos + count <= size /\ pos < target_pos + BlockSize
          /\ Len(copied) = Progress(target_pos)
    /\ phase = "done" => ~Wanted
    /\ calls # << >> /\ Level(calls[1]) = 0 => Wanted
    /\ \A j \in 2..Len(calls) : Level(calls[j]) # 0

\* A read that starts where ext2_fs_read can start has copied the bytes of the
\* file so far, and comes to the block of target_pos next.
Comes ==
    LET t == target_pos \div BlockSize
    IN  IF calls = << >> THEN t \in Starts(entries) ELSE NextOf(entries, calls[1]) = t
FileOrder ==
    InOrder(pos \div BlockSize) =>
        /\ phase \in {"reading", "done"} => \A k \in 1..Len(copied) : copied[k] = pos + k - 1
        /\ phase = "reading" => Chained(entries, calls) /\ (Wanted => Comes)

FileInv == FileBase /\ FileOrder /\ InodeExact

LEMMA FileTypes ==
    ASSUME FileBase
    PROVE  /\ entries \in Nat /\ size \in Nat /\ pos \in Nat /\ count \in Nat
           /\ target_pos \in Nat /\ BlockSize \in Nat \ {0} /\ Word \in Nat \ {0}
           /\ target_pos \div BlockSize \in Nat
           /\ calls # << >> => calls[1] \in Call(entries) /\ Head(calls) = calls[1]
<1>1. /\ BlockSize \in Nat \ {0} /\ MaxSize \in Nat /\ Word \in Nat /\ MaxSize < Word
      /\ Entries \subseteq Nat
    BY Ext2Assumption
<1>2. size \in Nat /\ pos \in Nat /\ count \in Nat /\ Word \in Nat \ {0} /\ entries \in Nat
    BY <1>1 DEF FileBase
<1>3. target_pos \in Nat /\ target_pos \div BlockSize \in Nat
    BY <1>1, DivFacts DEF FileBase
<1>4. calls # << >> => calls[1] \in Call(entries) /\ Head(calls) = calls[1]
    <2>1. calls \in Seq(Call(entries))
        BY DEF FileBase
    <2> QED
        BY <2>1
<1> QED
    BY <1>1, <1>2, <1>3, <1>4

\* What a read wants is in a block of the file.
LEMMA WantedInFile ==
    ASSUME FileBase, phase = "reading", Wanted
    PROVE  target_pos \div BlockSize < Upper3
<1> DEFINE t == target_pos \div BlockSize
<1>1. /\ t \in Nat /\ BlockSize \in Nat \ {0} /\ pos \in Nat /\ count \in Nat /\ size \in Nat
      /\ target_pos = t * BlockSize
    BY FileTypes DEF FileBase
<1>2. /\ size <= MaxSize /\ pos + count <= size /\ target_pos < pos + count
    BY DEF FileBase, Wanted
<1>3. Upper3 \in Nat /\ MaxSize \in Nat /\ MaxSize <= Upper3 * BlockSize /\ Upper3 * BlockSize \in Nat
    BY Ext2Assumption DEF Upper3, Upper2, Upper1
<1> HIDE DEF t
<1>4. t * BlockSize < Upper3 * BlockSize
    BY <1>1, <1>2, <1>3
<1>5. CASE Upper3 <= t
    <2>1. Upper3 * BlockSize <= t * BlockSize
        BY <1>1, <1>3, <1>5, TimesMonotone
    <2>2. t * BlockSize \in Nat
        BY <1>1
    <2> QED
        BY <1>3, <1>4, <2>1, <2>2
<1>6. t < Upper3
    BY <1>1, <1>3, <1>5
<1> QED
    BY <1>6 DEF t

\* The copy of a block is the part of it that the read wants.
LEMMA CopyFacts ==
    ASSUME FileBase, phase = "reading", Wanted, NEW block \in {0} \X Nat
    PROVE  /\ Copied(block) \in Seq(Nat)
           /\ Len(copied) + Len(Copied(block)) = Progress(target_pos + BlockSize)
           /\ target_pos = block[2] * BlockSize =>
                 \A k \in 1..Len(Copied(block)) : Copied(block)[k] = pos + Len(copied) + k - 1
<1> DEFINE from == IF pos > target_pos THEN pos - target_pos ELSE 0
           to   == IF pos + count < target_pos + BlockSize
                   THEN target_pos + BlockSize - pos - count ELSE 0
           m    == BlockSize - from - to
           base == block[2] * BlockSize
           P    == Progress(target_pos)
           P2   == Progress(target_pos + BlockSize)
<1>1. /\ pos \in Nat /\ count \in Nat /\ target_pos \in Nat /\ BlockSize \in Nat \ {0}
      /\ block[2] \in Nat
    BY FileTypes
<1>2. /\ pos < target_pos + BlockSize /\ target_pos < pos + count /\ Len(copied) = P
    BY DEF FileBase, Wanted
<1>3. base \in Nat
    BY <1>1
<1>4. Copied(block) = [k \in 1..m |-> base + from + k - 1]
    BY DEF Copied
<1>5. /\ from \in Nat /\ m \in Nat
      /\ P \in Nat /\ P + m = P2
      /\ target_pos + from = pos + P
    <2>1. P = CopiedAt(pos, count, target_pos) /\ P2 = CopiedAt(pos, count, target_pos + BlockSize)
        BY Zenon DEF Progress
    <2>2. /\ from = FromOf(pos, target_pos)
          /\ to = ToOf(pos, count, target_pos, BlockSize)
        BY Zenon DEF FromOf, ToOf
    <2> HIDE DEF P, P2, from, to
    <2> QED
        BY <1>1, <1>2, <2>1, <2>2, PartOfBlock
<1> HIDE DEF from, to, m, base, P, P2
<1>6. Copied(block) \in Seq(Nat) /\ Len(Copied(block)) = m
      /\ \A k \in 1..m : Copied(block)[k] = base + from + k - 1
    <2>1. \A k \in 1..m : base + from + k - 1 \in Nat
        BY <1>3, <1>5
    <2> QED
        BY <1>4, <1>5, <2>1
<1>7. ASSUME target_pos = base, NEW k \in 1..m
      PROVE  Copied(block)[k] = pos + Len(copied) + k - 1
    <2>1. Copied(block)[k] = base + from + k - 1
        BY <1>6
    <2>2. base + from = pos + Len(copied)
        BY <1>2, <1>5, <1>7
    <2> QED
        BY <1>1, <1>2, <1>3, <1>5, <1>7, <2>1, <2>2
<1> QED
    BY <1>2, <1>5, <1>6, <1>7 DEF base, P2

\* The next block begins behind this one.
LEMMA NextBlock ==
    ASSUME FileBase
    PROVE  /\ (target_pos + BlockSize) \div BlockSize = target_pos \div BlockSize + 1
           /\ target_pos + BlockSize =
                 ((target_pos + BlockSize) \div BlockSize) * BlockSize
<1> DEFINE t == target_pos \div BlockSize
<1>1. t \in Nat /\ BlockSize \in Nat \ {0} /\ target_pos = t * BlockSize
    BY FileTypes DEF FileBase
<1> HIDE DEF t
<1>2. (t + 1) * BlockSize = target_pos + BlockSize
    BY <1>1, TimesSuccessor
<1>3. ((t + 1) * BlockSize) \div BlockSize = t + 1
    BY <1>1, PlaceOf
<1> QED
    BY <1>1, <1>2, <1>3 DEF t

LEMMA StartStep == ASSUME FileInv, NEW n \in Counts, ReadStart(n) PROVE FileInv'
<1> DEFINE b == pos \div BlockSize
<1>1. /\ pos \in Nat /\ BlockSize \in Nat \ {0} /\ Word \in Nat \ {0} /\ size \in Nat
      /\ count \in Nat /\ n \in Int
    BY FileTypes, Ext2Assumption DEF FileInv
<1>2. /\ b \in Nat /\ b * BlockSize <= pos /\ pos < b * BlockSize + BlockSize
      /\ (b * BlockSize) \div BlockSize = b
    BY <1>1, DivFacts, PlaceOf
<1> HIDE DEF b
<1>3. /\ target_pos' = b * BlockSize /\ calls' = << >> /\ copied' = << >> /\ inode' = << >>
      /\ entries' = entries /\ size' = size /\ pos' = pos
      /\ count' = Limited(n)
      /\ phase' = IF pos + count' > size THEN "wild" ELSE "reading"
    BY DEF ReadStart, b
<1>4. count' \in 0..(Word - 1)
    <2> DEFINE x == (IF (pos + n) % Word < size THEN (pos + n) % Word ELSE size) - pos
    <2>1. x \in Int
        BY <1>1
    <2>2. count' = x % Word
        BY <1>3, Zenon DEF Limited
    <2> HIDE DEF x
    <2>3. x % Word \in 0..(Word - 1)
        BY <1>1, <2>1
    <2> QED
        BY <2>2, <2>3
<1>5. CopiedAt(pos, count', b * BlockSize) = 0
    BY <1>1, <1>2 DEF CopiedAt
<1>6. b * BlockSize \in Nat
    BY <1>1, <1>2
<1>7. FileBase'
    <2>1. /\ entries' \in Entries /\ size' \in 0..MaxSize /\ pos' \in 0..size'
          /\ target_pos' \in Nat /\ target_pos' = (target_pos' \div BlockSize) * BlockSize
        BY <1>2, <1>3, <1>6 DEF FileInv, FileBase
    <2>2. calls' \in Seq(Call(entries')) /\ copied' \in Seq(Nat) /\ Len(copied') = 0
        BY <1>3
    <2>3. phase' \in {"reading", "wild"} /\ (phase' = "reading" => pos + count' <= size)
        <3>1. count' \in Int
            BY <1>1, <1>4
        <3> QED
            BY <1>1, <1>3, <3>1
    <2>4. pos' < target_pos' + BlockSize /\ Progress(target_pos)' = 0
        BY <1>2, <1>3, <1>5 DEF Progress
    <2> QED
        BY <1>3, <1>4, <2>1, <2>2, <2>3, <2>4 DEF FileBase
<1>8. FileOrder'
    <2> SUFFICES ASSUME InOrder(pos \div BlockSize)'
                 PROVE  /\ \A k \in 1..Len(copied') : copied'[k] = pos' + k - 1
                        /\ Chained(entries', calls') /\ Comes'
        BY <1>3 DEF FileOrder
    <2>1. \A k \in 1..Len(copied') : copied'[k] = pos' + k - 1
        BY <1>3
    <2>2. Chained(entries', calls')
        BY <1>3 DEF Chained
    <2>3. b \in Starts(entries)
        <3>1. InOrder(b)
            BY <1>3 DEF InOrder, b
        <3> QED
            BY <3>1 DEF InOrder, Starts
    <2>4. Comes'
        BY <1>2, <1>3, <2>3 DEF Comes
    <2> QED
        BY <2>1, <2>2, <2>4
<1>9. InodeExact'
    BY <1>3 DEF InodeExact
<1> QED
    BY <1>7, <1>8, <1>9 DEF FileInv

LEMMA DescendStep == ASSUME FileInv, Descend PROVE FileInv'
<1> DEFINE t == target_pos \div BlockSize
           place == PlaceFor(t)
<1>1. /\ FileBase /\ phase = "reading" /\ calls = << >> /\ Wanted
      /\ calls' = IF place = NoPlace THEN << >> ELSE <<[block |-> IBlock(place), i |-> 0]>>
      /\ entries' = entries /\ size' = size /\ pos' = pos /\ phase' = phase /\ count' = count
      /\ target_pos' = target_pos /\ copied' = copied /\ inode' = inode
    BY DEF FileInv, Descend
<1>2. t \in Nat /\ entries \in Entries /\ entries \in Nat
    BY <1>1, FileTypes DEF FileBase
<1>3. place # NoPlace => IBlock(place) \in (0..3) \X Nat
    BY <1>2, PlaceType
<1> HIDE DEF place, t
<1>4. calls' \in Seq(Call(entries)) /\ Len(calls') <= 1
    <2>1. CASE place = NoPlace
        BY <1>1, <2>1
    <2>2. CASE place # NoPlace
        <3> DEFINE c == [block |-> IBlock(place), i |-> 0]
        <3>1. c \in Call(entries)
            BY <1>2, <1>3, <2>2 DEF Call
        <3>2. calls' = <<c>>
            BY <1>1, <2>2
        <3> HIDE DEF c
        <3> QED
            BY <3>1, <3>2
    <2> QED
        BY <2>1, <2>2
<1>5. Wanted' /\ Progress(target_pos)' = Progress(target_pos)
    BY <1>1 DEF Wanted, Progress
<1>6. FileBase'
    <2>1. \A j \in 2..Len(calls') : Level(calls'[j]) # 0
        BY <1>4
    <2> QED
        BY <1>1, <1>4, <1>5, <2>1 DEF FileBase
<1>7. FileOrder'
    <2> SUFFICES ASSUME InOrder(pos \div BlockSize)'
                 PROVE  /\ \A k \in 1..Len(copied) : copied[k] = pos + k - 1
                        /\ Chained(entries, calls') /\ Comes'
        BY <1>1 DEF FileOrder
    <2>1. InOrder(pos \div BlockSize)
        BY <1>1 DEF InOrder
    <2>2. /\ \A k \in 1..Len(copied) : copied[k] = pos + k - 1
          /\ t \in Starts(entries)
        BY <1>1, <2>1 DEF FileInv, FileOrder, Comes, t
    <2>3. t < Upper3
        BY <1>1, WantedInFile DEF t
    <2> DEFINE c == [block |-> IBlock(place), i |-> 0]
    <2>4. place # NoPlace /\ NextOf(entries, c) = t /\ EndOf(entries, c) \in Starts(entries)
        BY <1>2, <2>2, <2>3, PlaceOfStart DEF place
    <2>5. calls' = <<c>> /\ calls' # << >> /\ calls'[1] = c /\ Len(calls') = 1
        BY <1>1, <2>4
    <2> HIDE DEF c
    <2>6. Chained(entries, calls')
        BY <2>4, <2>5 DEF Chained
    <2>7. Comes'
        BY <1>1, <2>4, <2>5 DEF Comes, t
    <2> QED
        BY <2>2, <2>6, <2>7
<1>8. InodeExact'
    BY <1>1 DEF InodeExact, FileInv
<1> QED
    BY <1>6, <1>7, <1>8 DEF FileInv

LEMMA LeafStep == ASSUME FileInv, Leaf PROVE FileInv'
<1> DEFINE t == target_pos \div BlockSize
           block == Head(calls).block
<1>1. /\ FileBase /\ calls # << >> /\ block[1] = 0
      /\ copied' = copied \o Copied(block) /\ target_pos' = target_pos + BlockSize
      /\ calls' = Tail(calls)
      /\ entries' = entries /\ size' = size /\ pos' = pos /\ phase' = phase /\ count' = count
      /\ inode' = inode
    BY DEF FileInv, Leaf, Behind
<1>2. /\ pos \in Nat /\ count \in Nat /\ entries \in Nat /\ target_pos \in Nat
      /\ BlockSize \in Nat \ {0} /\ t \in Nat
      /\ calls[1] \in Call(entries) /\ Head(calls) = calls[1]
    BY <1>1, FileTypes
<1>3. phase = "reading" /\ Wanted
    BY <1>1, <1>2 DEF FileBase, Level
<1>4. block \in {0} \X Nat
    BY <1>1, <1>2, CallFields
<1>5. /\ Copied(block) \in Seq(Nat)
      /\ Len(copied) + Len(Copied(block)) = Progress(target_pos + BlockSize)
      /\ target_pos = block[2] * BlockSize =>
            \A k \in 1..Len(Copied(block)) : Copied(block)[k] = pos + Len(copied) + k - 1
    BY <1>1, <1>3, <1>4, CopyFacts
<1>6. /\ (target_pos + BlockSize) \div BlockSize = t + 1
      /\ target_pos + BlockSize = ((target_pos + BlockSize) \div BlockSize) * BlockSize
      /\ target_pos = t * BlockSize
    BY <1>1, NextBlock DEF FileBase
<1> HIDE DEF t, block
<1>7. /\ copied \in Seq(Nat) /\ calls \in Seq(Call(entries))
      /\ pos < target_pos + BlockSize /\ pos + count <= size /\ entries \in Entries
      /\ size \in 0..MaxSize /\ pos \in 0..size /\ count \in 0..(Word - 1)
    BY <1>1, <1>3 DEF FileBase
<1>8. /\ copied' \in Seq(Nat) /\ Len(copied') = Len(copied) + Len(Copied(block))
      /\ \A k \in 1..Len(copied) : copied'[k] = copied[k]
      /\ \A k \in 1..Len(Copied(block)) : copied'[Len(copied) + k] = Copied(block)[k]
    BY <1>1, <1>5, <1>7
<1>9. calls' \in Seq(Call(entries)) /\ \A j \in 1..Len(calls') : Level(calls'[j]) # 0
    <2>1. /\ calls' \in Seq(Call(entries)) /\ Len(calls') = Len(calls) - 1
          /\ \A j \in 1..Len(calls') : calls'[j] = calls[j + 1]
        BY <1>1, <1>7
    <2>2. Len(calls) \in Nat
        BY <1>7
    <2>3. ASSUME NEW j \in 1..Len(calls') PROVE Level(calls'[j]) # 0
        <3>1. j + 1 \in 2..Len(calls)
            BY <2>1, <2>2
        <3> QED
            BY <1>1, <2>1, <3>1 DEF FileBase
    <2> QED
        BY <2>1, <2>3
<1>10. FileBase'
    <2>1. Len(copied') = Progress(target_pos)'
        BY <1>1, <1>5, <1>8 DEF Progress
    <2>2. pos' < target_pos' + BlockSize /\ target_pos' \in Nat
        BY <1>1, <1>2, <1>7
    <2>3. /\ calls' # << >> => Level(calls'[1]) # 0
          /\ \A j \in 2..Len(calls') : Level(calls'[j]) # 0
        <3>1. Len(calls') \in Nat /\ (calls' # << >> => Len(calls') > 0)
            BY <1>9
        <3> QED
            BY <1>9, <3>1
    <2> QED
        BY <1>1, <1>3, <1>6, <1>7, <1>8, <1>9, <2>1, <2>2, <2>3 DEF FileBase
<1>11. FileOrder'
    <2> SUFFICES ASSUME InOrder(pos \div BlockSize)'
                 PROVE  /\ \A k \in 1..Len(copied') : copied'[k] = pos + k - 1
                        /\ Chained(entries, calls') /\ Comes'
        BY <1>1 DEF FileOrder
    <2>1. InOrder(pos \div BlockSize)
        BY <1>1 DEF InOrder
    <2>2. /\ \A k \in 1..Len(copied) : copied[k] = pos + k - 1
          /\ Chained(entries, calls) /\ NextOf(entries, calls[1]) = t
        BY <1>1, <1>3, <2>1 DEF FileInv, FileOrder, Comes, t
    <2>3. block[2] = t /\ EndOf(entries, calls[1]) = t + 1
        <3>1. Level(calls[1]) = 0 /\ block = calls[1].block
            BY <1>1, <1>2 DEF Level, block
        <3>2. block[2] = t
            BY <2>2, <3>1 DEF NextOf
        <3> QED
            BY <3>1, <3>2 DEF EndOf, Span
    <2>4. ASSUME NEW k \in 1..Len(copied') PROVE copied'[k] = pos + k - 1
        <3> DEFINE x == Len(copied)
                   y == Len(Copied(block))
        <3>1. x \in Nat /\ y \in Nat /\ Len(copied') = x + y
            <4>1. Len(copied) \in Nat
                BY <1>7
            <4>2. Len(Copied(block)) \in Nat
                BY <1>5
            <4> QED
                BY <1>8, <4>1, <4>2
        <3>2. CASE k <= x
            <4>1. k \in 1..x
                BY <3>1, <3>2
            <4> QED
                BY <1>8, <2>2, <4>1
        <3>3. CASE ~(k <= x)
            <4> HIDE DEF x, y
            <4>1. k - x \in 1..y /\ x + (k - x) = k
                BY <3>1, <3>3
            <4>2. copied'[x + (k - x)] = Copied(block)[k - x]
                BY <1>8, <4>1 DEF x, y
            <4>3. Copied(block)[k - x] = pos + x + (k - x) - 1
                BY <1>5, <1>6, <2>3, <4>1 DEF x, y
            <4> QED
                BY <1>2, <3>1, <4>1, <4>2, <4>3
        <3> QED
            BY <3>2, <3>3
    <2>5. /\ Chained(entries, calls')
          /\ calls' # << >> => NextOf(entries, calls'[1]) = t + 1
          /\ calls' = << >> => t + 1 \in Starts(entries)
        BY <1>1, <1>2, <1>7, <2>2, <2>3, ChainPop
    <2>6. Comes'
        BY <1>1, <1>6, <2>5 DEF Comes
    <2> QED
        BY <2>4, <2>5, <2>6
<1>12. InodeExact'
    BY <1>1 DEF InodeExact, FileInv
<1> QED
    BY <1>10, <1>11, <1>12 DEF FileInv

LEMMA IndexStep == ASSUME FileInv, Index PROVE FileInv'
<1> DEFINE t == target_pos \div BlockSize
           c == calls[1]
           l == Level(c) - 1
           d == [block |-> <<l, c.block[2] + c.i * Span(entries, l)>>, i |-> 0]
           down == Wanted /\ c.i < entries
<1>1. /\ FileBase /\ calls # << >> /\ Head(calls).block[1] > 0
      /\ entries' = entries /\ size' = size /\ pos' = pos /\ phase' = phase /\ count' = count
      /\ target_pos' = target_pos /\ copied' = copied /\ inode' = inode
    BY DEF FileInv, Index
<1>2. /\ entries \in Nat /\ t \in Nat /\ c \in Call(entries) /\ Head(calls) = c
      /\ calls \in Seq(Call(entries)) /\ phase = "reading"
    BY <1>1, FileTypes DEF FileBase
<1>3. Level(c) > 0 /\ Level(c) \in 0..3 /\ c.block[2] \in Nat /\ c.i \in 0..entries
    BY <1>1, <1>2, CallFields DEF Level
<1>4. Entry(c.block, c.i) = <<l, c.block[2] + c.i * Span(entries, l)>>
    <2>1. Covered(l) = Span(entries, l)
        <3>1. l = 0 \/ l = 1 \/ l = 2
            BY <1>3
        <3> HIDE DEF l
        <3> QED
            BY <3>1 DEF Covered, Span
    <2> QED
        BY <2>1 DEF Entry, Level
<1>5. calls' = IF down THEN <<d, [c EXCEPT !.i = @ + 1]>> \o Tail(calls) ELSE Tail(calls)
    BY <1>2, <1>4, Zenon DEF Index
<1>6. Wanted' = Wanted /\ Progress(target_pos)' = Progress(target_pos)
    BY <1>1 DEF Wanted, Progress
<1>7. CASE down
    <2> DEFINE c2 == [c EXCEPT !.i = @ + 1]
    <2>1. calls' = <<d, c2>> \o Tail(calls)
        BY <1>5, <1>7
    <2>2. /\ l \in 0..3 /\ c.i * Span(entries, l) \in Nat /\ c.i + 1 \in 0..entries
        <3>1. l \in 0..3
            BY <1>3
        <3>2. Span(entries, l) \in Nat
            <4> HIDE DEF l
            <4> QED
                BY <1>2, <3>1, SpanFacts
        <3>3. c.i * Span(entries, l) \in Nat
            <4> HIDE DEF l, c
            <4> QED
                BY <1>2, <1>3, <3>2
        <3> QED
            BY <1>2, <1>3, <1>7, <3>1, <3>3
    <2>3. d \in Call(entries)
        <3> DEFINE k == c.block[2] + c.i * Span(entries, l)
        <3>1. k \in Nat /\ 0 \in 0..entries
            <4> DEFINE p == c.i * Span(entries, l)
                       q == c.block[2]
            <4>1. p \in Nat /\ q \in Nat /\ k = q + p
                BY <1>3, <2>2, Zenon
            <4> HIDE DEF k, p, q
            <4> QED
                BY <1>2, <4>1
        <3> HIDE DEF k, l
        <3> QED
            BY <2>2, <3>1 DEF Call, k
    <2>4. c2 \in Call(entries) /\ Level(c2) # 0
        <3>1. c = [block |-> c.block, i |-> c.i] /\ c.block \in (0..3) \X Nat
            BY <1>2, CallFields
        <3> HIDE DEF c
        <3>2. c2 = [block |-> c.block, i |-> c.i + 1]
            BY <3>1
        <3> QED
            BY <1>3, <2>2, <3>1, <3>2 DEF Call, Level
    <2> HIDE DEF d, c2
    <2>5. /\ calls' \in Seq(Call(entries)) /\ calls' # << >> /\ calls'[1] = d
          /\ \A j \in 2..Len(calls') : Level(calls'[j]) # 0
        <3>1. /\ Tail(calls) \in Seq(Call(entries)) /\ Len(Tail(calls)) = Len(calls) - 1
              /\ Len(calls) \in Nat /\ Len(calls) > 0
              /\ \A j \in 1..(Len(calls) - 1) : Tail(calls)[j] = calls[j + 1]
            BY <1>1, <1>2
        <3>2. <<d, c2>> \in Seq(Call(entries)) /\ Len(<<d, c2>>) = 2
            BY <2>3, <2>4
        <3>3. /\ calls' \in Seq(Call(entries)) /\ Len(calls') = Len(calls) + 1
              /\ calls'[1] = d /\ calls'[2] = c2
            BY <2>1, <3>1, <3>2
        <3>4. ASSUME NEW j \in 2..Len(calls') PROVE Level(calls'[j]) # 0
            <4>1. CASE j = 2
                BY <2>4, <3>3, <4>1
            <4>2. CASE j # 2
                <5>1. j - 2 \in 1..(Len(calls) - 1) /\ (j - 2) + 1 = j - 1 /\ j - 1 \in 2..Len(calls)
                    BY <3>1, <3>3, <4>2
                <5>2. calls'[j] = Tail(calls)[j - 2]
                    BY <2>1, <3>1, <3>2, <5>1
                <5>3. calls'[j] = calls[j - 1]
                    BY <3>1, <5>1, <5>2
                <5> QED
                    BY <1>1, <5>1, <5>3 DEF FileBase
            <4> QED
                BY <4>1, <4>2
        <3>5. calls' # << >>
            BY <3>1, <3>3
        <3> QED
            BY <3>3, <3>4, <3>5
    <2>6. FileBase'
        BY <1>1, <1>2, <1>6, <1>7, <2>5 DEF FileBase
    <2>7. FileOrder'
        <3> SUFFICES ASSUME InOrder(pos \div BlockSize)'
                     PROVE  /\ \A k \in 1..Len(copied) : copied[k] = pos + k - 1
                            /\ Chained(entries, calls') /\ Comes'
            BY <1>1 DEF FileOrder
        <3>1. InOrder(pos \div BlockSize)
            BY <1>1 DEF InOrder
        <3>2. /\ \A k \in 1..Len(copied) : copied[k] = pos + k - 1
              /\ Chained(entries, calls) /\ NextOf(entries, c) = t
            BY <1>1, <1>2, <1>7, <3>1 DEF FileInv, FileOrder, Comes
        <3>3. Chained(entries, calls') /\ NextOf(entries, d) = NextOf(entries, c)
            <4>1. Level(calls[1]) # 0 /\ calls[1].i < entries
                BY <1>3, <1>7
            <4> QED
                BY <1>1, <1>2, <2>1, <3>2, <4>1, ChainPush, Zenon DEF d, c2
        <3>4. Comes'
            BY <1>1, <2>5, <3>2, <3>3 DEF Comes
        <3> QED
            BY <3>2, <3>3, <3>4
    <2>8. InodeExact'
        BY <1>1 DEF InodeExact, FileInv
    <2> QED
        BY <2>6, <2>7, <2>8 DEF FileInv
<1>8. CASE ~down
    <2>1. calls' = Tail(calls)
        BY <1>5, <1>8
    <2>2. calls' \in Seq(Call(entries)) /\ \A j \in 1..Len(calls') : Level(calls'[j]) # 0
        <3>1. /\ calls' \in Seq(Call(entries)) /\ Len(calls') = Len(calls) - 1
              /\ \A j \in 1..Len(calls') : calls'[j] = calls[j + 1]
            BY <1>1, <1>2, <2>1
        <3>2. Len(calls) \in Nat
            BY <1>2
        <3>3. ASSUME NEW j \in 1..Len(calls') PROVE Level(calls'[j]) # 0
            <4>1. j + 1 \in 2..Len(calls)
                BY <3>1, <3>2
            <4> QED
                BY <1>1, <3>1, <4>1 DEF FileBase
        <3> QED
            BY <3>1, <3>3
    <2>3. /\ calls' # << >> => Level(calls'[1]) # 0
          /\ \A j \in 2..Len(calls') : Level(calls'[j]) # 0
        <3>1. Len(calls') \in Nat /\ (calls' # << >> => Len(calls') > 0)
            BY <2>2
        <3> QED
            BY <2>2, <3>1
    <2>4. FileBase'
        BY <1>1, <1>2, <1>6, <2>2, <2>3 DEF FileBase
    <2>5. FileOrder'
        <3> SUFFICES ASSUME InOrder(pos \div BlockSize)'
                     PROVE  /\ \A k \in 1..Len(copied) : copied[k] = pos + k - 1
                            /\ Chained(entries, calls') /\ (Wanted => Comes')
            BY <1>1, <1>6 DEF FileOrder
        <3>1. InOrder(pos \div BlockSize)
            BY <1>1 DEF InOrder
        <3>2. /\ \A k \in 1..Len(copied) : copied[k] = pos + k - 1
              /\ Chained(entries, calls) /\ (Wanted => NextOf(entries, c) = t)
            BY <1>1, <1>2, <3>1 DEF FileInv, FileOrder, Comes
        <3>3. /\ Chained(entries, calls')
              /\ calls' # << >> => NextOf(entries, calls'[1]) = EndOf(entries, c)
              /\ calls' = << >> => EndOf(entries, c) \in Starts(entries)
            BY <1>1, <1>2, <2>1, <3>2, ChainPop
        <3>4. ASSUME Wanted PROVE EndOf(entries, c) = t
            <4>1. c.i = entries
                BY <1>2, <1>3, <1>8, <3>4
            <4>2. entries * Span(entries, l) = Span(entries, Level(c))
                <5>1. Level(c) \in 0..3 /\ Level(c) # 0
                    BY <1>3
                <5> QED
                    BY <1>2, <5>1, SpanFacts
            <4>3. NextOf(entries, c) = c.block[2] + entries * Span(entries, l)
                BY <1>3, <4>1 DEF NextOf
            <4> QED
                BY <3>2, <3>4, <4>2, <4>3 DEF EndOf
        <3>5. Wanted => Comes'
            BY <1>1, <3>3, <3>4 DEF Comes
        <3> QED
            BY <3>2, <3>3, <3>5
    <2>6. InodeExact'
        BY <1>1 DEF InodeExact, FileInv
    <2> QED
        BY <2>4, <2>5, <2>6 DEF FileInv
<1> QED
    BY <1>7, <1>8

LEMMA EndStep == ASSUME FileInv, ReadEnd PROVE FileInv'
<1>1. /\ FileBase /\ phase = "reading" /\ calls = << >> /\ ~Wanted /\ phase' = "done"
      /\ entries' = entries /\ size' = size /\ pos' = pos /\ count' = count
      /\ target_pos' = target_pos /\ calls' = calls /\ copied' = copied /\ inode' = inode
    BY DEF FileInv, ReadEnd
<1>2. Wanted' = Wanted /\ Progress(target_pos)' = Progress(target_pos)
    BY <1>1 DEF Wanted, Progress
<1>3. FileBase'
    BY <1>1, <1>2 DEF FileBase
<1>4. FileOrder'
    <2>1. InOrder(pos \div BlockSize)' <=> InOrder(pos \div BlockSize)
        BY <1>1 DEF InOrder
    <2> QED
        BY <1>1, <2>1 DEF FileInv, FileOrder
<1>5. InodeExact'
    BY <1>1 DEF InodeExact, FileInv
<1> QED
    BY <1>3, <1>4, <1>5 DEF FileInv

LEMMA ReturnStep == ASSUME FileInv, Return PROVE FileInv'
<1>1. /\ FileBase /\ phase = "done" /\ pos' = pos + count /\ phase' = "idle" /\ count' = 0
      /\ target_pos' = 0 /\ copied' = << >>
      /\ calls' = calls /\ entries' = entries /\ size' = size /\ inode' = inode
    BY DEF FileInv, Return
<1>2. pos \in Nat /\ count \in Nat /\ size \in Nat /\ BlockSize \in Nat \ {0} /\ Word \in Nat \ {0}
    BY <1>1, FileTypes
<1>3. pos' \in 0..size /\ count' \in 0..(Word - 1)
    BY <1>1, <1>2 DEF FileBase
<1>4. 0 = (0 \div BlockSize) * BlockSize
    <2>1. 0 * BlockSize = 0 /\ (0 * BlockSize) \div BlockSize = 0
        BY <1>2, PlaceOf
    <2> QED
        BY <2>1
<1>5. FileBase'
    <2>1. calls = << >> /\ calls' = << >>
        BY <1>1 DEF FileBase
    <2> QED
        BY <1>1, <1>3, <1>4, <2>1 DEF FileBase
<1>6. FileOrder'
    BY <1>1 DEF FileOrder
<1>7. InodeExact'
    BY <1>1 DEF InodeExact, FileInv
<1> QED
    BY <1>5, <1>6, <1>7 DEF FileInv

\* The two divisions of ext2_fs_inode_get cancel where the sizes fit.
LEMMA InodeIsExact ==
    ASSUME NEW sb \in Super, NEW ino \in 1..MaxIno, sb.inode_size = 128
    PROVE  LET group == (ino - 1) \div sb.inodes_per_group
           IN  /\ InodeAt(sb, ino) = (ino - 1 - group * sb.inodes_per_group) * 128
               /\ GroupDescAt(sb, group) = (sb.first_data_block + 1) * sb.blocksize + group * 32
<1> DEFINE per == sb.inodes_per_group
           b == sb.blocksize
           f == sb.first_data_block
           group == (ino - 1) \div per
           rel == (ino - 1) % per
<1>1. /\ per \in Nat \ {0} /\ b \in Nat \ {0} /\ f \in Nat /\ b % 128 = 0
    <2>1. sb \in SuperBlock
        BY Ext2Assumption
    <2> QED
        BY <2>1 DEF SuperBlock
<1>2. ino - 1 \in Nat
    BY Ext2Assumption
<1>3. group \in Nat /\ rel = ino - 1 - group * per /\ rel \in Nat
    <2>1. group \in Nat /\ group * per <= ino - 1 /\ rel = (ino - 1) - group * per
        <3> DEFINE a == ino - 1
        <3>1. a \in Nat
            BY <1>2
        <3> HIDE DEF a, per
        <3>2. per \in Nat \ {0}
            BY <1>1
        <3>3. a \div per \in Nat /\ (a \div per) * per <= a
            BY <3>1, <3>2, DivFacts
        <3>4. a % per = a - (a \div per) * per
            BY <3>1, <3>2, ModFacts
        <3> QED
            BY <3>3, <3>4 DEF a
    <2>2. group * per \in Nat
        BY <1>1, <2>1
    <2> HIDE DEF group, rel, per
    <2> QED
        BY <1>2, <2>1, <2>2
<1>4. b % 32 = 0
    <2>1. b \div 128 \in Nat /\ b = (b \div 128) * 128
        BY <1>1
    <2> QED
        BY <2>1
<1>5. InodeAt(sb, ino) = (rel \div (b \div 128)) * b + (rel % (b \div 128)) * 128
    BY DEF InodeAt, Relative
<1>6. GroupDescAt(sb, group) = (f + 1 + group \div (b \div 32)) * b + (group % (b \div 32)) * 32
    BY DEF GroupDescAt
<1> HIDE DEF per, b, f, group, rel
<1>7. InodeAt(sb, ino) = rel * 128
    <2>1. 128 \in Nat \ {0}
        OBVIOUS
    <2>2. (rel \div (b \div 128)) * b + (rel % (b \div 128)) * 128 = rel * 128
        <3> DEFINE c == 128
        <3>1. rel \in Nat /\ b \in Nat \ {0} /\ c \in Nat \ {0} /\ b % c = 0
            BY <1>1, <1>3
        <3> HIDE DEF c
        <3>2. InPlace(rel, b, c)
            BY <3>1, InPieces
        <3> QED
            BY <3>2, Zenon DEF InPlace, c
    <2> QED
        BY <1>5, <2>2, Zenon
<1>8. GroupDescAt(sb, group) = (f + 1) * b + group * 32
    <2> DEFINE n == b \div 32
               q == group \div n
               r == group % n
    <2>1. n \in Nat \ {0} /\ q * b + r * 32 = group * 32
        <3> DEFINE c == 32
        <3>1. group \in Nat /\ b \in Nat \ {0} /\ c \in Nat \ {0} /\ b % c = 0
            BY <1>1, <1>3, <1>4
        <3> HIDE DEF c, n, q, r
        <3>2. InPlace(group, b, c)
            BY <3>1, InPieces
        <3> QED
            BY <3>2, Zenon DEF InPlace, c, n, q, r
    <2>2. q \in Nat /\ r \in Int
        BY <1>3, <2>1, DivFacts
    <2> HIDE DEF n, q, r
    <2>3. (f + 1 + q) * b = (f + 1) * b + q * b
        BY <1>1, <2>2
    <2>4. GroupDescAt(sb, group) = (f + 1 + q) * b + r * 32
        BY <1>6 DEF n, q, r
    <2>5. (f + 1) * b \in Nat /\ q * b \in Nat
        BY <1>1, <2>2
    <2> QED
        BY <2>1, <2>2, <2>3, <2>4, <2>5
<1> QED
    BY <1>3, <1>7, <1>8 DEF per, b, f, group

LEMMA InodeStep == ASSUME FileInv, InodeGet PROVE FileInv'
<1>1. /\ FileBase /\ phase = "idle" /\ UNCHANGED <<entries, size, pos, read>>
    BY DEF FileInv, InodeGet
<1>2. /\ entries' = entries /\ size' = size /\ pos' = pos /\ phase' = phase /\ count' = count
      /\ target_pos' = target_pos /\ calls' = calls /\ copied' = copied
    BY <1>1 DEF read
<1>3. FileBase'
    BY <1>1, <1>2 DEF FileBase, Wanted, Progress
<1>4. FileOrder'
    BY <1>1, <1>2 DEF FileOrder
<1>5. PICK sb \in Super, ino \in 1..MaxIno :
        inode' = [sb |-> sb, ino |-> ino,
                  desc |-> GroupDescAt(sb, (ino - 1) \div sb.inodes_per_group),
                  byte |-> InodeAt(sb, ino)]
    BY Zenon DEF InodeGet
<1>6. /\ inode'.sb = sb /\ inode'.ino = ino /\ inode'.byte = InodeAt(sb, ino)
      /\ inode'.desc = GroupDescAt(sb, (ino - 1) \div sb.inodes_per_group)
    BY <1>5
<1>7. InodeExact'
    <2> SUFFICES ASSUME sb.inode_size = 128
                 PROVE  LET group == (ino - 1) \div sb.inodes_per_group
                        IN  /\ inode'.byte = (ino - 1 - group * sb.inodes_per_group) * 128
                            /\ inode'.desc = (sb.first_data_block + 1) * sb.blocksize + group * 32
        BY <1>6, Zenon DEF InodeExact
    <2> QED
        BY <1>6, InodeIsExact, Zenon
<1> QED
    BY <1>3, <1>4, <1>7 DEF FileInv

LEMMA FileInitial == FileInit => FileInv
<1> SUFFICES ASSUME FileInit PROVE FileInv
    OBVIOUS
<1>1. /\ entries \in Entries /\ size \in 0..MaxSize /\ pos = 0 /\ phase = "idle" /\ count = 0
      /\ target_pos = 0 /\ calls = << >> /\ copied = << >> /\ inode = << >>
    BY DEF FileInit
<1>2. BlockSize \in Nat \ {0} /\ Word - 1 \in Nat /\ MaxSize \in Nat
    BY Ext2Assumption
<1>3. 0 = (0 \div BlockSize) * BlockSize
    <2>1. 0 * BlockSize = 0 /\ (0 * BlockSize) \div BlockSize = 0
        BY <1>2, PlaceOf
    <2> QED
        BY <2>1
<1>4. FileBase
    BY <1>1, <1>2, <1>3 DEF FileBase
<1>5. FileOrder /\ InodeExact
    BY <1>1 DEF FileOrder, InodeExact
<1> QED
    BY <1>4, <1>5 DEF FileInv

LEMMA FileStep == FileInv /\ [FileNext]_fileVars => FileInv'
<1> SUFFICES ASSUME FileInv, [FileNext]_fileVars PROVE FileInv'
    OBVIOUS
<1>1. CASE \E n \in Counts : ReadStart(n)
    BY <1>1, StartStep
<1>2. CASE Loop
    BY <1>2, DescendStep, LeafStep, IndexStep, EndStep DEF Loop
<1>3. CASE Return
    BY <1>3, ReturnStep
<1>4. CASE InodeGet
    BY <1>4, InodeStep
<1>5. CASE UNCHANGED fileVars
    <2>1. /\ entries' = entries /\ size' = size /\ pos' = pos /\ phase' = phase /\ count' = count
          /\ target_pos' = target_pos /\ calls' = calls /\ copied' = copied /\ inode' = inode
        BY <1>5 DEF fileVars
    <2>2. FileBase'
        BY <2>1 DEF FileInv, FileBase, Wanted, Progress
    <2>3. FileOrder'
        <3>1. InOrder(pos \div BlockSize)' <=> InOrder(pos \div BlockSize)
            BY <2>1 DEF InOrder
        <3>2. (Wanted' <=> Wanted) /\ (Comes' <=> Comes)
            BY <2>1 DEF Wanted, Comes
        <3> QED
            BY <2>1, <3>1, <3>2 DEF FileInv, FileOrder
    <2>4. InodeExact'
        BY <2>1 DEF FileInv, InodeExact
    <2> QED
        BY <2>2, <2>3, <2>4 DEF FileInv
<1> QED
    BY <1>1, <1>2, <1>3, <1>4, <1>5 DEF FileNext, Wild

LEMMA FileInvSound == FileInv => FilesAreRead
<1> SUFFICES ASSUME FileInv PROVE FilesAreRead
    OBVIOUS
<1>1. /\ entries \in Nat /\ size \in Nat /\ pos \in Nat /\ count \in Nat
      /\ target_pos \in Nat /\ BlockSize \in Nat \ {0}
    BY FileTypes DEF FileInv
<1>2. FileTypeOK
    <2>1. target_pos % BlockSize = 0
        <3> DEFINE t == target_pos \div BlockSize
        <3>1. t \in Nat /\ target_pos = t * BlockSize
            BY FileTypes DEF FileInv, FileBase
        <3> HIDE DEF t
        <3> QED
            BY <1>1, <3>1, TimesMod
    <2>2. \A k \in DOMAIN calls : calls[k].i \in 0..entries
        <3>1. calls \in Seq(Call(entries))
            BY DEF FileInv, FileBase
        <3>2. \A k \in DOMAIN calls : calls[k] \in Call(entries)
            BY <3>1
        <3> QED
            BY <3>2 DEF Call
    <2> QED
        BY <2>1, <2>2 DEF FileInv, FileBase, FileTypeOK
<1>3. /\ phase \in {"reading", "done"} => Len(copied) = CopiedAt(pos, count, target_pos)
      /\ phase = "done" => ~(target_pos < pos + count)
    BY DEF FileInv, FileBase, Progress, Wanted
<1>4. NeverOverruns
    BY <1>1, <1>3 DEF NeverOverruns, CopiedAt
<1>5. BytesExact
    <2> SUFFICES ASSUME phase = "done", InOrder(pos \div BlockSize)
                 PROVE  copied = [k \in 1..count |-> pos + k - 1]
        BY Zenon DEF BytesExact
    <2>1. \A k \in 1..Len(copied) : copied[k] = pos + k - 1
        BY DEF FileInv, FileOrder
    <2>2. Len(copied) = count /\ copied \in Seq(Nat)
        BY <1>4 DEF NeverOverruns, FileInv, FileBase
    <2> QED
        BY <1>1, <2>1, <2>2
<1> QED
    BY <1>2, <1>4, <1>5 DEF FilesAreRead, FileInv

\* A read never copies more than it was asked for, in the end exactly that, and
\* from wherever ext2_fs_read can start the right bytes, for every size of a
\* file and every number of entries of an index block.
THEOREM FilesReadExactly == FileSpec => []FilesAreRead
<1>1. FileInit => FileInv
    BY FileInitial
<1>2. FileInv /\ [FileNext]_fileVars => FileInv'
    BY FileStep
<1>3. FileInv => FilesAreRead
    BY FileInvSound
<1> QED
    BY <1>1, <1>2, <1>3, PTL DEF FileSpec
-----------------------------------------------------------------------------
(* The buses a scan gets to                                                *)

\* The functions that lead to other buses.
Bridges == {p \in DOMAIN machine : machine[p].class = "bridge" /\ p[3] # Funcs - 1}

LEMMA BehindIs ==
    ASSUME NEW buses
    PROVE  BehindBridges(buses) = {machine[p].secondary : p \in {q \in Bridges : q[1] \in buses}}
BY DEF BehindBridges, Bridges

LEMMA MachineFacts ==
    ASSUME machine \in Machine
    PROVE  /\ IsFiniteSet(DOMAIN machine) /\ DOMAIN machine \subseteq Place
           /\ \A p \in DOMAIN machine : /\ machine[p] \in Header
                                        /\ p[1] \in Nat /\ p[2] \in 0..(Slots - 1) /\ p[3] \in 0..(Funcs - 1)
                                        /\ p = <<p[1], p[2], p[3]>>
                                        /\ machine[p].secondary \in Nat
           /\ Slots \in Nat \ {0} /\ Funcs \in Nat \ {0, 1}
<1>1. /\ IsFiniteSet(DOMAIN machine) /\ DOMAIN machine \subseteq Place
      /\ machine \in [DOMAIN machine -> Header]
      /\ Slots \in Nat \ {0} /\ Funcs \in Nat \ {0, 1}
    BY PciScanAssumption
<1>2. ASSUME NEW p \in DOMAIN machine
      PROVE  /\ machine[p] \in Header /\ machine[p].secondary \in Nat
    BY <1>1 DEF Header
<1>3. ASSUME NEW p \in DOMAIN machine
      PROVE  /\ p[1] \in Nat /\ p[2] \in 0..(Slots - 1) /\ p[3] \in 0..(Funcs - 1)
             /\ p = <<p[1], p[2], p[3]>>
    <2>1. p \in Place
        BY <1>1
    <2> QED
        BY <2>1 DEF Place
<1> QED
    BY <1>1, <1>2, <1>3

\* What ReachedBuses is, as steps.
Onward(buses) == buses \cup BehindBridges(buses)

IsSpread(w) ==
    w = [n \in 0..Cardinality(DOMAIN machine) |-> IF n = 0 THEN HostBuses ELSE w[n - 1] \cup BehindBridges(w[n - 1])]
Spread == CHOOSE w : IsSpread(w)

LEMMA SpreadIs == Buses = Spread[Cardinality(DOMAIN machine)]
BY Zenon DEF Buses, ReachedBuses, Spread, IsSpread

Spreads(f, n) ==
    /\ f \in [0..n -> SUBSET Nat] /\ f[0] = HostBuses
    /\ \A k \in 1..n : f[k] = Onward(f[k - 1])

LEMMA SpreadFacts ==
    ASSUME machine \in Machine
    PROVE  /\ Cardinality(DOMAIN machine) \in Nat
           /\ Spreads(Spread, Cardinality(DOMAIN machine))
<1> DEFINE n == Cardinality(DOMAIN machine)
           G == [z \in (1..n) \X SUBSET Nat |-> Onward(z[2])]
           g == Spread
<1>1. n \in Nat
    BY MachineFacts, FS_CardinalityType
<1>2. HostBuses \in SUBSET Nat
    BY MachineFacts DEF HostBuses
<1>3. \A buses \in SUBSET Nat : Onward(buses) \in SUBSET Nat
    <2> TAKE buses \in SUBSET Nat
    <2>1. \A p \in Bridges : machine[p].secondary \in Nat
        BY MachineFacts DEF Bridges
    <2>2. BehindBridges(buses) \in SUBSET Nat
        BY <2>1, BehindIs
    <2> QED
        BY <2>2 DEF Onward
<1>4. /\ G \in [(1..n) \X SUBSET Nat -> SUBSET Nat]
      /\ \A k \in 1..n, buses \in SUBSET Nat : G[<<k, buses>>] = Onward(buses)
    BY <1>3
<1> HIDE DEF G, n
<1>5. PICK f : Steps(SUBSET Nat, n, HostBuses, G, f)
    BY <1>1, <1>2, <1>4, StepsExist, Zenon
<1>6. IsSpread(f)
    <2>1. /\ f \in [0..n -> SUBSET Nat] /\ f[0] = HostBuses
          /\ \A k \in 1..n : f[k] = G[<<k, f[k - 1]>>]
        BY <1>5 DEF Steps
    <2>2. ASSUME NEW k \in 0..n
          PROVE  f[k] = IF k = 0 THEN HostBuses ELSE f[k - 1] \cup BehindBridges(f[k - 1])
        <3>1. CASE k = 0
            BY <2>1, <3>1
        <3>2. CASE k # 0
            <4>1. k \in 1..n /\ k - 1 \in 0..n
                BY <1>1, <3>2
            <4>2. f[k - 1] \in SUBSET Nat
                BY <2>1, <4>1
            <4>3. f[k] = Onward(f[k - 1])
                BY <1>4, <2>1, <4>1, <4>2, Zenon
            <4> QED
                BY <3>2, <4>3, Zenon DEF Onward
        <3> QED
            BY <3>1, <3>2
    <2>3. f = [k \in 0..n |-> f[k]]
        BY <2>1
    <2> QED
        BY <2>2, <2>3, Zenon DEF IsSpread, n
<1>7. IsSpread(g)
    BY <1>6, Zenon DEF Spread
<1> HIDE DEF g
<1>8. g = [k \in 0..n |-> IF k = 0 THEN HostBuses ELSE g[k - 1] \cup BehindBridges(g[k - 1])]
    BY <1>7, Zenon DEF IsSpread, n
<1>9. /\ g = [k \in 0..n |-> g[k]]
      /\ \A k \in 0..n : g[k] = IF k = 0 THEN HostBuses ELSE g[k - 1] \cup BehindBridges(g[k - 1])
    BY <1>8
<1>10. g[0] = HostBuses
    BY <1>1, <1>9
<1>11. \A k \in 1..n : g[k] = Onward(g[k - 1])
    <2> TAKE k \in 1..n
    <2>1. k \in 0..n /\ k # 0
        BY <1>1
    <2> QED
        BY <1>9, <2>1, Zenon DEF Onward
<1>12. \A k \in 0..n : g[k] \in SUBSET Nat
    <2> DEFINE S == {k \in 0..n : g[k] \in SUBSET Nat}
    <2>1. 0 \in S
        <3>1. 0 \in 0..n
            BY <1>1
        <3>2. g[0] \in SUBSET Nat
            BY <1>2, <1>10
        <3> QED
            BY <3>1, <3>2
    <2>2. \A k \in 1..n : k - 1 \in S => k \in S
        <3> TAKE k \in 1..n
        <3> HAVE k - 1 \in S
        <3>1. k \in 0..n /\ g[k - 1] \in SUBSET Nat
            BY <1>1
        <3> QED
            BY <1>3, <1>11, <3>1
    <2>3. S \in SUBSET (0..n)
        OBVIOUS
    <2> HIDE DEF S
    <2>4. S = 0..n
        BY <1>1, <2>1, <2>2, <2>3, ThroughSteps
    <2> QED
        BY <2>4 DEF S
<1>13. g \in [0..n -> SUBSET Nat]
    BY <1>9, <1>12
<1> QED
    BY <1>1, <1>10, <1>11, <1>13, Zenon DEF Spreads, g, n

\* As many steps as there are functions get to every bus: each step but the last
\* needs a bridge that was not reached before.
LEMMA BusesClosed ==
    ASSUME machine \in Machine
    PROVE  /\ HostBuses \subseteq Buses /\ BehindBridges(Buses) \subseteq Buses
           /\ \A T \in SUBSET Nat : HostBuses \subseteq T /\ BehindBridges(T) \subseteq T => Buses \subseteq T
<1> DEFINE n == Cardinality(DOMAIN machine)
           f == Spread
           On(k) == {q \in Bridges : q[1] \in f[k]}
           Ends(k) == BehindBridges(f[k]) \subseteq f[k]
<1>1. n \in Nat /\ IsFiniteSet(DOMAIN machine)
    BY SpreadFacts, MachineFacts
<1>2. Spreads(f, n)
    BY SpreadFacts
<1>3. Buses = f[n]
    BY SpreadIs
<1> HIDE DEF f
<1>4. \A k \in 1..n : f[k] = f[k - 1] \cup BehindBridges(f[k - 1])
    BY <1>2 DEF Spreads, Onward
<1>5. \A k : On(k) \subseteq DOMAIN machine /\ IsFiniteSet(On(k)) /\ Cardinality(On(k)) \in Nat
             /\ Cardinality(On(k)) <= n
    <2> TAKE k
    <2>1. On(k) \subseteq DOMAIN machine
        BY DEF Bridges
    <2> HIDE DEF On
    <2>2. IsFiniteSet(On(k)) /\ Cardinality(On(k)) <= n
        BY <1>1, <2>1, FS_Subset
    <2> QED
        BY <2>1, <2>2, FS_CardinalityType
<1>6. \A k : BehindBridges(f[k]) = {machine[p].secondary : p \in On(k)}
    BY BehindIs
<1>7. \A k \in 0..n : Ends(k) \/ Cardinality(On(k)) >= k + 1
    <2> DEFINE S == {k \in 0..n : Ends(k) \/ Cardinality(On(k)) >= k + 1}
    <2>1. 0 \in S
        <3>1. CASE On(0) = {}
            <4>1. Ends(0)
                BY <1>6, <3>1
            <4> QED
                BY <1>1, <4>1
        <3>2. CASE On(0) # {}
            <4> HIDE DEF On
            <4>1. Cardinality(On(0)) # 0
                BY <1>5, <3>2, FS_EmptySet
            <4>2. Cardinality(On(0)) >= 0 + 1
                BY <1>5, <4>1
            <4> QED
                BY <1>1, <4>2
        <3> QED
            BY <3>1, <3>2
    <2>2. \A k \in 1..n : k - 1 \in S => k \in S
        <3> TAKE k \in 1..n
        <3> HAVE k - 1 \in S
        <3>1. k \in 0..n /\ k - 1 \in Nat /\ f[k] = f[k - 1] \cup BehindBridges(f[k - 1])
            BY <1>1, <1>4
        <3>2. CASE Ends(k - 1)
            <4>1. f[k] = f[k - 1]
                BY <3>1, <3>2
            <4>2. Ends(k)
                BY <3>2, <4>1
            <4> QED
                BY <3>1, <4>2
        <3>3. CASE ~Ends(k - 1)
            <4>1. Cardinality(On(k - 1)) >= k
                BY <3>1, <3>3
            <4>2. On(k - 1) \subseteq On(k)
                BY <3>1
            <4>3. CASE On(k) = On(k - 1)
                <5>1. BehindBridges(f[k]) = BehindBridges(f[k - 1])
                    BY <1>6, <4>3
                <5>2. Ends(k)
                    BY <3>1, <5>1
                <5> QED
                    BY <3>1, <5>2
            <4>4. CASE On(k) # On(k - 1)
                <5> HIDE DEF On
                <5>1. Cardinality(On(k)) # Cardinality(On(k - 1))
                    BY <1>5, <4>2, <4>4, FS_Subset
                <5>2. Cardinality(On(k - 1)) <= Cardinality(On(k))
                    BY <1>5, <4>2, FS_Subset
                <5>3. Cardinality(On(k)) >= k + 1
                    BY <1>5, <3>1, <4>1, <5>1, <5>2
                <5> QED
                    BY <3>1, <5>3
            <4> QED
                BY <4>3, <4>4
        <3> QED
            BY <3>2, <3>3
    <2>3. S \in SUBSET (0..n)
        OBVIOUS
    <2>4. S = 0..n
        <3> HIDE DEF S, n
        <3> QED
            BY <1>1, <2>1, <2>2, <2>3, ThroughSteps
    <2> QED
        BY <2>4
<1>8. Ends(n)
    <2> HIDE DEF On, n, Ends
    <2>1. n \in 0..n /\ ~(Cardinality(On(n)) >= n + 1)
        BY <1>1, <1>5
    <2> QED
        BY <1>7, <2>1
<1>9. ASSUME NEW T \in SUBSET Nat, HostBuses \subseteq T, BehindBridges(T) \subseteq T
      PROVE  \A k \in 0..n : f[k] \subseteq T
    <2> DEFINE S == {k \in 0..n : f[k] \subseteq T}
    <2>1. 0 \in S
        BY <1>1, <1>2, <1>9 DEF Spreads
    <2>2. \A k \in 1..n : k - 1 \in S => k \in S
        <3> TAKE k \in 1..n
        <3> HAVE k - 1 \in S
        <3>1. k \in 0..n /\ f[k - 1] \subseteq T
            BY <1>1
        <3>2. BehindBridges(f[k - 1]) \subseteq BehindBridges(T)
            BY <3>1, BehindIs
        <3> QED
            BY <1>4, <1>9, <3>1, <3>2
    <2>3. S \in SUBSET (0..n)
        OBVIOUS
    <2>4. S = 0..n
        <3> HIDE DEF S, n
        <3> QED
            BY <1>1, <2>1, <2>2, <2>3, ThroughSteps
    <2> QED
        BY <2>4
<1>10. HostBuses \subseteq f[n]
    <2> DEFINE S == {k \in 0..n : HostBuses \subseteq f[k]}
    <2>1. 0 \in S
        BY <1>1, <1>2 DEF Spreads
    <2>2. \A k \in 1..n : k - 1 \in S => k \in S
        <3> TAKE k \in 1..n
        <3> HAVE k - 1 \in S
        <3> QED
            BY <1>1, <1>4
    <2>3. S \in SUBSET (0..n)
        OBVIOUS
    <2>4. S = 0..n
        <3> HIDE DEF S, n
        <3> QED
            BY <1>1, <2>1, <2>2, <2>3, ThroughSteps
    <2>5. n \in S
        BY <1>1, <2>4
    <2> QED
        BY <2>5
<1> QED
    <2>1. n \in 0..n
        BY <1>1
    <2> QED
        BY <1>3, <1>8, <1>9, <1>10, <2>1

-----------------------------------------------------------------------------
(* The scan of the buses                                                   *)

ScanCall == [bus : Nat, device : 0..Slots, func : 0..(Funcs - 1), inner : BOOLEAN]

\* The call c is past the place p, or of another bus.
Past(p, c) == p[1] # c.bus \/ p[2] < c.device \/ (c.inner /\ p[2] = c.device /\ p[3] < c.func)

\* What has been looked at on the buses S, with calls still to go on.
Seen(S, calling) ==
    {p \in DOMAIN machine : p[1] \in S /\ p[3] # Funcs - 1 /\ \A j \in 1..Len(calling) : Past(p, calling[j])}

\* The buses pci_init has begun with, and those behind the bridges seen.
Begun(h) == IF HostMulti THEN {f \in HostBuses : f < h} ELSE {0}
Opened(P) == {machine[p].secondary : p \in {q \in P : machine[q].class = "bridge"}}

Calls(S, calling) ==
    /\ calling \in Seq(ScanCall)
    /\ \A j \in 1..Len(calling) : calling[j].bus \in S /\ (calling[j].inner => calling[j].device < Slots)
    /\ \A j, k \in 1..Len(calling) : calling[j].bus = calling[k].bus => j = k

Lists(list, P) ==
    /\ list \in Seq(P)
    /\ \A p \in P : machine[p].class = "device" => \E k \in 1..Len(list) : list[k] = p
    /\ \A k \in 1..Len(list) : machine[list[k]].class = "device"
    /\ \A j, k \in 1..Len(list) : list[j] = list[k] => j = k

\* The buses S have been begun, every one because of a host's function or of a
\* bridge that was seen, and the list has what was seen.
Begins(S) ==
    /\ machine \in Machine /\ host \in 0..Funcs /\ S \in SUBSET Nat
    /\ HostMulti /\ host < Funcs => \A g \in 0..(host - 1) : ~Absent(<<0, 0, g>>)
    /\ Calls(S, scans)
    /\ S = Begun(host) \cup Opened(Seen(S, scans))
    /\ \A T \in SUBSET Nat : HostBuses \subseteq T /\ BehindBridges(T) \subseteq T => S \subseteq T
    /\ Lists(found, Seen(S, scans))

ScanInv == \E S : Begins(S)

LEMMA BeginsFields ==
    ASSUME NEW S, Begins(S)
    PROVE  /\ machine \in Machine /\ host \in 0..Funcs /\ S \in SUBSET Nat
           /\ HostMulti /\ host < Funcs => \A g \in 0..(host - 1) : ~Absent(<<0, 0, g>>)
           /\ Calls(S, scans)
           /\ S = Begun(host) \cup Opened(Seen(S, scans))
           /\ \A T \in SUBSET Nat : HostBuses \subseteq T /\ BehindBridges(T) \subseteq T => S \subseteq T
           /\ Lists(found, Seen(S, scans))
BY Zenon DEF Begins

LEMMA SeenFacts ==
    ASSUME NEW S, NEW calling
    PROVE  /\ Seen(S, calling) \subseteq DOMAIN machine
           /\ \A p \in Seen(S, calling) : p[1] \in S /\ p[3] # Funcs - 1
BY DEF Seen

\* A call of pci_bus_scan has not looked at anything.
LEMMA NewCall ==
    ASSUME machine \in Machine, NEW S \in SUBSET Nat, NEW calling, Calls(S, calling), NEW b \in Nat, b \notin S
    PROVE  /\ Calls(S \cup {b}, Scan(b) \o calling)
           /\ Seen(S \cup {b}, Scan(b) \o calling) = Seen(S, calling)
<1> DEFINE c == [bus |-> b, device |-> 0, func |-> 0, inner |-> FALSE]
           s == Scan(b) \o calling
<1>1. c \in ScanCall /\ c.bus = b /\ c.inner = FALSE /\ c.device = 0
    BY MachineFacts DEF ScanCall
<1>2. calling \in Seq(ScanCall)
    BY DEF Calls
<1>3. /\ s \in Seq(ScanCall) /\ Len(s) = Len(calling) + 1 /\ Len(calling) \in Nat
      /\ s[1] = c /\ \A j \in 1..Len(calling) : s[j + 1] = calling[j]
    <2>1. Scan(b) = <<c>>
        BY DEF Scan
    <2> HIDE DEF c
    <2> QED
        BY <1>1, <1>2, <2>1
<1> HIDE DEF c, s
<1>4. \A j \in 1..Len(s) : j = 1 \/ (j - 1 \in 1..Len(calling) /\ s[j] = calling[j - 1])
    <2> TAKE j \in 1..Len(s)
    <2>1. j # 1 => j - 1 \in 1..Len(calling) /\ j = (j - 1) + 1
        BY <1>3
    <2> QED
        BY <1>3, <2>1
<1>5. Calls(S \cup {b}, s)
    <2>1. \A j \in 1..Len(calling) : calling[j].bus \in S /\ calling[j].bus # b
                                     /\ (calling[j].inner => calling[j].device < Slots)
        BY DEF Calls
    <2>2. \A j \in 1..Len(s) : /\ j = 1 => s[j].bus = b
                               /\ j # 1 => s[j].bus = calling[j - 1].bus /\ s[j].bus \in S /\ s[j].bus # b
                               /\ s[j].inner => s[j].device < Slots
        <3> TAKE j \in 1..Len(s)
        <3>1. CASE j = 1
            <4>1. s[j] = c
                BY <1>3, <3>1
            <4> QED
                BY <1>1, <3>1, <4>1
        <3>2. CASE j # 1
            <4>1. j - 1 \in 1..Len(calling) /\ s[j] = calling[j - 1]
                BY <1>4, <3>2
            <4> QED
                BY <2>1, <3>2, <4>1
        <3> QED
            BY <3>1, <3>2
    <2>3. ASSUME NEW j \in 1..Len(s), NEW k \in 1..Len(s), s[j].bus = s[k].bus PROVE j = k
        <3>1. CASE j = 1 \/ k = 1
            BY <2>2, <2>3, <3>1
        <3>2. CASE j # 1 /\ k # 1
            <4>1. j - 1 \in 1..Len(calling) /\ k - 1 \in 1..Len(calling)
                BY <1>4, <3>2
            <4>2. calling[j - 1].bus = calling[k - 1].bus
                BY <2>2, <2>3, <3>2
            <4>3. j - 1 = k - 1
                BY <4>1, <4>2 DEF Calls
            <4> QED
                BY <1>3, <4>3
        <3> QED
            BY <3>1, <3>2
    <2>4. \A j \in 1..Len(s) : s[j].bus \in S \cup {b}
        BY <2>2
    <2> QED
        BY <1>3, <2>2, <2>3, <2>4 DEF Calls
<1>6. \A p \in DOMAIN machine : p[1] \in Nat /\ p[2] \in Nat
    BY MachineFacts
<1>7. ASSUME NEW p \in DOMAIN machine
      PROVE  (p[1] \in S \cup {b} /\ \A j \in 1..Len(s) : Past(p, s[j]))
             <=> (p[1] \in S /\ \A j \in 1..Len(calling) : Past(p, calling[j]))
    <2>1. Past(p, c) <=> p[1] # b
        BY <1>1, <1>6 DEF Past
    <2>2. (\A j \in 1..Len(s) : Past(p, s[j])) <=> Past(p, c) /\ \A j \in 1..Len(calling) : Past(p, calling[j])
        <3>1. 1 \in 1..Len(s) /\ \A j \in 1..Len(calling) : j + 1 \in 1..Len(s)
            BY <1>3
        <3> QED
            BY <1>3, <1>4, <3>1
    <2> QED
        BY <2>1, <2>2
<1> QED
    BY <1>5, <1>7 DEF Seen, s

\* The bus behind a bridge that is seen for the first time is a new one.
LEMMA FreshBus ==
    ASSUME NEW S, Begins(S), NEW p \in DOMAIN machine, machine[p].class = "bridge", p \notin Seen(S, scans)
    PROVE  machine[p].secondary \in Nat /\ machine[p].secondary \notin S
<1> DEFINE b == machine[p].secondary
<1>1. machine \in Machine /\ S = Begun(host) \cup Opened(Seen(S, scans))
    BY BeginsFields
<1>2. b \in Nat /\ b # 0 /\ <<0, 0, b>> \notin DOMAIN machine
      /\ \A q \in DOMAIN machine : machine[q].class = "bridge" /\ machine[q].secondary = b => q = p
    BY <1>1, PciScanAssumption, MachineFacts
<1> HIDE DEF b
<1>3. b \notin Begun(host)
    <2> SUFFICES ASSUME b \in Begun(host) PROVE FALSE
        OBVIOUS
    <2>1. HostMulti /\ b \in HostBuses
        BY <1>2 DEF Begun
    <2>2. b \in 0..b
        BY <1>2
    <2>3. ~Absent(<<0, 0, b>>)
        BY <2>1, <2>2 DEF HostBuses
    <2> QED
        BY <1>2, <2>3 DEF Absent
<1>4. b \notin Opened(Seen(S, scans))
    BY <1>2, SeenFacts DEF Opened
<1> QED
    BY <1>1, <1>2, <1>3, <1>4 DEF b

\* What the next state has to satisfy, in terms of this one's machine.
LEMMA BeginsNext ==
    ASSUME machine \in Machine, machine' = machine, host' \in 0..Funcs, NEW X \in SUBSET Nat,
           HostMulti /\ host' < Funcs => \A g \in 0..(host' - 1) : ~Absent(<<0, 0, g>>),
           Calls(X, scans'),
           X = Begun(host') \cup Opened(Seen(X, scans')),
           \A T \in SUBSET Nat : HostBuses \subseteq T /\ BehindBridges(T) \subseteq T => X \subseteq T,
           Lists(found', Seen(X, scans'))
    PROVE  ScanInv'
<1>1. HostMulti' = HostMulti /\ HostBuses' = HostBuses /\ (Begun(host))' = Begun(host')
    BY DEF HostMulti, Multi, Absent, HostBuses, Begun
<1>2. \A T : BehindBridges(T)' = BehindBridges(T)
    BY DEF BehindBridges
<1>3. \A T : Opened(T)' = Opened(T)
    BY DEF Opened
<1>4. Seen(X, scans)' = Seen(X, scans')
    BY DEF Seen
<1>5. Lists(found, Seen(X, scans))' = Lists(found', Seen(X, scans'))
    BY <1>4, Zenon DEF Lists
<1>6. Opened(Seen(X, scans))' = Opened(Seen(X, scans'))
    BY <1>4 DEF Opened
<1>7. \A g : Absent(<<0, 0, g>>)' = Absent(<<0, 0, g>>)
    BY DEF Absent
<1>8. Begins(X)'
    BY <1>1, <1>2, <1>5, <1>6, <1>7, Zenon DEF Begins
<1> QED
    BY <1>8, Zenon DEF ScanInv

\* pci_check_func at a place: the call goes on as rest, past that place.
LEMMA CheckStep ==
    ASSUME NEW S, Begins(S), NEW place, place \notin Seen(S, scans), place[1] \in S, place[3] # Funcs - 1,
           NEW rest, Calls(S, rest), Seen(S, rest) = Seen(S, scans) \cup ({place} \cap DOMAIN machine),
           Check(place, rest), UNCHANGED <<machine, host>>
    PROVE  ScanInv'
<1> DEFINE P == Seen(S, scans)
           Q == Seen(S, rest)
<1>1. /\ machine \in Machine /\ host \in 0..Funcs /\ S \in SUBSET Nat
      /\ HostMulti /\ host < Funcs => \A g \in 0..(host - 1) : ~Absent(<<0, 0, g>>)
      /\ Calls(S, scans)
      /\ S = Begun(host) \cup Opened(P)
      /\ \A T \in SUBSET Nat : HostBuses \subseteq T /\ BehindBridges(T) \subseteq T => S \subseteq T
      /\ Lists(found, P)
    BY BeginsFields
<1>2. P \subseteq DOMAIN machine /\ Q \subseteq DOMAIN machine
    BY SeenFacts
<1>3. Q = P \cup ({place} \cap DOMAIN machine) /\ place \notin P
    OBVIOUS
<1>4. machine' = machine /\ host' = host
    OBVIOUS
<1> HIDE DEF P, Q
<1>5. Lists(found', Q)
    <2>1. found \in Seq(P) /\ Len(found) \in Nat
        BY <1>1 DEF Lists
    <2>2. P \subseteq Q
        BY <1>3
    <2>3. found \in Seq(Q)
        BY <2>1, <2>2
    <2>4. CASE Listed(place)
        <3>1. place \in Q /\ machine[place].class = "device" /\ found' = Append(found, place)
            BY <1>3, <2>4 DEF Listed, Absent, Check
        <3>2. /\ found' \in Seq(Q) /\ Len(found') = Len(found) + 1
              /\ found'[Len(found) + 1] = place
              /\ \A k \in 1..Len(found) : found'[k] = found[k] /\ found[k] \in P
            BY <2>1, <2>3, <3>1
        <3>3. \A k \in 1..Len(found') : k = Len(found) + 1 \/ k \in 1..Len(found)
            BY <2>1, <3>2
        <3>4. \A p \in Q : machine[p].class = "device" => \E k \in 1..Len(found') : found'[k] = p
            <4> TAKE p \in Q
            <4> HAVE machine[p].class = "device"
            <4>1. CASE p = place
                <5>1. Len(found) + 1 \in 1..Len(found')
                    BY <2>1, <3>2
                <5> QED
                    BY <3>2, <4>1, <5>1
            <4>2. CASE p # place
                <5>1. p \in P
                    BY <1>3, <4>2
                <5>2. PICK k \in 1..Len(found) : found[k] = p
                    BY <1>1, <5>1 DEF Lists
                <5>3. k \in 1..Len(found') /\ found'[k] = p
                    BY <2>1, <3>2, <5>2
                <5> QED
                    BY <5>3
            <4> QED
                BY <4>1, <4>2
        <3>5. \A k \in 1..Len(found') : machine[found'[k]].class = "device"
            BY <1>1, <3>1, <3>2, <3>3 DEF Lists
        <3>6. \A j, k \in 1..Len(found') : found'[j] = found'[k] => j = k
            BY <1>1, <1>3, <3>2, <3>3 DEF Lists
        <3> QED
            BY <3>2, <3>4, <3>5, <3>6 DEF Lists
    <2>5. CASE ~Listed(place)
        <3>1. found' = found
            BY <2>5 DEF Check
        <3>2. \A p \in Q : machine[p].class = "device" => p \in P
            BY <1>2, <1>3, <2>5 DEF Listed, Absent
        <3> QED
            BY <1>1, <2>3, <3>1, <3>2 DEF Lists
    <2> QED
        BY <2>4, <2>5
<1>6. CASE ~Absent(place) /\ machine[place].class = "bridge"
    <2> DEFINE b == machine[place].secondary
    <2>1. place \in DOMAIN machine /\ scans' = Scan(b) \o rest
        BY <1>6 DEF Absent, Check
    <2>2. b \in Nat /\ b \notin S
        BY <1>6, <2>1, FreshBus DEF P
    <2> HIDE DEF b
    <2> PICK X : X = S \cup {b}
        OBVIOUS
    <2>3. Calls(X, scans') /\ Seen(X, scans') = Q
        BY <1>1, <2>1, <2>2, NewCall DEF Q
    <2>4. Opened(Q) = Opened(P) \cup {b}
        BY <1>3, <1>6, <2>1 DEF Opened, b
    <2>5. X = Begun(host) \cup Opened(Q) /\ X \in SUBSET Nat
        BY <1>1, <2>2, <2>4
    <2>6. \A T \in SUBSET Nat : HostBuses \subseteq T /\ BehindBridges(T) \subseteq T => X \subseteq T
        <3> TAKE T \in SUBSET Nat
        <3> HAVE HostBuses \subseteq T /\ BehindBridges(T) \subseteq T
        <3>1. S \subseteq T
            BY <1>1
        <3>2. place \in Bridges /\ place[1] \in T
            BY <1>6, <2>1, <3>1 DEF Bridges
        <3>3. b \in BehindBridges(T)
            BY <3>2, BehindIs DEF b
        <3> QED
            BY <3>1, <3>3
    <2> QED
        BY <1>1, <1>4, <1>5, <2>3, <2>5, <2>6, BeginsNext
<1>7. CASE ~(~Absent(place) /\ machine[place].class = "bridge")
    <2>1. scans' = rest
        BY <1>7 DEF Check
    <2>2. Opened(Q) = Opened(P)
        BY <1>3, <1>7 DEF Opened, Absent
    <2>3. S = Begun(host) \cup Opened(Q) /\ Calls(S, scans') /\ Seen(S, scans') = Q
        BY <1>1, <2>1, <2>2 DEF Q
    <2> QED
        BY <1>1, <1>4, <1>5, <2>3, BeginsNext
<1> QED
    BY <1>6, <1>7

\* What there is to know of the innermost call.
LEMMA TopFacts ==
    ASSUME NEW S, Begins(S), scans # << >>
    PROVE  /\ scans \in Seq(ScanCall) /\ Len(scans) \in Nat \ {0} /\ Top = scans[1] /\ 1 \in 1..Len(scans)
           /\ Top \in ScanCall /\ Top.bus \in S /\ Top.bus \in Nat /\ Top.device \in 0..Slots
           /\ Top.func \in 0..(Funcs - 1) /\ Top.inner \in BOOLEAN
           /\ Top.inner => Top.device < Slots
           /\ \A j \in 1..Len(scans) : j # 1 => scans[j].bus # Top.bus
<1>1. Calls(S, scans)
    BY BeginsFields
<1>2. scans \in Seq(ScanCall)
    BY <1>1 DEF Calls
<1>3. Len(scans) \in Nat \ {0} /\ Top = scans[1] /\ 1 \in 1..Len(scans) /\ scans[1] \in ScanCall
    BY <1>2 DEF Top
<1>4. /\ Top.bus \in S /\ (Top.inner => Top.device < Slots)
      /\ \A j \in 1..Len(scans) : j # 1 => scans[j].bus # Top.bus
    BY <1>1, <1>3 DEF Calls
<1> QED
    BY <1>2, <1>3, <1>4 DEF ScanCall

\* The innermost call goes on as c, on the same bus: what has been looked at then.
LEMMA GoesOn ==
    ASSUME NEW S, Begins(S), scans # << >>, NEW c \in ScanCall, c.bus = Top.bus, c.inner => c.device < Slots,
           NEW s, s = [scans EXCEPT ![1] = c]
    PROVE  /\ Calls(S, s)
           /\ \A p \in DOMAIN machine : p[1] # Top.bus => (p \in Seen(S, s) <=> p \in Seen(S, scans))
           /\ \A p \in DOMAIN machine : p[1] = Top.bus =>
                  /\ p \in Seen(S, s) <=> p[3] # Funcs - 1 /\ Past(p, c)
                  /\ p \in Seen(S, scans) <=> p[3] # Funcs - 1 /\ Past(p, Top)
<1>1. /\ s \in Seq(ScanCall) /\ Len(s) = Len(scans) /\ s[1] = c /\ scans[1] = Top /\ 1 \in 1..Len(scans)
      /\ \A j \in 1..Len(scans) : j # 1 => s[j] = scans[j]
    BY TopFacts
<1>2. \A j \in 1..Len(s) : s[j].bus = scans[j].bus
    BY <1>1
<1>3. Calls(S, scans)
    BY BeginsFields
<1>4. Calls(S, s)
    <2>1. \A j \in 1..Len(s) : s[j].inner => s[j].device < Slots
        BY <1>1, <1>3 DEF Calls
    <2> QED
        BY <1>1, <1>2, <1>3, <2>1 DEF Calls
<1>5. ASSUME NEW p \in DOMAIN machine, p[1] # Top.bus
      PROVE  p \in Seen(S, s) <=> p \in Seen(S, scans)
    <2>1. Past(p, c) /\ Past(p, Top)
        BY <1>5 DEF Past
    <2>2. (\A j \in 1..Len(s) : Past(p, s[j])) <=> (\A j \in 1..Len(scans) : Past(p, scans[j]))
        BY <1>1, <2>1
    <2> QED
        BY <2>2 DEF Seen
<1>6. ASSUME NEW p \in DOMAIN machine, p[1] = Top.bus
      PROVE  /\ p \in Seen(S, s) <=> p[3] # Funcs - 1 /\ Past(p, c)
             /\ p \in Seen(S, scans) <=> p[3] # Funcs - 1 /\ Past(p, Top)
    <2>1. \A j \in 1..Len(scans) : j # 1 => Past(p, s[j]) /\ Past(p, scans[j])
        BY <1>1, <1>2, <1>6, TopFacts DEF Past
    <2>2. /\ (\A j \in 1..Len(s) : Past(p, s[j])) <=> Past(p, c)
          /\ (\A j \in 1..Len(scans) : Past(p, scans[j])) <=> Past(p, Top)
        BY <1>1, <2>1
    <2>3. p[1] \in S
        BY <1>6, TopFacts
    <2> QED
        BY <2>2, <2>3 DEF Seen
<1> QED
    BY <1>4, <1>5, <1>6

\* The steps in which nothing is checked.
LEMMA QuietStep ==
    ASSUME NEW S, Begins(S), UNCHANGED <<machine, host, found>>, Calls(S, scans'), Seen(S, scans') = Seen(S, scans)
    PROVE  ScanInv'
BY BeginsFields, BeginsNext

LEMMA DeviceStep ==
    ASSUME ScanInv, Device
    PROVE  ScanInv'
<1> PICK S : Begins(S)
    BY DEF ScanInv
<1>1. scans # << >> /\ ~Top.inner /\ Top.device < Slots /\ UNCHANGED <<machine, host>>
    BY DEF Device
<1>2. /\ scans \in Seq(ScanCall) /\ Len(scans) \in Nat \ {0} /\ Top = scans[1] /\ 1 \in 1..Len(scans)
      /\ Top \in ScanCall /\ Top.bus \in S /\ Top.bus \in Nat /\ Top.device \in 0..Slots
      /\ Top.func \in 0..(Funcs - 1) /\ Top.inner \in BOOLEAN
    BY <1>1, TopFacts
<1>3. machine \in Machine /\ S \in SUBSET Nat
    BY BeginsFields
<1>4. \A p \in DOMAIN machine : /\ p[1] \in Nat /\ p[2] \in 0..(Slots - 1) /\ p[3] \in 0..(Funcs - 1)
                                /\ p = <<p[1], p[2], p[3]>>
    BY <1>3, MachineFacts
<1>5. Slots \in Nat \ {0} /\ Funcs \in Nat \ {0, 1}
    BY PciScanAssumption
<1>6. CASE Multi(<<Top.bus, Top.device, Top.func>>)
    <2> PICK t \in ScanCall : t = Top
        BY <1>2
    <2> PICK c : c = [t EXCEPT !.inner = TRUE, !.func = 0]
        OBVIOUS
    <2>1. /\ c \in ScanCall /\ c.bus = Top.bus /\ c.device = Top.device /\ c.inner /\ c.func = 0
        <3> PICK u : u = [t EXCEPT !.inner = TRUE]
            OBVIOUS
        <3>1. u \in ScanCall /\ u.bus = t.bus /\ u.device = t.device /\ u.func = t.func /\ u.inner = TRUE
            BY DEF ScanCall
        <3>2. c = [u EXCEPT !.func = 0] /\ 0 \in 0..(Funcs - 1)
            BY <1>5, <3>1
        <3> PICK v : v = [u EXCEPT !.func = 0]
            OBVIOUS
        <3>3. v \in ScanCall /\ v.bus = u.bus /\ v.device = u.device /\ v.func = 0 /\ v.inner = u.inner
            BY <3>2 DEF ScanCall
        <3> QED
            BY <3>1, <3>2, <3>3, Zenon
    <2>2. scans' = [scans EXCEPT ![1] = c] /\ UNCHANGED found
        BY <1>2, <1>6 DEF Device
    <2> PICK s : s = scans'
        OBVIOUS
    <2>3. /\ Calls(S, s)
          /\ \A p \in DOMAIN machine : p[1] # Top.bus => (p \in Seen(S, s) <=> p \in Seen(S, scans))
          /\ \A p \in DOMAIN machine : p[1] = Top.bus =>
                  /\ p \in Seen(S, s) <=> p[3] # Funcs - 1 /\ Past(p, c)
                  /\ p \in Seen(S, scans) <=> p[3] # Funcs - 1 /\ Past(p, Top)
        BY <1>1, <2>1, <2>2, GoesOn
    <2>4. ASSUME NEW p \in DOMAIN machine, p[1] = Top.bus PROVE Past(p, c) <=> Past(p, Top)
        BY <1>1, <1>2, <1>4, <2>1, <2>4 DEF Past
    <2>5. \A p \in DOMAIN machine : p \in Seen(S, s) <=> p \in Seen(S, scans)
        BY <2>3, <2>4
    <2>6. Seen(S, s) = Seen(S, scans)
        BY <2>5, SeenFacts
    <2> QED
        BY <1>1, <2>2, <2>3, <2>6, QuietStep
<1>7. CASE ~Multi(<<Top.bus, Top.device, Top.func>>)
    <2> PICK t \in ScanCall : t = Top
        BY <1>2
    <2> PICK c : c = [t EXCEPT !.device = NextDevice(@)]
        OBVIOUS
    <2>1. /\ c \in ScanCall /\ c.bus = Top.bus /\ c.device = Top.device + 1 /\ ~c.inner
        <3>1. t.device + 1 \in 0..Slots
            BY <1>1, <1>2, <1>5
        <3> PICK v : v = [t EXCEPT !.device = t.device + 1]
            OBVIOUS
        <3>2. v \in ScanCall /\ v.bus = t.bus /\ v.device = t.device + 1 /\ v.func = t.func /\ v.inner = t.inner
            BY <3>1 DEF ScanCall
        <3>3. c = v
            BY <3>2 DEF NextDevice
        <3> QED
            BY <1>1, <3>2, <3>3, Zenon
    <2> PICK rest : rest = [scans EXCEPT ![1] = c]
        OBVIOUS
    <2> PICK place : place = <<Top.bus, Top.device, 0>>
        OBVIOUS
    <2>2. Check(place, rest)
        BY <1>2, <1>7 DEF Device
    <2>3. /\ Calls(S, rest)
          /\ \A p \in DOMAIN machine : p[1] # Top.bus => (p \in Seen(S, rest) <=> p \in Seen(S, scans))
          /\ \A p \in DOMAIN machine : p[1] = Top.bus =>
                  /\ p \in Seen(S, rest) <=> p[3] # Funcs - 1 /\ Past(p, c)
                  /\ p \in Seen(S, scans) <=> p[3] # Funcs - 1 /\ Past(p, Top)
        BY <1>1, <2>1, GoesOn
    <2>4. ASSUME NEW p \in DOMAIN machine, p[1] = Top.bus, p[2] = Top.device PROVE p = place
        <3>1. <<Top.bus, Top.device, Top.func>> \in DOMAIN machine
              /\ ~machine[<<Top.bus, Top.device, Top.func>>].multi
            BY <1>7 DEF Multi, Absent
        <3>2. p[3] = 0
            BY <1>3, <2>4, <3>1, PciScanAssumption
        <3> QED
            BY <1>4, <2>4, <3>2
    <2>5. place[1] = Top.bus /\ place[2] = Top.device /\ place[3] = 0 /\ 0 # Funcs - 1
        BY <1>5
    <2>6. ASSUME NEW p \in DOMAIN machine, p[1] = Top.bus
          PROVE  /\ Past(p, c) <=> Past(p, Top) \/ p = place
                 /\ p = place => ~Past(p, Top)
        <3>1. Past(p, c) <=> p[2] < Top.device \/ p[2] = Top.device
            BY <1>2, <1>4, <2>1, <2>6 DEF Past
        <3>2. Past(p, Top) <=> p[2] < Top.device
            BY <1>1, <2>6 DEF Past
        <3>3. p[2] = Top.device <=> p = place
            BY <2>4, <2>5, <2>6
        <3>4. p[2] = Top.device => ~(p[2] < Top.device)
            BY <1>2
        <3> QED
            BY <3>1, <3>2, <3>3, <3>4
    <2>7. \A p \in DOMAIN machine : p \in Seen(S, rest) <=> p \in Seen(S, scans) \/ p = place
        BY <2>3, <2>5, <2>6
    <2>8. Seen(S, rest) = Seen(S, scans) \cup ({place} \cap DOMAIN machine)
        BY <2>7, SeenFacts
    <2>9. place \notin Seen(S, scans)
        BY <2>3, <2>5, <2>6, SeenFacts
    <2> QED
        BY <1>1, <1>2, <2>2, <2>3, <2>5, <2>8, <2>9, CheckStep
<1> QED
    BY <1>6, <1>7

LEMMA FunctionStep ==
    ASSUME ScanInv, Function
    PROVE  ScanInv'
<1> PICK S : Begins(S)
    BY DEF ScanInv
<1>1. scans # << >> /\ Top.inner /\ UNCHANGED <<machine, host>>
    BY DEF Function
<1>2. /\ scans \in Seq(ScanCall) /\ Len(scans) \in Nat \ {0} /\ Top = scans[1] /\ 1 \in 1..Len(scans)
      /\ Top \in ScanCall /\ Top.bus \in S /\ Top.bus \in Nat /\ Top.device \in 0..Slots
      /\ Top.func \in 0..(Funcs - 1) /\ Top.inner \in BOOLEAN /\ Top.device < Slots
    BY <1>1, TopFacts
<1>3. machine \in Machine /\ S \in SUBSET Nat
    BY BeginsFields
<1>4. \A p \in DOMAIN machine : /\ p[1] \in Nat /\ p[2] \in 0..(Slots - 1) /\ p[3] \in 0..(Funcs - 1)
                                /\ p = <<p[1], p[2], p[3]>>
    BY <1>3, MachineFacts
<1>5. Slots \in Nat \ {0} /\ Funcs \in Nat \ {0, 1}
    BY PciScanAssumption
<1>6. CASE Top.func < LastFunc
    <2> PICK t \in ScanCall : t = Top
        BY <1>2
    <2> PICK c : c = [t EXCEPT !.func = @ + 1]
        OBVIOUS
    <2>1. /\ c \in ScanCall /\ c.bus = Top.bus /\ c.device = Top.device /\ c.inner /\ c.func = Top.func + 1
          /\ Top.func < Funcs - 1
        <3>1. t.func + 1 \in 0..(Funcs - 1) /\ Top.func < Funcs - 1
            BY <1>2, <1>5, <1>6 DEF LastFunc
        <3> PICK v : v = [t EXCEPT !.func = t.func + 1]
            OBVIOUS
        <3>2. v \in ScanCall /\ v.bus = t.bus /\ v.device = t.device /\ v.func = t.func + 1 /\ v.inner = t.inner
            BY <3>1 DEF ScanCall
        <3>3. c = v
            BY <3>2
        <3> QED
            BY <1>1, <3>1, <3>2, <3>3, Zenon
    <2> PICK rest : rest = [scans EXCEPT ![1] = c]
        OBVIOUS
    <2> PICK place : place = <<Top.bus, Top.device, Top.func>>
        OBVIOUS
    <2>2. Check(place, rest)
        BY <1>2, <1>6 DEF Function
    <2>3. /\ Calls(S, rest)
          /\ \A p \in DOMAIN machine : p[1] # Top.bus => (p \in Seen(S, rest) <=> p \in Seen(S, scans))
          /\ \A p \in DOMAIN machine : p[1] = Top.bus =>
                  /\ p \in Seen(S, rest) <=> p[3] # Funcs - 1 /\ Past(p, c)
                  /\ p \in Seen(S, scans) <=> p[3] # Funcs - 1 /\ Past(p, Top)
        <3>1. c \in ScanCall /\ c.bus = Top.bus /\ (c.inner => c.device < Slots)
            BY <1>2, <2>1
        <3> QED
            BY <1>1, <3>1, GoesOn
    <2>4. place[1] = Top.bus /\ place[2] = Top.device /\ place[3] = Top.func /\ Top.func # Funcs - 1
        BY <1>2, <1>5, <2>1
    <2>5. ASSUME NEW p \in DOMAIN machine, p[1] = Top.bus
          PROVE  /\ Past(p, c) <=> Past(p, Top) \/ p = place
                 /\ p = place => ~Past(p, Top)
        <3>1. Past(p, c) <=> p[2] < Top.device \/ (p[2] = Top.device /\ p[3] < Top.func + 1)
            BY <2>1, <2>5 DEF Past
        <3>2. Past(p, Top) <=> p[2] < Top.device \/ (p[2] = Top.device /\ p[3] < Top.func)
            BY <1>1, <2>5 DEF Past
        <3>3. p[2] = Top.device /\ p[3] = Top.func <=> p = place
            BY <1>4, <2>4, <2>5
        <3>4. p[3] < Top.func + 1 <=> p[3] < Top.func \/ p[3] = Top.func
            <4>1. p[3] \in Nat /\ Top.func \in Nat
                BY <1>2, <1>4, <1>5
            <4> QED
                BY <4>1
        <3>5. /\ p[2] = Top.device => ~(p[2] < Top.device)
              /\ p[3] = Top.func => ~(p[3] < Top.func)
            BY <1>2
        <3> QED
            BY <3>1, <3>2, <3>3, <3>4, <3>5
    <2>6. \A p \in DOMAIN machine : p \in Seen(S, rest) <=> p \in Seen(S, scans) \/ p = place
        BY <2>3, <2>4, <2>5
    <2>7. Seen(S, rest) = Seen(S, scans) \cup ({place} \cap DOMAIN machine)
        BY <2>6, SeenFacts
    <2>8. place \notin Seen(S, scans)
        BY <2>3, <2>4, <2>5, SeenFacts
    <2> QED
        BY <1>1, <1>2, <2>2, <2>3, <2>4, <2>7, <2>8, CheckStep
<1>7. CASE ~(Top.func < LastFunc)
    <2> PICK t \in ScanCall : t = Top
        BY <1>2
    <2> PICK c : c = [t EXCEPT !.inner = FALSE, !.device = NextDevice(@)]
        OBVIOUS
    <2>1. /\ c \in ScanCall /\ c.bus = Top.bus /\ c.device = Top.device + 1 /\ ~c.inner
          /\ Top.func = Funcs - 1
        <3>1. t.device + 1 \in 0..Slots /\ Top.func = Funcs - 1
            BY <1>2, <1>5, <1>7 DEF LastFunc
        <3> PICK u : u = [t EXCEPT !.inner = FALSE]
            OBVIOUS
        <3>2. u \in ScanCall /\ u.bus = t.bus /\ u.device = t.device /\ u.func = t.func /\ u.inner = FALSE
            BY DEF ScanCall
        <3> PICK v : v = [u EXCEPT !.device = t.device + 1]
            OBVIOUS
        <3>3. v \in ScanCall /\ v.bus = u.bus /\ v.device = t.device + 1 /\ v.func = u.func /\ v.inner = u.inner
            BY <3>1 DEF ScanCall
        <3>4. c = v
            BY <3>2, <3>3 DEF NextDevice
        <3> QED
            BY <3>1, <3>2, <3>3, <3>4, Zenon
    <2>2. scans' = [scans EXCEPT ![1] = c] /\ UNCHANGED found
        BY <1>2, <1>7 DEF Function
    <2> PICK s : s = scans'
        OBVIOUS
    <2>3. /\ Calls(S, s)
          /\ \A p \in DOMAIN machine : p[1] # Top.bus => (p \in Seen(S, s) <=> p \in Seen(S, scans))
          /\ \A p \in DOMAIN machine : p[1] = Top.bus =>
                  /\ p \in Seen(S, s) <=> p[3] # Funcs - 1 /\ Past(p, c)
                  /\ p \in Seen(S, scans) <=> p[3] # Funcs - 1 /\ Past(p, Top)
        BY <1>1, <2>1, <2>2, GoesOn
    <2>4. ASSUME NEW p \in DOMAIN machine, p[1] = Top.bus, p[3] # Funcs - 1
          PROVE  Past(p, c) <=> Past(p, Top)
        <3>1. Past(p, c) <=> p[2] < Top.device \/ p[2] = Top.device
            BY <1>2, <1>4, <2>1, <2>4 DEF Past
        <3>2. Past(p, Top) <=> p[2] < Top.device \/ (p[2] = Top.device /\ p[3] < Top.func)
            BY <1>1, <2>4 DEF Past
        <3>3. p[3] < Top.func
            BY <1>4, <1>5, <2>1, <2>4
        <3> QED
            BY <3>1, <3>2, <3>3
    <2>5. \A p \in DOMAIN machine : p \in Seen(S, s) <=> p \in Seen(S, scans)
        BY <2>3, <2>4
    <2>6. Seen(S, s) = Seen(S, scans)
        BY <2>5, SeenFacts
    <2> QED
        BY <1>1, <2>2, <2>3, <2>6, QuietStep
<1> QED
    BY <1>6, <1>7

LEMMA ScanReturnStep ==
    ASSUME ScanInv, ScanReturn
    PROVE  ScanInv'
<1> PICK S : Begins(S)
    BY DEF ScanInv
<1>1. scans # << >> /\ Top.device = Slots /\ scans' = Tail(scans) /\ UNCHANGED <<machine, host, found>>
    BY DEF ScanReturn
<1>2. /\ scans \in Seq(ScanCall) /\ Len(scans) \in Nat \ {0} /\ Top = scans[1] /\ 1 \in 1..Len(scans)
    BY <1>1, TopFacts
<1>3. machine \in Machine /\ Calls(S, scans)
    BY BeginsFields
<1> PICK s : s = scans'
    OBVIOUS
<1>4. /\ s \in Seq(ScanCall) /\ Len(s) = Len(scans) - 1
      /\ \A j \in 1..Len(s) : j + 1 \in 1..Len(scans) /\ s[j] = scans[j + 1]
    BY <1>1, <1>2
<1>5. \A j \in 1..Len(scans) : j = 1 \/ (j - 1 \in 1..Len(s) /\ s[j - 1] = scans[j])
    <2> TAKE j \in 1..Len(scans)
    <2>1. j # 1 => j - 1 \in 1..Len(s) /\ (j - 1) + 1 = j
        BY <1>2, <1>4
    <2> QED
        BY <1>4, <2>1
<1>6. Calls(S, s)
    <2>1. \A j \in 1..Len(s) : s[j].bus \in S /\ (s[j].inner => s[j].device < Slots)
        BY <1>3, <1>4 DEF Calls
    <2>2. ASSUME NEW j \in 1..Len(s), NEW k \in 1..Len(s), s[j].bus = s[k].bus PROVE j = k
        <3>1. j + 1 = k + 1
            <4>1. /\ j + 1 \in 1..Len(scans) /\ k + 1 \in 1..Len(scans)
                  /\ scans[j + 1].bus = scans[k + 1].bus
                BY <1>4, <2>2
            <4> QED
                BY <1>3, <4>1 DEF Calls
        <3> QED
            BY <1>4, <3>1
    <2> QED
        BY <1>4, <2>1, <2>2 DEF Calls
<1>7. ASSUME NEW p \in DOMAIN machine
      PROVE  (\A j \in 1..Len(s) : Past(p, s[j])) <=> (\A j \in 1..Len(scans) : Past(p, scans[j]))
    <2>1. p[2] < Slots
        BY <1>3, MachineFacts
    <2>2. Past(p, scans[1])
        BY <1>1, <1>2, <2>1 DEF Past
    <2> QED
        BY <1>4, <1>5, <2>2
<1>8. Seen(S, s) = Seen(S, scans)
    BY <1>7 DEF Seen
<1> QED
    BY <1>1, <1>6, <1>8, QuietStep

LEMMA NextHostStep ==
    ASSUME ScanInv, NextHost
    PROVE  ScanInv'
<1> PICK S : Begins(S)
    BY DEF ScanInv
<1>1. HostMulti /\ scans = << >> /\ host < Funcs /\ UNCHANGED <<machine, found>>
    BY DEF NextHost
<1>2. /\ machine \in Machine /\ host \in 0..Funcs /\ S \in SUBSET Nat
      /\ \A g \in 0..(host - 1) : ~Absent(<<0, 0, g>>)
      /\ Calls(S, scans)
      /\ S = Begun(host) \cup Opened(Seen(S, scans))
      /\ \A T \in SUBSET Nat : HostBuses \subseteq T /\ BehindBridges(T) \subseteq T => S \subseteq T
      /\ Lists(found, Seen(S, scans))
    BY <1>1, BeginsFields
<1>3. Funcs \in Nat \ {0, 1} /\ host \in Nat
    BY <1>2, PciScanAssumption
<1>4. CASE Absent(<<0, 0, host>>)
    <2>1. host' = Funcs /\ scans' = scans
        BY <1>4 DEF NextHost
    <2>2. \A f \in HostBuses : f < host /\ f < Funcs
        <3> TAKE f \in HostBuses
        <3>1. f \in 0..(Funcs - 1) /\ \A g \in 0..f : ~Absent(<<0, 0, g>>)
            BY <1>1 DEF HostBuses
        <3>2. ~(host \in 0..f)
            BY <1>4, <3>1
        <3> QED
            BY <1>3, <3>1, <3>2
    <2>3. Begun(Funcs) = Begun(host)
        BY <1>1, <2>2 DEF Begun
    <2>4. ~(host' < Funcs) /\ host' \in 0..Funcs
        BY <1>3, <2>1
    <2> QED
        BY <1>1, <1>2, <2>1, <2>3, <2>4, BeginsNext
<1>5. CASE ~Absent(<<0, 0, host>>)
    <2>1. host' = host + 1 /\ scans' = Scan(host)
        BY <1>5 DEF NextHost
    <2>2. \A g \in 0..host : ~Absent(<<0, 0, g>>)
        <3> SUFFICES ASSUME NEW g \in 0..host PROVE ~Absent(<<0, 0, g>>)
            BY Zenon
        <3>1. g = host \/ g \in 0..(host - 1)
            BY <1>3
        <3> QED
            BY <1>2, <1>5, <3>1
    <2>3. host \in HostBuses
        BY <1>1, <1>3, <2>2 DEF HostBuses
    <2>4. host \notin S
        <3>1. host \notin Begun(host)
            BY <1>1, <1>3 DEF Begun
        <3>2. host \notin Opened(Seen(S, scans))
            <4> SUFFICES ASSUME NEW p \in Seen(S, scans), machine[p].class = "bridge", machine[p].secondary = host
                         PROVE  FALSE
                BY DEF Opened
            <4>1. p \in DOMAIN machine
                BY SeenFacts
            <4>2. <<0, 0, host>> \notin DOMAIN machine
                BY <1>2, <4>1, PciScanAssumption
            <4> QED
                BY <1>5, <4>2 DEF Absent
        <3> QED
            BY <1>2, <3>1, <3>2
    <2> PICK X : X = S \cup {host}
        OBVIOUS
    <2>5. scans' = Scan(host) \o scans
        BY <1>1, <2>1 DEF Scan
    <2>6. Calls(X, scans') /\ Seen(X, scans') = Seen(S, scans)
        BY <1>2, <1>3, <2>4, <2>5, NewCall
    <2>7. Begun(host') = Begun(host) \cup {host}
        <3>1. \A f \in HostBuses : f < host + 1 <=> f < host \/ f = host
            <4> TAKE f \in HostBuses
            <4>1. f \in Nat
                BY <1>1, <1>3 DEF HostBuses
            <4> QED
                BY <1>3, <4>1
        <3> QED
            BY <1>1, <2>1, <2>3, <3>1 DEF Begun
    <2>8. X = Begun(host') \cup Opened(Seen(X, scans'))
        BY <1>2, <2>6, <2>7
    <2>9. X \in SUBSET Nat /\ host' \in 0..Funcs /\ host' - 1 = host
        BY <1>1, <1>2, <1>3, <2>1
    <2>10. \A T \in SUBSET Nat : HostBuses \subseteq T /\ BehindBridges(T) \subseteq T => X \subseteq T
        BY <1>2, <2>3
    <2>11. Lists(found', Seen(X, scans'))
        BY <1>1, <1>2, <2>6
    <2> QED
        BY <1>1, <1>2, <2>2, <2>6, <2>8, <2>9, <2>10, <2>11, BeginsNext
<1> QED
    BY <1>4, <1>5

LEMMA ScanInitial == ScanInit => ScanInv
<1> SUFFICES ASSUME ScanInit PROVE ScanInv
    OBVIOUS
<1>1. machine \in Machine /\ host = 0 /\ found = << >>
    BY DEF ScanInit
<1>2. Slots \in Nat \ {0} /\ Funcs \in Nat \ {0, 1} /\ host \in 0..Funcs
    BY <1>1, PciScanAssumption
<1>3. \A P : P = {} => Opened(P) = {} /\ Lists(found, P)
    BY <1>1 DEF Opened, Lists
<1>4. CASE HostMulti
    <2>1. scans = << >>
        BY <1>4 DEF ScanInit
    <2>2. Calls({}, scans)
        BY <2>1 DEF Calls
    <2>3. Seen({}, scans) = {}
        BY DEF Seen
    <2>4. Begun(host) = {}
        <3>1. \A f \in HostBuses : f \in Nat
            BY <1>2, <1>4 DEF HostBuses
        <3> QED
            BY <1>1, <1>4, <3>1 DEF Begun
    <2>5. \A g \in 0..(host - 1) : ~Absent(<<0, 0, g>>)
        BY <1>1
    <2>6. Begins({})
        BY <1>1, <1>2, <1>3, <2>2, <2>3, <2>4, <2>5 DEF Begins
    <2> QED
        BY <2>6 DEF ScanInv
<1>5. CASE ~HostMulti
    <2>1. scans = Scan(0)
        BY <1>5 DEF ScanInit
    <2>2. Calls({}, << >>)
        BY DEF Calls
    <2>3. Scan(0) \o << >> = Scan(0) /\ {} \cup {0} = {0}
        BY DEF Scan
    <2>4. Calls({0}, scans) /\ Seen({0}, scans) = Seen({}, << >>)
        BY <1>1, <2>1, <2>2, <2>3, NewCall
    <2>5. Seen({0}, scans) = {}
        BY <2>4 DEF Seen
    <2>6. Begun(host) = {0} /\ HostBuses = {0}
        BY <1>5 DEF Begun, HostBuses
    <2>7. Begins({0})
        BY <1>1, <1>2, <1>3, <1>5, <2>4, <2>5, <2>6 DEF Begins
    <2> QED
        BY <2>7 DEF ScanInv
<1> QED
    BY <1>4, <1>5

\* When the scan is over the list has every device on a bus it can reach, once,
\* but for the last function of each: pci_bus_scan's variable func, which is not
\* 0 again behind a device of several functions, does no harm.
THEOREM ScanFindsDevices == ScanSpec => []ScanComplete
<1>1. ScanInv /\ [ScanNext]_busVars => ScanInv'
    <2> SUFFICES ASSUME ScanInv, [ScanNext]_busVars PROVE ScanInv'
        OBVIOUS
    <2>1. CASE UNCHANGED busVars
        <3> PICK S : Begins(S)
            BY DEF ScanInv
        <3>1. UNCHANGED <<machine, host, found>> /\ scans' = scans
            BY <2>1 DEF busVars
        <3>2. Calls(S, scans') /\ Seen(S, scans') = Seen(S, scans)
            BY <3>1, BeginsFields
        <3> QED
            BY <3>1, <3>2, QuietStep
    <2> QED
        BY <2>1, NextHostStep, DeviceStep, FunctionStep, ScanReturnStep DEF ScanNext
<1>2. ScanInv => ScanComplete
    <2> SUFFICES ASSUME ScanInv PROVE ScanComplete
        OBVIOUS
    <2> PICK S : Begins(S)
        BY DEF ScanInv
    <2>1. /\ machine \in Machine /\ host \in 0..Funcs /\ S \in SUBSET Nat
          /\ Calls(S, scans)
          /\ S = Begun(host) \cup Opened(Seen(S, scans))
          /\ \A T \in SUBSET Nat : HostBuses \subseteq T /\ BehindBridges(T) \subseteq T => S \subseteq T
          /\ Lists(found, Seen(S, scans))
        BY BeginsFields
    <2>2. ScanTypeOK
        <3>1. \A s \in DOMAIN scans : scans[s].device \in 0..Slots /\ scans[s].func \in 0..(Funcs - 1)
            <4>1. scans \in Seq(ScanCall)
                BY <2>1 DEF Calls
            <4> TAKE s \in DOMAIN scans
            <4>2. scans[s] \in ScanCall
                BY <4>1
            <4> QED
                BY <4>2 DEF ScanCall
        <3>2. found \in Seq(DOMAIN machine)
            <4>1. found \in Seq(Seen(S, scans))
                BY <2>1 DEF Lists
            <4> QED
                BY <4>1, SeenFacts
        <3> QED
            BY <2>1, <3>1, <3>2 DEF ScanTypeOK
    <2>3. ASSUME scans = << >>, HostMulti => host = Funcs
          PROVE  /\ {found[i_1] : i_1 \in DOMAIN found} =
                     {p \in DOMAIN machine : p[1] \in Buses /\ p[3] # Funcs - 1 /\ machine[p].class = "device"}
                 /\ \A j, k \in DOMAIN found : found[j] = found[k] => j = k
        <3> DEFINE P == Seen(S, scans)
        <3>1. P = {p \in DOMAIN machine : p[1] \in S /\ p[3] # Funcs - 1}
            BY <2>3 DEF Seen
        <3>2. HostBuses \subseteq S
            <4>1. Funcs \in Nat \ {0, 1}
                BY PciScanAssumption
            <4>2. HostBuses \subseteq Begun(host)
                BY <2>3, <4>1 DEF Begun, HostBuses
            <4> QED
                BY <2>1, <4>2
        <3>3. BehindBridges(S) \subseteq S
            <4>1. BehindBridges(S) = Opened(P)
                BY <3>1, BehindIs DEF Opened, Bridges
            <4> QED
                BY <2>1, <4>1
        <3>4. HostBuses \subseteq Buses /\ BehindBridges(Buses) \subseteq Buses /\ Buses \subseteq S
            BY <2>1, <3>2, <3>3, BusesClosed
        <3>5. S = Buses
            BY <2>1, <3>4
        <3>6. /\ found \in Seq(P) /\ DOMAIN found = 1..Len(found)
              /\ \A p \in P : machine[p].class = "device" => \E k \in 1..Len(found) : found[k] = p
              /\ \A k \in 1..Len(found) : machine[found[k]].class = "device"
              /\ \A j, k \in 1..Len(found) : found[j] = found[k] => j = k
            BY <2>1 DEF Lists
        <3>7. \A k \in 1..Len(found) : found[k] \in P
            BY <3>6
        <3> QED
            BY <3>1, <3>5, <3>6, <3>7
    <2> QED
        BY <2>2, <2>3 DEF ScanComplete
<1> QED
    BY ScanInitial, <1>1, <1>2, PTL DEF ScanSpec
=============================================================================
