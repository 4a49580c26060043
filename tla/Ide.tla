--------------------------------- MODULE Ide ---------------------------------
(***************************************************************************)
(* kernel/drivers/ide.c: the driver that reads a disk by asking for its    *)
(* status again and again, and the disk, which answers when it likes.  An  *)
(* action of the driver ends where it looks at the status; a turn of a     *)
(* waiting loop that goes on changes nothing.  The disk is external: it is *)
(* modelled from what the driver expects of it.                            *)
(***************************************************************************)
EXTENDS Integers, Sequences

CONSTANTS LbaRange,   \* 2^28 sectors can be asked for
          Lba,        \* what callers ask for, as virt_fs_bread does
          MaxSectors, \* sectors a read, 1 or more
          MaxReads    \* bound of the model: calls of ide_ata_read

ASSUME IdeAssumption ==
    LbaRange \in Nat \ {0} /\ Lba \subseteq Nat /\ MaxSectors \in Nat \ {0} /\ MaxReads \in Nat

ENXIO == -6
None == 1      \* of result: no read has returned

VARIABLES
    pc,        \* "off", "identify", "ready", "idle", "first", "copy", "next", "halted"
    lba, sectors, i,
    buffer,    \* sectors copied; -1 for what is not the disk's data
    result,    \* of the last read
    reads,     \* calls of ide_ata_read
    present,   \* there is a disk
    busy, drq, error,  \* bits of its status: BUSY, DRQ, and ERROR or DF
    at, left,  \* the sector that it delivers next, and how many
    failed     \* it has failed the command
driver == <<pc, lba, sectors, i, buffer, result, reads>>
disk == <<present, busy, drq, error, at, left, failed>>
vars == <<driver, disk>>

TypeOK ==
    /\ pc \in {"off", "identify", "ready", "idle", "first", "copy", "next", "halted"}
    /\ lba \in Nat /\ sectors \in 0..MaxSectors /\ i \in 0..sectors
    /\ Len(buffer) = i /\ result \in {0, ENXIO, None} /\ reads \in 0..MaxReads
    /\ {present, busy, drq, error, failed} \subseteq BOOLEAN
    /\ at \in Nat /\ left \in 0..MaxSectors
    /\ drq => ~error /\ left > 0

-----------------------------------------------------------------------------
\* The disk gets a command for n sectors from l
Command(l, n) ==
    /\ busy' = TRUE /\ drq' = FALSE /\ error' = FALSE
    /\ at' = l /\ left' = n
    /\ failed' = FALSE /\ UNCHANGED present

\* It has the next sector
Deliver ==
    /\ busy /\ ~error /\ left > 0
    /\ busy' = FALSE /\ drq' = TRUE
    /\ UNCHANGED <<driver, present, error, at, left, failed>>

\* It fails, and may be busy for some time still
Fail ==
    /\ busy /\ ~error
    /\ error' = TRUE /\ failed' = TRUE /\ left' = 0
    /\ busy' \in BOOLEAN
    /\ UNCHANGED <<driver, present, drq, at>>

Settle ==
    /\ busy /\ (error \/ left = 0)
    /\ busy' = FALSE
    /\ UNCHANGED <<driver, present, drq, error, at, left, failed>>

\* insw: the data register is read to the end of the sector
Insw ==
    /\ drq' = FALSE
    /\ busy' = (IF drq THEN TRUE ELSE busy)
    /\ at' = IF drq THEN at + 1 ELSE at
    /\ left' = IF drq THEN left - 1 ELSE left
    /\ UNCHANGED <<present, error, failed>>
Data == IF drq THEN at ELSE -1

-----------------------------------------------------------------------------
Init ==
    /\ pc = "off" /\ lba = 0 /\ sectors = 0 /\ i = 0 /\ buffer = <<>>
    /\ result = None /\ reads = 0
    /\ present \in BOOLEAN
    /\ busy = FALSE /\ drq = FALSE /\ error = FALSE /\ at = 0 /\ left = 0 /\ failed = FALSE

\* ide_init, ide_detect: the identify command, which delivers one sector
Detect ==
    /\ pc = "off" /\ pc' = "identify"
    /\ IF present THEN Command(0, 1) ELSE UNCHANGED disk
    /\ UNCHANGED <<lba, sectors, i, buffer, result, reads>>

\* ide_ata_identify_polling: a status of 0 is no disk, and sys_panic stops
IdentifyAbsent ==
    /\ pc = "identify" /\ ~present
    /\ pc' = "halted"
    /\ UNCHANGED <<lba, sectors, i, buffer, result, reads, disk>>

\* No longer busy: the second loop waits for data or an error
IdentifyNotBusy ==
    /\ pc = "identify" /\ present /\ ~busy
    /\ pc' = "ready"
    /\ UNCHANGED <<lba, sectors, i, buffer, result, reads, disk>>

Identified ==
    /\ pc = "ready" /\ drq
    /\ IF error THEN pc' = "halted" /\ UNCHANGED disk ELSE pc' = "idle" /\ Insw
    /\ UNCHANGED <<lba, sectors, i, buffer, result, reads>>

\* faulty: the second loop looks for data only
IdentifyErrorIgnored ==
    /\ pc = "ready" /\ drq /\ error
    /\ pc' = "halted"
    /\ UNCHANGED <<lba, sectors, i, buffer, result, reads, disk>>

IdentifyError ==
    /\ pc = "ready" /\ ~drq /\ error
    /\ pc' = "halted"
    /\ UNCHANGED <<lba, sectors, i, buffer, result, reads, disk>>

\* The sector number as the registers get it
Addressed(l) == l % LbaRange

\* ide_ata_read: the command
Read ==
    /\ pc = "idle" /\ reads < MaxReads
    /\ \E l \in Lba, n \in 1..MaxSectors :
          /\ lba' = l /\ sectors' = n
          /\ Command(Addressed(l), n)
    /\ pc' = "first" /\ i' = 0 /\ buffer' = <<>> /\ result' = None /\ reads' = reads + 1

\* ide_ata_polling: the test that ends the loop with success
Polled == ~busy \/ drq

PollSuccess ==
    /\ pc \in {"first", "next"} /\ Polled
    /\ IF i < sectors THEN pc' = "copy" /\ UNCHANGED result
       ELSE pc' = "idle" /\ result' = 0
    /\ UNCHANGED <<lba, sectors, i, buffer, reads, disk>>

PollError ==
    /\ pc \in {"first", "next"} /\ ~Polled /\ error
    /\ pc' = "idle" /\ result' = ENXIO
    /\ UNCHANGED <<lba, sectors, i, buffer, reads, disk>>

\* faulty: nothing waits behind the last sector
CopyUnpolled ==
    /\ pc = "copy"
    /\ buffer' = Append(buffer, Data) /\ i' = i + 1
    /\ Insw
    /\ IF i + 1 = sectors THEN pc' = "idle" /\ result' = 0 ELSE pc' = "next" /\ UNCHANGED result
    /\ UNCHANGED <<lba, sectors, reads>>

Copy ==
    /\ pc = "copy"
    /\ buffer' = Append(buffer, Data) /\ i' = i + 1
    /\ Insw
    /\ pc' = "next"
    /\ UNCHANGED <<lba, sectors, result, reads>>

Driver == Detect \/ IdentifyAbsent \/ IdentifyNotBusy \/ Identified \/ IdentifyError
              \/ Read \/ PollSuccess \/ PollError \/ Copy
Disk == Deliver \/ Fail \/ Settle

\* The driver does nothing but wait, and the disk brings a command to an end
Spec == Init /\ [][Driver \/ Disk]_vars /\ WF_vars(Driver) /\ WF_vars(Disk)

-----------------------------------------------------------------------------
(* A read that returns 0 from a disk that did not fail has the sectors that  *)
(* were asked for, in their order: every look at the status found the next   *)
(* one ready.  Of a disk that failed, it may return 0 with other data.       *)
ReadExact ==
    result = 0 /\ ~failed /\ lba + sectors <= LbaRange =>
        buffer = [k \in 1..sectors |-> lba + k - 1]

(* ide_ata_read returns an error only if the disk failed.                    *)
ErrorsAreReal == result = ENXIO => failed

(* Between reads, the disk is not in the middle of a command that succeeds:  *)
(* the next command never meets data of the last one.                        *)
IdleBetween == pc = "idle" /\ ~failed /\ result = 0 => ~busy /\ ~drq

(* Every wait ends: the driver identifies the disk or halts, and every read  *)
(* returns.                                                                  *)
WaitsEnd == []<>(pc \in {"idle", "halted"})

(* What virt_fs_bread relies on.                                             *)
DiskReads == TypeOK /\ ReadExact /\ ErrorsAreReal /\ IdleBetween
=============================================================================
