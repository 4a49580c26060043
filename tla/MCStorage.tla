------------------------------ MODULE MCStorage ------------------------------
(***************************************************************************)
(* The way from a path to the bytes of a file: the disk and its driver     *)
(* (Ide), the scan that looks for controllers (PciScan), the walk to the   *)
(* inode (Dentries) and the reading through it (Ext2).  They share no      *)
(* variable and run one at a time, with interrupts off; a behaviour is     *)
(* one of them, the others at rest.                                        *)
(***************************************************************************)
EXTENDS Ide, Dentries, Ext2, PciScan, TLC

VARIABLE part    \* "disk", "bus", "path", "file"

-----------------------------------------------------------------------------
(* The disk has eight sectors to address; reads of up to three, at the     *)
(* beginning, close to the end and one past it.                            *)
const_Lba == {0, 5, 8}

(* Three devices on a bus, four functions of a device.  The machines have  *)
(* a host of one function or of two; beside it every choice of nothing, a  *)
(* device of one function, one of two or of all four, and a bridge to a    *)
(* bus with a device of two functions and a device behind it.              *)
One(class, multi) == [class |-> class, multi |-> multi, secondary |-> 0]
Bridge == [class |-> "bridge", multi |-> FALSE, secondary |-> 2]
Host(multi) == <<0, 0, 0>> :> One("host", multi) @@
               (IF multi THEN <<0, 0, 1>> :> One("host", TRUE) ELSE << >>)
OnBus0(slot) == {
    << >>,
    <<0, slot, 0>> :> One("device", FALSE),
    <<0, slot, 0>> :> One("device", TRUE) @@ <<0, slot, 2>> :> One("device", TRUE),
    [f \in {<<0, slot, 0>>, <<0, slot, 1>>, <<0, slot, 2>>, <<0, slot, 3>>} |-> One("device", TRUE)],
    <<0, slot, 0>> :> Bridge }
Bus2 == <<2, 0, 0>> :> One("device", TRUE) @@ <<2, 0, 1>> :> One("device", TRUE) @@
        <<2, 1, 0>> :> One("device", FALSE)
Bus1 == <<1, 2, 0>> :> One("device", FALSE)
const_Machine ==
    {Host(multi) @@ a @@ b @@ Bus1 @@ Bus2 :
        multi \in BOOLEAN, a \in OnBus0(1), b \in OnBus0(2) \ {<<0, 2, 0>> :> Bridge}}

(* A root directory with a file, a device file and a directory; the        *)
(* directory has a parent entry and keeps a second file in its second      *)
(* block.  The paths lead to all of them, down and up again, to names that *)
(* do not exist, and through things that are no directory.                 *)
const_Name == {"..", "file", "dir", "late", "tty", "nothing"}
const_Path == {<< >>, <<"file">>, <<"tty">>, <<"dir">>, <<"nothing">>, <<"file", "file">>,
         <<"dir", "file">>, <<"dir", "late">>, <<"dir", "nothing">>,
         <<"dir", "..", "file">>, <<"..", "dir", "file">>, <<"nothing", "dir">>}
const_Ino == {2, 11, 12, 13, 14}
const_Root == 2
const_Garbage == 99
const_Kind == 2 :> "directory" @@ 11 :> "regular" @@ 12 :> "directory" @@ 13 :> "regular"
        @@ 14 :> "special" @@ 99 :> "special"
const_Blocks == 2 :> << (".." :> 2 @@ "file" :> 11 @@ "dir" :> 12 @@ "tty" :> 14) >>
          @@ 12 :> << (".." :> 2 @@ "file" :> 13), ("late" :> 11) >>
const_MaxDentry == 5

(* Two direct blocks and index blocks of two entries, as the constants of  *)
(* the levels assume, or three; blocks of two bytes.  A file of 21 bytes   *)
(* reaches the third level with two entries and the second with three.     *)
(* Reads of a byte, of a block and a half, of the whole file and past the  *)
(* range of a size_t.  Super blocks with blocks of 1024 and 4096 bytes,    *)
(* inodes of 128 and 256, and groups that span two blocks of descriptors.  *)
const_Direct == 2
const_Assumed == 2
const_Entries == {2, 3}
const_BlockSize == 2
const_MaxSize == 21
const_Counts == {1, 5, 40, 127}
const_Word == 128
const_Super ==
    [blocksize : {1024}, first_data_block : {1}, inode_size : {128, 256}, inodes_per_group : {16}]
    \cup [blocksize : {4096}, first_data_block : {0}, inode_size : {128}, inodes_per_group : {64}]
const_MaxIno == 40

-----------------------------------------------------------------------------
all == <<part, vars, busVars, treeVars, fileVars>>

StorageInit ==
    /\ Init /\ ScanInit /\ TreeInit /\ FileInit
    /\ part \in {"disk", "bus", "path", "file"}
    /\ part # "disk" => ~present
    /\ part # "bus" => machine = CHOOSE m \in Machine : TRUE
    /\ part # "file" => size = 0 /\ entries = Direct

NotDisk == UNCHANGED <<part, busVars, treeVars, fileVars>>
DriverStep == part = "disk" /\ Driver /\ NotDisk
DiskStep == part = "disk" /\ Disk /\ NotDisk
BusStep == part = "bus" /\ ScanNext /\ UNCHANGED <<part, vars, treeVars, fileVars>>
PathStep == part = "path" /\ TreeNext /\ UNCHANGED <<part, vars, busVars, fileVars>>
NotFile == UNCHANGED <<part, vars, busVars, treeVars>>
FileStep == part = "file" /\ FileNext /\ NotFile

StorageNext == DriverStep \/ DiskStep \/ BusStep \/ PathStep \/ FileStep

\* The fairness of the parts.
StorageSpec ==
    /\ StorageInit /\ [][StorageNext]_all
    /\ WF_all(DriverStep) /\ WF_all(DiskStep) /\ WF_all(BusStep)
    /\ WF_all(part = "file" /\ Loop /\ NotFile)

-----------------------------------------------------------------------------
\* Whatever the disk does, every wait for it ends, and so do the scan of the
\* buses and the loops of a read through all levels of the index.
AllEnd ==
    /\ part = "disk" => WaitsEnd
    /\ part = "bus" => ScanEnds
    /\ ReadEnds
=============================================================================
