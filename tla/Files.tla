-------------------------------- MODULE Files --------------------------------
(***************************************************************************)
(* Descriptors and open files: open, read, fstat and the loader's reading  *)
(* of kernel/filesystem/virtual.c, with what fork and exit of              *)
(* kernel/task/scheduler.c do to the tables and counts.  These calls run   *)
(* with interrupts off, so each is one step.  There is no close and no     *)
(* dup in the kernel.                                                      *)
(*                                                                         *)
(* What a path leads to is left to Dentries, what a read returns to Ext2.  *)
(* Of the file operations of ext2 only read of a regular file exists: a    *)
(* directory has an empty table of operations and a special file has none, *)
(* and the kernel calls through them without asking.  Nor does it ask      *)
(* whether a descriptor is below FD_MAX: what the heap holds behind the    *)
(* table is not modelled, the word there may be anything.                  *)
(***************************************************************************)
EXTENDS Integers, Sequences, FiniteSets

CONSTANTS LastPid,   \* bound of the model: processes 1..LastPid
          FdMax,     \* FD_MAX, slots of a table: 512
          FdScan,    \* slots virt_fs_fd_find looks at: 256
          MaxFile,   \* bound of the model: files in the tables
          MaxCount,  \* bound of the model: bytes of one read
          AccMode,   \* access modes of open: O_RDONLY 0, O_WRONLY 1, O_RDWR 2
          Inode, Kind, Size,   \* the disk: inodes, their kinds and sizes
          Missing    \* a path that leads nowhere

ASSUME FilesAssumption ==
    /\ FdScan \in Nat \ {0} /\ FdMax \in Nat /\ FdScan <= FdMax
    /\ LastPid \in Nat \ {0} /\ MaxFile \in Nat /\ MaxCount \in Nat
    /\ AccMode \subseteq 0..3
    /\ Kind \in [Inode -> {"regular", "directory", "special"}]
    /\ Size \in [Inode -> Nat]
    /\ Missing \notin Inode

VARIABLES
    fd,       \* process_files.fd of every process
    file,     \* the vfs_file objects, in the order of their allocation
    icount,   \* vfs_inode.count
    pids,     \* processes created so far
    exited,   \* processes behind sched_exit; their tables stay
    ret,      \* the last answer to a program
    halted    \* "no"; "panic"; "corrupt": the kernel wrote outside the table; "astray":
              \* it follows a word behind the table that leads to no file
vars == <<fd, file, icount, pids, exited, ret, halted>>

Proc == 1..LastPid
Slot == 0..(FdMax - 1)
None == 0
File == [inode : Inode, mode : 0..3, pos : Nat, count : Nat]

EINVAL == 22
EBADF == 9
ENOENT == 2
EEXIST == 17

TypeOK ==
    /\ fd \in [Proc -> [Slot -> Nat]]
    /\ \A p \in Proc, i \in Slot : fd[p][i] = None \/ fd[p][i] \in DOMAIN file
    /\ file \in Seq(File)
    /\ \A f \in DOMAIN file : file[f].pos <= Size[file[f].inode]
    /\ icount \in [Inode -> Nat]
    /\ pids \in Proc
    /\ exited \subseteq 1..pids
    /\ halted \in {"no", "panic", "corrupt", "astray"}

\* p may make a system call.
Runs(p) == halted = "no" /\ p \in (1..pids) \ exited

\* An error code for the caller, and nothing else.
Error(e) == /\ ret' = <<"error", -e>>
            /\ UNCHANGED <<fd, file, icount, pids, exited, halted>>

\* A null pointer is called or followed: page 0 is mapped nowhere.
Fault == /\ halted' = "panic"
         /\ ret' = << >>
         /\ UNCHANGED <<fd, file, icount, pids, exited>>

-----------------------------------------------------------------------------
\* OPEN_FMODE: bit 0 is FMODE_READ, bit 1 FMODE_WRITE.  virt_fs_open adds
\* FMODE_CAN_READ exactly to files with FMODE_READ.
OpenFmode(accmode) == (accmode + 1) % 4
Readable(mode) == mode % 2 = 1

\* virt_fs_fd_find(0): the first slot in use by nobody, or -EINVAL
FdFindLast(p, i) ==                                  \* faulty: not the first
    /\ i \in 0..(FdScan - 1) /\ fd[p][i] = None
    /\ \A j \in (i + 1)..(FdScan - 1) : fd[p][j] # None
FdFind(p, i) ==
    IF \A j \in 0..(FdScan - 1) : fd[p][j] # None
    THEN i = -EINVAL
    ELSE /\ i \in 0..(FdScan - 1)
         /\ fd[p][i] = None
         /\ \A j \in 0..(i - 1) : fd[p][j] # None

\* virt_fs_file_alloc and the fields virt_fs_open sets
NewFileAtEnd(inode, accmode) ==                      \* faulty: begins at the end
    [inode |-> inode, mode |-> OpenFmode(accmode), pos |-> Size[inode], count |-> 1]
NewFile(inode, accmode) ==
    [inode |-> inode, mode |-> OpenFmode(accmode), pos |-> 0, count |-> 1]

\* The last three statements of virt_fs_open.  With a full table the index is
\* -EINVAL: the pointer lands in the heap, 22 words in front of the table.
Install(p, i, f) ==
    /\ file' = Append(file, f)
    /\ icount' = [icount EXCEPT ![f.inode] = @ + 1]
    /\ IF i >= 0 THEN fd' = [fd EXCEPT ![p][i] = Len(file')] /\ UNCHANGED halted
                 ELSE UNCHANGED fd /\ halted' = "corrupt"

\* syscall_open: virt_fs_open with virt_fs_path_find.  A path with O_CREAT that
\* leads nowhere calls create, which no inode of ext2 has.
Open(p) ==
    /\ Runs(p)
    /\ \E path \in Inode \cup {Missing}, accmode \in AccMode, creat, excl \in BOOLEAN :
        IF path = Missing
        THEN IF creat THEN Fault ELSE Error(ENOENT)
        ELSE IF creat /\ excl
        THEN Error(EEXIST)
        ELSE /\ \E i \in (0..(FdScan - 1)) \cup {-EINVAL} :
                  /\ FdFind(p, i)
                  /\ i >= 0 => Len(file) < MaxFile
                  /\ Install(p, i, NewFile(path, accmode))
                  /\ ret' = <<"open", i>>
             /\ UNCHANGED <<pids, exited>>

\* ext2_fs_read, as far as the offset goes: where a read from pos ends
ReadEnd(inode, pos, count) ==
    IF pos + count < Size[inode] THEN pos + count ELSE Size[inode]

\* What a program may name: a slot in use, one that is not or a number below 0,
\* or a number behind the table, for all of which FdMax stands.
Used(p) == {i \in Slot : fd[p][i] # None}
Beyond == {FdMax}

\* The word behind the table is null, the address of no memory or of some.
Stray(i) ==
    \/ Error(EBADF)
    \/ Fault
    \/ /\ halted' = "astray" /\ ret' = <<"beyond", i>>
       /\ UNCHANGED <<fd, file, icount, pids, exited>>

\* The rest of virt_fs_fread, with the file.
ReadFile(f, count, answer) ==
    IF ~Readable(file[f].mode) THEN Error(EINVAL)
    ELSE IF Kind[file[f].inode] # "regular" THEN Fault
    ELSE /\ file' = [file EXCEPT ![f].pos = ReadEnd(file[f].inode, file[f].pos, count)]
         /\ ret' = answer
         /\ UNCHANGED <<fd, icount, pids, exited, halted>>
Bytes(f, count) ==
    <<"read", file[f].inode, file[f].pos, ReadEnd(file[f].inode, file[f].pos, count)>>

\* syscall_read: virt_fs_fread.  Behind the table may lie another process's.
Read(p) ==
    /\ Runs(p)
    /\ \E count \in 0..MaxCount :
        \/ Error(EBADF)
        \/ \E i \in Used(p) : ReadFile(fd[p][i], count, Bytes(fd[p][i], count))
        \/ \E i \in Beyond : \/ Stray(i) \/ Error(EINVAL)
                            \/ \E f \in DOMAIN file : ReadFile(f, count, <<"beyond", i>>)

\* syscall_fstat: virt_fs_fstat and virt_fs_getattr
Fstat(p) ==
    /\ Runs(p)
    /\ \/ Error(EBADF)
       \/ \E i \in Used(p) : /\ ret' = <<"fstat", file[fd[p][i]].inode>>
                            /\ UNCHANGED <<fd, file, icount, pids, exited, halted>>
       \/ \E i \in Beyond : \/ Stray(i)
                           \/ /\ ret' = <<"beyond", i>>
                              /\ UNCHANGED <<fd, file, icount, pids, exited, halted>>

\* virt_fs_read, by which elf32_load reads a program for sched_thread_entry
\* and execve: open, fstat, read to the end.  Nothing closes the descriptor.
Load(p) ==
    /\ Runs(p)
    /\ \E path \in Inode, i \in (0..(FdScan - 1)) \cup {-EINVAL} :
        /\ FdFind(p, i)
        /\ i >= 0 => Len(file) < MaxFile
        /\ IF i >= 0 /\ Kind[path] # "regular"
           THEN Fault
           ELSE /\ Install(p, i, [NewFile(path, 2) EXCEPT
                                     !.pos = IF i >= 0 THEN ReadEnd(path, 0, Size[path]) ELSE 0])
                /\ ret' = IF i >= 0 THEN <<"load", path>> ELSE <<"error", i>>
                /\ UNCHANGED <<pids, exited>>

\* The files sched_process_clone_files counts once more.
CountedFromOne(p, f) == \E i \in Slot \ {0} : fd[p][i] = f   \* faulty: skips slot 0
Counted(p, f) == \E i \in Slot : fd[p][i] = f

\* sched_process_fork: sched_process_clone_files
Fork(p) ==
    /\ Runs(p)
    /\ pids < LastPid
    /\ pids' = pids + 1
    /\ fd' = [fd EXCEPT ![pids'] = fd[p]]
    /\ file' = [f \in DOMAIN file |->
                   IF Counted(p, f) THEN [file[f] EXCEPT !.count = @ + 1] ELSE file[f]]
    /\ ret' = <<"fork", pids'>>
    /\ UNCHANGED <<icount, exited, halted>>

\* What the loop of sched_exit asks of a slot: `file->op->release' is reached
\* for a file counted once, and a special file has no op.
ReleaseFaults(f) == file[f].count = 1 /\ Kind[file[f].inode] = "special"

\* sched_exit.  No file operation of the kernel has a release, so no slot is
\* emptied and no count lowered.  The exit of process 1 is a panic.
Exit(p) ==
    /\ Runs(p)
    /\ IF p = 1 \/ \E i \in Slot : fd[p][i] # None /\ ReleaseFaults(fd[p][i])
       THEN Fault
       ELSE /\ exited' = exited \cup {p}
            /\ ret' = <<"exit", p>>
            /\ UNCHANGED <<fd, file, icount, pids, halted>>

\* The kernel does not go on after a panic, nor the model after a wild store.
Stopped == halted # "no" /\ UNCHANGED vars

-----------------------------------------------------------------------------
\* Process 1 as sched_load creates it: sched_process_clone_files of the boot
\* process, whose table is empty.
Init ==
    /\ fd = [p \in Proc |-> [i \in Slot |-> None]]
    /\ file = << >>
    /\ icount = [inode \in Inode |-> 0]
    /\ pids = 1
    /\ exited = {}
    /\ ret = << >>
    /\ halted = "no"

Next ==
    \/ \E p \in Proc : Open(p) \/ Read(p) \/ Fstat(p) \/ Load(p) \/ Fork(p) \/ Exit(p)
    \/ Stopped

Spec == Init /\ [][Next]_vars

-----------------------------------------------------------------------------
(* Properties                                                              *)

\* The slots that hold f, over all processes, exited ones included.
Holders(f) == {s \in Proc \X Slot : fd[s[1]][s[2]] = f}

\* vfs_file.count is the number of slots that hold the file, through every
\* order of opens, loads, forks and exits, and vfs_inode.count the number of
\* files opened on the inode.  (A file stored outside the table has count 1.)
CountsMatch ==
    /\ TypeOK
    /\ halted # "corrupt" =>
        /\ \A f \in DOMAIN file : file[f].count = Cardinality(Holders(f))
        /\ \A inode \in Inode :
               icount[inode] = Cardinality({f \in DOMAIN file : file[f].inode = inode})

\* Nothing takes a descriptor away, so tables only fill: the slots in use are
\* the first ones, never beyond FdScan however many FdMax has, and the store
\* in front of a table happens only to a process that filled its table,
\* alone or through its ancestors, with opens and loads.
TablesFill ==
    /\ \A p \in Proc : \E n \in 0..FdScan :
           \A i \in Slot : fd[p][i] # None <=> i < n
    /\ halted = "corrupt" => \E p \in Proc : \A i \in 0..(FdScan - 1) : fd[p][i] # None

\* The program's view: the tables of living processes, and the files they hold.
Held(p) == IF p \in exited THEN [i \in Slot |-> None] ELSE fd[p]
Referred == {f \in DOMAIN file : \E p \in Proc, i \in Slot : Held(p)[i] = f}
View == [f \in Referred |-> [inode |-> file[f].inode, readable |-> Readable(file[f].mode),
                             pos |-> file[f].pos]]

Abstract == INSTANCE OpenFiles WITH
    Fd <- Slot, Foreign <- Beyond, Id <- 1..MaxFile, Errno <- {ENOENT, EBADF, EEXIST, EINVAL},
    table <- [p \in Proc |-> Held(p)], desc <- View, up <- (halted = "no")

\* The counts and tables implement shared open files with lowest-first
\* descriptors: a child shares its parent's offsets, unrelated opens do not
\* share, and what exit leaves behind in the tables is invisible.
ImplementsOpenFiles == Abstract!Spec
=============================================================================
