------------------------------ MODULE OpenFiles ------------------------------
(***************************************************************************)
(* What the file calls promise a program.  A process has a table of        *)
(* descriptors; a descriptor refers to an open file, which has an inode    *)
(* and an offset.  Two processes share an open file, with its offset, only *)
(* if one inherited the descriptor; an open file that nobody refers to is  *)
(* gone.  Files shows that kernel/filesystem/virtual.c, with the counts    *)
(* and tables of kernel/task/scheduler.c, implements it.                   *)
(***************************************************************************)
EXTENDS Integers, FiniteSets

CONSTANTS Proc,      \* processes
          Fd,        \* descriptors of a table: 0, 1, ...
          Foreign,   \* numbers a program may name that are no descriptor
          Id,        \* names of open files
          None,      \* a descriptor that is not in use
          Inode, Size,
          Errno      \* the error codes

VARIABLES table,     \* for every process, what its descriptors refer to
          desc,      \* the open files: inode, whether it can be read, offset
          ret,       \* the last answer to a program
          up         \* the system runs
vars == <<table, desc, ret, up>>

Closed == [i \in Fd |-> None]

Init ==
    /\ table = [p \in Proc |-> Closed]
    /\ desc = << >>
    /\ ret = << >>
    /\ up = TRUE

\* The lowest descriptor of p that is not in use.
IsFree(p, i) == table[p][i] = None /\ \A j \in Fd : j < i => table[p][j] # None

\* A new open file d, at offset pos, under p's lowest descriptor i.
Opened(p, i, d, inode, readable, pos) ==
    /\ IsFree(p, i)
    /\ table' = [table EXCEPT ![p][i] = d]
    /\ desc' = [e \in DOMAIN desc \cup {d} |->
                   IF e = d THEN [inode |-> inode, readable |-> readable, pos |-> pos]
                   ELSE desc[e]]

\* open
Open(p) ==
    \E i \in Fd :
        /\ ret' = <<"open", i>>
        /\ \E d \in Id \ DOMAIN desc, inode \in Inode, readable \in BOOLEAN :
               Opened(p, i, d, inode, readable, 0)
        /\ UNCHANGED up

\* The program loader reads a file to its end, under a descriptor of its own.
Load(p) ==
    \E inode \in Inode :
        /\ ret' = <<"load", inode>>
        /\ \E i \in Fd, d \in Id \ DOMAIN desc :
               Opened(p, i, d, inode, TRUE, Size[inode])
        /\ UNCHANGED up

\* read: the bytes from the offset on that the caller asks for and the file
\* has, and the offset moves behind them for everybody who shares it.
Read(p) ==
    \E i \in Fd :
        /\ table[p][i] # None
        /\ LET d == desc[table[p][i]]
           IN  /\ d.readable
               /\ \E end \in d.pos..Size[d.inode] :
                     /\ ret' = <<"read", d.inode, d.pos, end>>
                     /\ desc' = [desc EXCEPT ![table[p][i]].pos = end]
        /\ UNCHANGED <<table, up>>

\* fstat: the attributes of the inode the descriptor refers to
Fstat(p) ==
    \E i \in Fd :
        /\ table[p][i] # None
        /\ ret' = <<"fstat", desc[table[p][i]].inode>>
        /\ UNCHANGED <<table, desc, up>>

\* A call that changes nothing.
Refused ==
    /\ \E e \in Errno : ret' = <<"error", -e>>
    /\ UNCHANGED <<table, desc, up>>

\* fork: the child, which has no descriptor open, gets its parent's.
Fork(p) ==
    \E c \in Proc :
        /\ ret' = <<"fork", c>>
        /\ table[c] = Closed
        /\ table' = [table EXCEPT ![c] = table[p]]
        /\ UNCHANGED <<desc, up>>

\* exit: p's descriptors are closed, with the open files nobody else has.
Exit(p) ==
    /\ ret' = <<"exit", p>>
    /\ table' = [table EXCEPT ![p] = Closed]
    /\ LET kept == {d \in DOMAIN desc : \E q \in Proc \ {p}, i \in Fd : table[q][i] = d}
       IN  desc' = [d \in kept |-> desc[d]]
    /\ UNCHANGED up

\* A call with a number that is no descriptor may do what it likes with one open
\* file, anybody's, and the system need not survive it; no table changes.
Astray ==
    /\ \E i \in Foreign : ret' = <<"beyond", i>>
    /\ \/ up' \in BOOLEAN /\ UNCHANGED desc
       \/ /\ \E d \in DOMAIN desc : \E end \in desc[d].pos..Size[desc[d].inode] :
                 desc[d].readable /\ desc' = [desc EXCEPT ![d].pos = end]
          /\ UNCHANGED up
    /\ UNCHANGED table

\* The system goes down, with or without an answer, but over no descriptor that
\* is one.
Stop ==
    /\ up' = FALSE
    /\ \A i \in Fd : ret' # <<"beyond", i>>
    /\ UNCHANGED <<table, desc>>

Next ==
    \/ \E p \in Proc : Open(p) \/ Load(p) \/ Read(p) \/ Fstat(p) \/ Fork(p) \/ Exit(p)
    \/ Refused
    \/ Astray
    \/ Stop

Spec == Init /\ [][up /\ Next]_vars
=============================================================================
