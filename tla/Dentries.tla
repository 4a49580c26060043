------------------------------ MODULE Dentries ------------------------------
(***************************************************************************)
(* Path resolution: virt_fs_path_find of kernel/filesystem/virtual.c over  *)
(* the tree of dentries it caches, with ext2_fs_lookup of                  *)
(* kernel/filesystem/ext2.c below it.  A path is the sequence of its       *)
(* names; empty names and trailing slashes do not count, and a relative    *)
(* path starts at the root like an absolute one, because fs->root and the  *)
(* mount never change.  The disk does not change either.                   *)
(***************************************************************************)
EXTENDS Integers, Sequences, FiniteSets

CONSTANTS Name,      \* names of path components
          Path,      \* the paths programs use: sequences of names
          Ino,       \* inode numbers in use on the disk
          Root,      \* EXT2_ROOT_INO
          Garbage,   \* what the inode table holds at number 2^32 - 2
          Kind,      \* kind of every inode, Garbage included
          Blocks,    \* blocks of every directory, in the order of i_block:
                     \* sequences of functions from names to numbers
          MaxDentry  \* bound of the model: dentries in the cache

\* A block of a directory: the numbers of the names in it.
DirBlock == UNION {[names -> Ino] : names \in SUBSET Name}

\* A directory has a block at least, with itself and its parent in it.
ASSUME DentriesAssumption ==
    /\ Path \subseteq Seq(Name)
    /\ Root \in Ino /\ Garbage \notin Ino
    /\ Ino \cup {Garbage} \subseteq Nat \ {0}
    /\ Kind \in [Ino \cup {Garbage} -> {"directory", "regular", "special"}]
    /\ Kind[Root] = "directory"
    /\ \A i \in Ino \cup {Garbage} : Kind[i] = "directory" => Blocks[i] \in Seq(DirBlock) \ {<< >>}
    /\ MaxDentry \in Nat

VARIABLES
    dentry,    \* the cached dentries in the order of their linking; 1 is the root
    last,      \* the last path and what virt_fs_path_find said
    halted     \* a null pointer was called
treeVars == <<dentry, last, halted>>

Dentry == [name : Name, parent : Nat, ino : Ino \cup {Garbage}]
NoDentry == 0
ENOENT == -2
EEXIST == -17
NULL == 0      \* no inode: their numbers begin at 1
CREATE == 1    \* no result: the operation create is called

TreeTypeOK ==
    /\ dentry[1].ino = Root /\ dentry[1].parent = NoDentry
    /\ \A d \in DOMAIN dentry \ {1} : dentry[d] \in Dentry /\ dentry[d].parent \in 1..(d - 1)
    /\ halted \in BOOLEAN

-----------------------------------------------------------------------------
\* ext2_fs_ino_find in one block of a directory.
InoFind(block, name) == IF name \in DOMAIN block THEN block[name] ELSE ENOENT

\* ext2_fs_lookup: the loop stops at the first block whose answer, as an
\* unsigned number, is greater than zero.  -ENOENT is, so the first block
\* answers for the whole directory, and inode number 2^32 - 2 for a name that
\* is not there.  What is no directory has no lookup.
LookupAnyBlock(dir, name) ==                         \* faulty: signed comparison
    IF Kind[dir] # "directory" THEN NULL
    ELSE LET hits == {b \in DOMAIN Blocks[dir] : name \in DOMAIN Blocks[dir][b]}
         IN  IF hits = {} THEN NULL ELSE Blocks[dir][CHOOSE b \in hits : TRUE][name]
Lookup(dir, name) ==
    IF Kind[dir] # "directory" \/ Blocks[dir] = << >>
    THEN NULL
    ELSE LET ino == InoFind(Blocks[dir][1], name)
         IN  IF ino = ENOENT THEN Garbage ELSE ino

\* The search of subdirs: the first child of d with the name.
Child(cache, d, name) ==
    LET hits == {c \in DOMAIN cache : cache[c].parent = d /\ cache[c].name = name}
    IN  IF hits = {} THEN NoDentry ELSE CHOOSE c \in hits : \A e \in hits : c <= e

\* virt_fs_dentry_alloc and dlist_add_tail for a name the file system knows.
LinkedAtRoot(cache, d, name, ino) ==                 \* faulty: parent of all is the root
    Append(cache, [name |-> name, parent |-> 1, ino |-> ino])
Linked(cache, d, name, ino) == Append(cache, [name |-> name, parent |-> d, ino |-> ino])

\* One turn of the loop at dentry w.at: the i-th name of the path.  The walk w
\* goes on with w.result = 0 and ends with an error or the call of create.
Turn(w, path, i, creat, excl) ==
    LET child == Child(w.cache, w.at, path[i])
        ino == Lookup(w.cache[w.at].ino, path[i])
        exists == i = Len(path) /\ creat /\ excl
    IN  IF w.result # 0 THEN w
        ELSE IF child # NoDentry
        THEN [w EXCEPT !.at = child, !.result = IF exists THEN EEXIST ELSE 0]
        ELSE IF ino = NULL
        THEN [w EXCEPT !.result = IF i = Len(path) /\ creat THEN CREATE ELSE ENOENT]
        ELSE IF exists THEN [w EXCEPT !.result = EEXIST]
        ELSE [w EXCEPT !.cache = Linked(@, w.at, path[i], ino), !.at = Len(w.cache) + 1]

\* virt_fs_path_find: the walk from the root, name by name.
PathFind(path, creat, excl) ==
    LET walk[i \in 0..Len(path)] ==
            IF i = 0 THEN [cache |-> dentry, at |-> 1, result |-> 0]
            ELSE Turn(walk[i - 1], path, i, creat, excl)
    IN  walk[Len(path)]

-----------------------------------------------------------------------------
\* virt_fs_open up to virt_fs_path_find
Open ==
    /\ ~halted
    /\ \E path \in Path, creat, excl \in BOOLEAN :
        LET w == PathFind(path, creat, excl)
        IN  /\ Len(w.cache) <= MaxDentry
            /\ dentry' = w.cache
            /\ halted' = (w.result = CREATE)
            /\ last' = [path |-> path, new |-> creat /\ excl, at |-> w.at, result |-> w.result]

\* sys_panic, or the bound of the model.
Stopped == (halted \/ Len(dentry) >= MaxDentry) /\ UNCHANGED treeVars

\* ext2_fs_mount and virt_fs_mount_root: the root's dentry, with inode 2.
TreeInit ==
    /\ dentry = <<[name |-> "/", parent |-> NoDentry, ino |-> Root]>>
    /\ last = << >>
    /\ halted = FALSE

TreeNext == Open \/ Stopped

TreeSpec == TreeInit /\ [][TreeNext]_treeVars

-----------------------------------------------------------------------------
(* Properties                                                              *)

\* The dentry the cache has for a path, or NoDentry.
Cached(path) ==
    LET walk[i \in 0..Len(path)] ==
            IF i = 0 THEN 1
            ELSE IF walk[i - 1] = NoDentry THEN NoDentry ELSE Child(dentry, walk[i - 1], path[i])
    IN  walk[Len(path)]

\* A cached dentry says what the disk would say again, and a directory has no
\* two dentries of a name: failed walks, which link the names before the one
\* that fails, and refused O_EXCL opens leave the cache as good as new.
\* A walk that succeeds ends at the dentry that the cache has for the path.
CacheSound ==
    /\ TreeTypeOK
    /\ \A d \in DOMAIN dentry \ {1} :
        /\ dentry[d].ino = Lookup(dentry[dentry[d].parent].ino, dentry[d].name)
        /\ \A e \in DOMAIN dentry : dentry[e].parent = dentry[d].parent
                                    /\ dentry[e].name = dentry[d].name => e = d
    /\ last # << >> /\ last.result = 0 => Cached(last.path) = last.at

\* What the disk holds under a path, by the definition of a directory: the
\* names of all its blocks.
DirEntries(dir) ==
    IF Kind[dir] # "directory" THEN {}
    ELSE UNION {{<<n, Blocks[dir][b][n]>> : n \in DOMAIN Blocks[dir][b]} : b \in DOMAIN Blocks[dir]}
Reached(path) ==
    LET walk[i \in 0..Len(path)] ==
            IF i = 0 THEN {Root}
            ELSE {ino \in Ino : \E d \in walk[i - 1] : <<path[i], ino>> \in DirEntries(d)}
    IN  walk[Len(path)]

\* A path whose directories keep their names in one block each.
OneBlock(path) ==
    \A i \in 0..(Len(path) - 1) :
        \A d \in Reached(SubSeq(path, 1, i)) : Kind[d] = "directory" => Len(Blocks[d]) = 1

\* Where directories have one block and the path exists, a walk from any state
\* of the cache finds the inode the disk has there; the only refusal is
\* EEXIST, to those who ask for a new file.
FindsWhatExists ==
    last # << >> /\ Reached(last.path) # {} /\ OneBlock(last.path) =>
        IF last.new /\ last.path # << >>
        THEN last.result = EEXIST
        ELSE last.result = 0 /\ Reached(last.path) = {dentry[last.at].ino}

\* A walk fails with ENOENT, or calls the create that is not there, only
\* behind something that is no directory: a name a directory does not have is
\* answered with the inode at number 2^32 - 2 instead.
NoEntryOnlyBehindFiles ==
    last # << >> /\ last.result \in {ENOENT, CREATE} =>
        \E d \in DOMAIN dentry : Kind[dentry[d].ino] # "directory"

\* What a walk finds is there, and what is there is found.
LookupAnswers == FindsWhatExists /\ NoEntryOnlyBehindFiles
=============================================================================
