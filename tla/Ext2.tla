-------------------------------- MODULE Ext2 --------------------------------
(***************************************************************************)
(* Reading a file in kernel/filesystem/ext2.c: ext2_fs_read with           *)
(* ext2_fs_bread_n_rec, one action per turn of their loops, and where         *)
(* ext2_fs_inode_get looks for an inode.  Lookups are in Dentries.         *)
(*                                                                         *)
(* A byte of a file is its offset, and a block of the disk is known by     *)
(* what an index block that is right says of it: <<0, k>> is the file's    *)
(* k-th block, <<l, k>> an index block of l levels whose first data block  *)
(* is the k-th.  Files have no holes.  The levels that the code has in     *)
(* constants fit blocks of 1024 bytes; the file system may have others.    *)
(***************************************************************************)
EXTENDS Integers, Sequences

CONSTANTS Direct,    \* EXT2_INO_UPPER_LEVEL0: 12
          Assumed,   \* entries per index block in the other levels' constants: 256
          Entries,   \* entries per index block of the file systems: 256, 512, 1024
          BlockSize, \* bytes of a block, for the reads
          MaxSize,   \* bound of the model: bytes of a file
          Counts,    \* what callers ask for
          Word,      \* 2^32, the range of a size_t
          Super,     \* super blocks, for the inodes
          MaxIno     \* bound of the model: inode numbers

Upper1 == Direct + Assumed                           \* EXT2_INO_UPPER_LEVEL1
Upper2 == Upper1 + Assumed * Assumed                 \* EXT2_INO_UPPER_LEVEL2
Upper3 == Upper2 + Assumed * Assumed * Assumed       \* EXT2_INO_UPPER_LEVEL3

\* ext2_super_block, with the sizes of inodes and descriptors in a block.
SuperBlock == {sb \in [blocksize : Nat \ {0}, first_data_block : Nat,
                       inode_size : Nat \ {0}, inodes_per_group : Nat \ {0}] :
                  sb.blocksize % 128 = 0}

ASSUME Ext2Assumption ==
    /\ Direct \in 1..12 /\ Assumed \in Nat \ {0} /\ BlockSize \in Nat \ {0}
    /\ Entries \subseteq Nat
    /\ \A e \in Entries : Assumed <= e /\ e < Assumed + Assumed * Assumed
    /\ MaxSize \in Nat /\ MaxSize <= Upper3 * BlockSize /\ Word \in Nat /\ MaxSize < Word
    /\ Counts \subseteq 0..(Word - 1)
    /\ Super \subseteq SuperBlock /\ MaxIno \in Nat

VARIABLES
    entries,   \* blocksize / 4
    size,      \* ext2_inode.i_size of the file
    pos,       \* vfs_file.pos
    phase,     \* "idle", "reading", "done", "wild": the count has wrapped
    count,     \* of the read, as the code limits it
    target_pos,
    calls,     \* the calls of ext2_fs_bread_n_rec, the innermost first:
               \* block, and the entry its loop is at
    copied,    \* what the read copied so far
    inode      \* where ext2_fs_inode_get read, if that was the last call
fileVars == <<entries, size, pos, phase, count, target_pos, calls, copied, inode>>
read == <<phase, count, target_pos, calls, copied>>

FileTypeOK ==
    /\ entries \in Entries
    /\ size \in 0..MaxSize /\ pos \in 0..size
    /\ phase \in {"idle", "reading", "done", "wild"}
    /\ count \in 0..(Word - 1)
    /\ target_pos % BlockSize = 0
    /\ \A c \in DOMAIN calls : calls[c].i \in 0..entries
    /\ copied \in Seq(Nat)

-----------------------------------------------------------------------------
\* i_block of a well-formed file: the block of the disk in every place
IBlock(i) ==
    CASE i = 12 -> <<1, Direct>>
      [] i = 13 -> <<2, Direct + entries>>
      [] i = 14 -> <<3, Direct + entries + entries * entries>>
      [] i < 12 -> <<0, i>>

\* The i-th entry of an index block.
Covered(level) == IF level = 0 THEN 1 ELSE IF level = 1 THEN entries ELSE entries * entries
Entry(block, i) == <<block[1] - 1, block[2] + i * Covered(block[1] - 1)>>

\* What the leaf of ext2_fs_bread_n_rec copies: the part of a block that the
\* read wants.
CopyFromStart(block) ==                              \* faulty: pos_start not added
    LET pos_start == IF pos > target_pos THEN pos - target_pos ELSE 0
        pos_end == IF pos + count < target_pos + BlockSize
                   THEN target_pos + BlockSize - pos - count ELSE 0
    IN  [i \in 1..(BlockSize - pos_start - pos_end) |-> block[2] * BlockSize + i - 1]
Copied(block) ==
    LET pos_start == IF pos > target_pos THEN pos - target_pos ELSE 0
        pos_end == IF pos + count < target_pos + BlockSize
                   THEN target_pos + BlockSize - pos - count ELSE 0
    IN  [i \in 1..(BlockSize - pos_start - pos_end) |-> block[2] * BlockSize + pos_start + i - 1]

\* Where target_pos goes behind a leaf.
Behind(target) == target + BlockSize

\* Which place of i_block a turn of ext2_fs_read's loop descends from; a block
\* behind the last level has none, and the turn changes nothing.
NoPlace == 15
PlaceFor(block) ==
    IF block < Direct THEN block
    ELSE IF block < Upper1 THEN 12
    ELSE IF block < Upper2 THEN 13 ELSE IF block < Upper3 THEN 14 ELSE NoPlace

-----------------------------------------------------------------------------
\* ext2_fs_read up to its loop.  The end of the read is computed in a size_t:
\* a count that passes it comes out enormous and the copy leaves the copied.
Limited(n) == LET end == (pos + n) % Word
              IN  ((IF end < size THEN end ELSE size) - pos) % Word

ReadStart(n) ==
    /\ phase = "idle"
    /\ count' = Limited(n)
    /\ phase' = IF pos + count' > size THEN "wild" ELSE "reading"
    /\ target_pos' = (pos \div BlockSize) * BlockSize
    /\ calls' = << >> /\ copied' = << >>
    /\ inode' = << >>
    /\ UNCHANGED <<entries, size, pos>>

Wanted == target_pos < pos + count

\* One turn of the loop of ext2_fs_read.
Descend ==
    /\ phase = "reading" /\ calls = << >> /\ Wanted
    /\ LET place == PlaceFor(target_pos \div BlockSize)
       IN  calls' = IF place = NoPlace THEN << >> ELSE <<[block |-> IBlock(place), i |-> 0]>>
    /\ UNCHANGED <<entries, size, pos, phase, count, target_pos, copied, inode>>

\* ext2_fs_bread_n_rec at a data block
Leaf ==
    /\ calls # << >> /\ Head(calls).block[1] = 0
    /\ copied' = copied \o Copied(Head(calls).block)
    /\ target_pos' = Behind(target_pos)
    /\ calls' = Tail(calls)
    /\ UNCHANGED <<entries, size, pos, phase, count, inode>>

\* ext2_fs_bread_n_rec at an index block: one turn of the loop over its
\* entries, from the first, or the return.
Index ==
    /\ calls # << >> /\ Head(calls).block[1] > 0
    /\ LET call == Head(calls)
       IN  calls' = IF Wanted /\ call.i < entries
                    THEN <<[block |-> Entry(call.block, call.i), i |-> 0],
                           [call EXCEPT !.i = @ + 1]>> \o Tail(calls)
                    ELSE Tail(calls)
    /\ UNCHANGED <<entries, size, pos, phase, count, target_pos, copied, inode>>

\* Behind the loop; the caller sees the copied.
ReadEnd ==
    /\ phase = "reading" /\ calls = << >> /\ ~Wanted
    /\ phase' = "done"
    /\ UNCHANGED <<entries, size, pos, count, target_pos, calls, copied, inode>>

\* file->pos is behind what was read, and the caller goes on.
Return ==
    /\ phase = "done"
    /\ pos' = pos + count
    /\ phase' = "idle"
    /\ count' = 0 /\ target_pos' = 0 /\ copied' = << >>
    /\ UNCHANGED calls
    /\ UNCHANGED <<entries, size, inode>>

\* ext2_fs_inode_get with ext2_fs_group_desc_get: the byte of the group's
\* descriptor and the byte of the inode in the group's table.  Descriptors
\* have 32 bytes; struct ext2_inode has 128, whatever s_inode_size says.
GroupDescAt(sb, group) ==
    LET perBlock == sb.blocksize \div 32
    IN  (sb.first_data_block + 1 + group \div perBlock) * sb.blocksize + (group % perBlock) * 32
Relative(sb, ino) == (ino - 1) % sb.inodes_per_group
InodeAt(sb, ino) ==
    LET perBlock == sb.blocksize \div sb.inode_size
        relative == Relative(sb, ino)
    IN  (relative \div perBlock) * sb.blocksize + (relative % perBlock) * 128

InodeGet ==
    /\ phase = "idle"
    /\ \E sb \in Super, ino \in 1..MaxIno :
           LET group == (ino - 1) \div sb.inodes_per_group
           IN  inode' = [sb |-> sb, ino |-> ino, desc |-> GroupDescAt(sb, group),
                         byte |-> InodeAt(sb, ino)]
    /\ UNCHANGED <<entries, size, pos, read>>

\* Nothing is modelled behind a copy that leaves its copied.
Wild == phase = "wild" /\ UNCHANGED fileVars

-----------------------------------------------------------------------------
FileInit ==
    /\ entries \in Entries
    /\ size \in 0..MaxSize
    /\ pos = 0
    /\ phase = "idle"
    /\ count = 0 /\ target_pos = 0 /\ calls = << >> /\ copied = << >>
    /\ inode = << >>

Loop == Descend \/ Leaf \/ Index \/ ReadEnd

FileNext == (\E n \in Counts : ReadStart(n)) \/ Loop \/ Return \/ InodeGet \/ Wild

\* A read that has begun goes on.
FileSpec == FileInit /\ [][FileNext]_fileVars /\ WF_fileVars(Loop)

-----------------------------------------------------------------------------
(* Properties                                                              *)

\* At no point has a read copied more than it was asked for, and in the end it
\* has copied exactly that, whatever the block it starts in.
NeverOverruns ==
    /\ phase = "reading" => Len(copied) <= count
    /\ phase = "done" => Len(copied) = count

\* The blocks a read may start in: the direct ones and the first of each
\* indirect range.  From any other, ext2_fs_bread_n_rec walks the index block
\* from its first entry, and the bytes are those of an earlier place.
InOrder(block) == block \in 0..Direct \cup {Direct + entries, Direct + entries + entries * entries}

\* A read that starts in such a block returns the bytes of the file from its
\* position on, across all levels of the index, and with every block size:
\* in particular the loader's reading of a whole file.
BytesExact ==
    phase = "done" /\ InOrder(pos \div BlockSize) =>
        copied = [i \in 1..count |-> pos + i - 1]

\* Every read ends.
ReadEnds == phase = "reading" ~> phase = "done"

\* With inodes of 128 bytes the inode table is read where the format has the
\* inode, and so is the descriptor of its group.
InodeExact ==
    inode # << >> /\ inode.sb.inode_size = 128 =>
        LET group == (inode.ino - 1) \div inode.sb.inodes_per_group
        IN  /\ inode.byte = (inode.ino - 1 - group * inode.sb.inodes_per_group) * 128
            /\ inode.desc = (inode.sb.first_data_block + 1) * inode.sb.blocksize + group * 32

\* The bytes, their number and the inode they are read by.
FilesAreRead == FileTypeOK /\ NeverOverruns /\ BytesExact /\ InodeExact
=============================================================================
