------------------------------- MODULE MCFiles -------------------------------
(* Process 1 with two descendants, tables of three slots of which two are   *)
(* searched, up to two files in them, on a regular file of one byte, a directory  *)
(* and a special file.                                                      *)
EXTENDS Files, TLC

CONSTANTS reg, dir, dev, missing

const_Inode == {reg, dir, dev}
const_Kind  == reg :> "regular" @@ dir :> "directory" @@ dev :> "special"
const_Size  == reg :> 1 @@ dir :> 1 @@ dev :> 0
=============================================================================
