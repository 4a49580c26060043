------------------------------ MODULE MCVirtMem ------------------------------
(* Four pages in a slot, one slot for programs and two for the heap; two    *)
(* pages of a program, two directories besides the boot's.  A fork of two pages needs  *)
(* five pages behind the break, so that a window reaches the second slot    *)
(* of the heap from the first, and does not from its start.                 *)
EXTENDS VirtMem
=============================================================================
