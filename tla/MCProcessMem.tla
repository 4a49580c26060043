----------------------------- MODULE MCProcessMem -----------------------------
(* Two processes; pages of four bytes, a heap of two pages and a stack of  *)
(* one behind page 8.  The programs: none; one segment; two segments with an offset in *)
(* their pages; a segment that crosses a page end; two segments on one     *)
(* page, the second within it or beyond it; descending segments; a segment *)
(* that grows into the next one; a segment on page 0.  Breaks inside the   *)
(* first heap, at HEAP_USER_TOP, and one byte behind it.                   *)
EXTENDS ProcessMem

CONSTANT none

Seg(vaddr, memsz) == [vaddr |-> vaddr, memsz |-> memsz]
const_Image == {
    << >>,
    <<Seg(4, 6)>>,
    <<Seg(5, 3), Seg(14, 2)>>,
    <<Seg(6, 4)>>,
    <<Seg(4, 2), Seg(6, 2)>>,
    <<Seg(4, 2), Seg(6, 3)>>,
    <<Seg(8, 2), Seg(4, 2)>>,
    <<Seg(4, 4), Seg(8, 4), Seg(5, 6)>>,
    <<Seg(0, 4)>> }

const_Asked == {12, 27, 32, 33}
=============================================================================
