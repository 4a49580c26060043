----------------------------- MODULE MCScheduler -----------------------------
(* The boot thread, process 1 and four forked threads; slices of three      *)
(* ticks, so that a slice is counted, renewed and ended.                    *)
EXTENDS Scheduler

const_MaxTid == 5
const_Slice  == 3
=============================================================================
