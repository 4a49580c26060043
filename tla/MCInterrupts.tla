----------------------------- MODULE MCInterrupts -----------------------------
(* The boot and two threads, two interrupts on a stack: each thread can be  *)
(* preempted in the timer's interrupt, and interrupted again on the way     *)
(* back from it; the boot is interrupted from its first sched_unlock on.    *)
EXTENDS Interrupts
=============================================================================
