------------------------------ MODULE Scheduler ------------------------------
(***************************************************************************)
(* The scheduler of kernel/task/scheduler.c with the interrupt path around *)
(* it (kernel/arch/x86/kernel/irq.c, irq_common.S, task/sched_switch.S):   *)
(* one processor, one kernel stack per thread, a timer interrupt that may  *)
(* come whenever the interrupt flag is set and the interrupt controller is *)
(* not still serving the previous one.                                     *)
(*                                                                         *)
(* An action is a stretch of kernel code that no timer interrupt can       *)
(* divide: the flag is clear, or IRQ0 is in service.  What a thread does   *)
(* next when it gets the processor is at[t]; parked[t] says that it stands *)
(* inside sched_schedule, behind the sched_switch that took the processor  *)
(* from it.                                                                *)
(*                                                                         *)
(* sched_list is the sequence that PList implements.  The insertion that   *)
(* fork makes outside the lock is one step here, with ticks before and     *)
(* after it; ForkRace looks inside it.                                     *)
(***************************************************************************)
EXTENDS PrioSeq

CONSTANTS MaxTid,    \* bound of the model: the last thread fork creates
          Slice      \* SCHED_TIME_SLICE, in ticks

\* With a slice of one tick the handler could find the slice over between a
\* switch and the sched_unlock that follows it.  The code's slice is 8.
ASSUME SchedulerAssumption ==
    /\ MaxTid \in Nat \ {0}
    /\ Slice \in Nat \ {0, 1}

Boot   == 0                  \* the thread that runs kernel_main
InitP  == 1                  \* pid 1 and its thread, /bin/system
Thread == 0..MaxTid

VARIABLES
    sched_thread,   \* the running thread
    sched_locks,    \* depth of sched_lock; the flag is set when it drops to 0
    sched_list,     \* the run queue
    sched_tid,      \* the next thread identifier (pids advance with it)
    state,          \* thread.state
    prio,           \* thread.list.prio
    time,           \* thread.time: ticks of the current slice
    child,          \* fork's local variable process, by its thread; 0 if none
    at,             \* where the thread continues
    parked,         \* "no", or how it came to give up the processor: "irq"
                    \* from the timer handler, "call" from a plain call
    iflag,          \* the interrupt flag of the processor
    in_service,     \* IRQ0 was accepted and pic_eoi has not been called
    halted          \* sys_panic's loop
vars == <<sched_thread, sched_locks, sched_list, sched_tid, state, prio, time,
          child, at, parked, iflag, in_service, halted>>

Places == {"unborn", "boot_load", "boot_schedule", "main",
           "entry",          \* sched_thread_entry, sched_unlock pending
           "user_entry",     \* sched_thread_user_entry, sched_unlock pending
           "loading",        \* sched_thread_entry in elf32_load
           "user",           \* user mode
           "fork_queue",     \* fork, between sched_unlock and sched_thread_queue
           "exit_schedule",  \* exit, between sched_unlock and sched_schedule
           "after_exit"}     \* syscall_exit has returned to user mode

TypeOK ==
    /\ sched_thread \in Thread
    /\ sched_locks \in Nat
    /\ sched_list \in Seq(Thread)
    /\ sched_tid \in 1..(MaxTid + 1)
    /\ state \in [Thread -> {"ready", "running", "terminated"}]
    /\ prio \in [Thread -> Int]
    /\ time \in [Thread -> Nat]
    /\ child \in [Thread -> Thread]
    /\ at \in [Thread -> Places]
    /\ parked \in [Thread -> {"no", "irq", "call"}]
    /\ iflag \in BOOLEAN /\ in_service \in BOOLEAN /\ halted \in BOOLEAN

-----------------------------------------------------------------------------
(* Helpers                                                                 *)

\* Thread t has still to run the sched_unlock that undoes the sched_lock of
\* the thread which switched to it.
PendingUnlock(t) == parked[t] # "no" \/ at[t] \in {"entry", "user_entry"}

\* The kernel code of t that runs next starts at p.
Runs(p) == ~halted /\ at[sched_thread] = p /\ parked[sched_thread] = "no"

\* sched_thread_update, for a state that differs: unqueue, then queue
QueuedTwice(q, pr, t) == Enqueue(q, pr, t)           \* faulty: no unqueue
Requeued(q, pr, t) == Enqueue(Dequeue(q, t), pr, t)

\* sched_lock, on the paths where the count outlives the action
LockUncounted == UNCHANGED sched_locks               \* faulty: cli alone
Lock == sched_locks' = sched_locks + 1

\* sched_schedule, once it has seen that the thread is not running, and
\* sched_thread_switch: the first thread of queue q gets the processor and is
\* queued again behind its equals.  A thread that chooses itself goes on; any
\* other choice leaves the caller parked, with the lock taken and, through
\* sched_switch's sti, the interrupt flag set.
\* (The idle loop in the middle of sched_schedule needs an empty queue.)
Schedule(q, pr, st, tm, how) ==
    /\ q # << >>
    /\ LET next == q[1]
           rest == Dequeue(q, next)
       IN  /\ sched_thread' = next
           /\ sched_list' = IF st[next] = "running" THEN rest ELSE Enqueue(rest, pr, next)
           /\ prio' = pr
           /\ state' = [st EXCEPT ![next] = "running"]
           /\ time' = [tm EXCEPT ![next] = 0]
           /\ IF next = sched_thread
              THEN UNCHANGED <<sched_locks, parked>>
              ELSE /\ Lock
                   /\ parked' = [parked EXCEPT ![sched_thread] = how]
           /\ iflag' = TRUE

\* The priority and the state the handler gives a thread whose slice is over.
AmongTheLast(pr, q) == pr[q[Len(q)]]                 \* faulty: + 1 forgotten
BehindAll(pr, q) == pr[q[Len(q)]] + 1

StillRunning(st, t) == st                            \* faulty: no THREAD_READY
Preempted(st, t) == [st EXCEPT ![t] = "ready"]

\* sched_unlock
UnlockNot == UNCHANGED <<sched_locks, iflag>>        \* faulty: the lock is kept
Unlock ==
    /\ sched_locks' = sched_locks - 1
    /\ iflag' = (iflag \/ sched_locks = 1)

\* sched_thread_create
Create(t) ==
    /\ sched_tid' = sched_tid + 1
    /\ state' = [state EXCEPT ![t] = "ready"]
    /\ prio' = [prio EXCEPT ![t] = 0]
    /\ time' = [time EXCEPT ![t] = 0]
    /\ parked' = [parked EXCEPT ![t] = "no"]

-----------------------------------------------------------------------------
\* sched_init has run: the boot thread exists, is ready, and is on no list.
Init ==
    /\ sched_thread = Boot
    /\ sched_locks = 0
    /\ sched_list = << >>
    /\ sched_tid = 1
    /\ state = [t \in Thread |-> "ready"]
    /\ prio = [t \in Thread |-> 0]
    /\ time = [t \in Thread |-> 0]
    /\ child = [t \in Thread |-> 0]
    /\ at = [t \in Thread |-> IF t = Boot THEN "boot_load" ELSE "unborn"]
    /\ parked = [t \in Thread |-> "no"]
    /\ iflag = TRUE
    /\ in_service = FALSE
    /\ halted = FALSE

\* kernel_main: sched_load("/bin/system").  It queues outside the lock, as
\* fork does, but sched_handler ignores the ticks of the boot thread.
BootLoad ==
    /\ Runs("boot_load")
    /\ Create(InitP)
    /\ at' = [at EXCEPT ![InitP] = "entry", ![Boot] = "boot_schedule"]
    /\ sched_list' = Enqueue(sched_list, prio', InitP)
    /\ UNCHANGED <<sched_thread, sched_locks, child, iflag, in_service, halted>>

\* kernel_main: sched_schedule()
BootSchedule ==
    /\ Runs("boot_schedule")
    /\ Schedule(sched_list, prio, state, time, "call")
    /\ at' = [at EXCEPT ![Boot] = "main"]
    /\ UNCHANGED <<sched_tid, child, in_service, halted>>

\* The first instruction of a new thread behind sched_switch: sched_unlock in
\* sched_thread_entry or sched_thread_user_entry.  Neither returns to
\* irq_handler, so an IRQ0 in service stays in service.
StartThread ==
    /\ ~halted
    /\ at[sched_thread] \in {"entry", "user_entry"}
    /\ parked[sched_thread] = "no"
    /\ Unlock
    /\ at' = [at EXCEPT ![sched_thread] = IF @ = "entry" THEN "loading" ELSE "user"]
    /\ UNCHANGED <<sched_thread, sched_list, sched_tid, state, prio, time, child,
                   parked, in_service, halted>>

\* A parked thread behind sched_switch: sched_schedule's last sched_unlock and
\* the return to its caller.  Only the timer handler's caller, irq_handler,
\* goes on to pic_eoi.
Resume ==
    /\ ~halted
    /\ parked[sched_thread] # "no"
    /\ Unlock
    /\ parked' = [parked EXCEPT ![sched_thread] = "no"]
    /\ in_service' = (in_service /\ parked[sched_thread] = "call")
    /\ UNCHANGED <<sched_thread, sched_list, sched_tid, state, prio, time, child,
                   at, halted>>

\* sched_thread_entry: elf32_load succeeds, sched_jump_usermode
Load ==
    /\ Runs("loading")
    /\ at' = [at EXCEPT ![sched_thread] = "user"]
    /\ UNCHANGED <<sched_thread, sched_locks, sched_list, sched_tid, state, prio,
                   time, child, parked, iflag, in_service, halted>>

\* sched_thread_entry: elf32_load fails.  The thread leaves the queue, then
\* the null layout is used: a page fault that nothing handles, sys_panic.
LoadFail ==
    /\ Runs("loading")
    /\ sched_list' = Dequeue(sched_list, sched_thread)
    /\ halted' = TRUE
    /\ iflag' = FALSE
    /\ UNCHANGED <<sched_thread, sched_locks, sched_tid, state, prio, time, child,
                   at, parked, in_service>>

\* syscall_fork up to sched_process_fork's last sched_unlock
Fork ==
    /\ Runs("user")
    /\ sched_tid \in Thread
    /\ Create(sched_tid)
    /\ child' = [child EXCEPT ![sched_thread] = sched_tid]
    /\ at' = [at EXCEPT ![sched_tid] = "user_entry", ![sched_thread] = "fork_queue"]
    /\ iflag' = (sched_locks = 0)
    /\ UNCHANGED <<sched_thread, sched_locks, sched_list, in_service, halted>>

\* sched_process_fork: sched_thread_queue(process->thread), with no lock
\* held and the interrupt flag set, and the return to user mode
ForkQueue ==
    /\ Runs("fork_queue")
    /\ sched_list' = Enqueue(sched_list, prio, child[sched_thread])
    /\ child' = [child EXCEPT ![sched_thread] = 0]
    /\ at' = [at EXCEPT ![sched_thread] = "user"]
    /\ UNCHANGED <<sched_thread, sched_locks, sched_tid, state, prio, time, parked,
                   iflag, in_service, halted>>

\* sched_exit up to its sched_unlock.  sched_thread_update queues the
\* terminated thread again.
Exit ==
    /\ Runs("user")
    /\ sched_thread # InitP
    /\ sched_list' = Requeued(sched_list, prio, sched_thread)
    /\ state' = [state EXCEPT ![sched_thread] = "terminated"]
    /\ at' = [at EXCEPT ![sched_thread] = "exit_schedule"]
    /\ iflag' = (sched_locks = 0)
    /\ UNCHANGED <<sched_thread, sched_locks, sched_tid, prio, time, child, parked,
                   in_service, halted>>

\* sched_exit of process 1: sys_panic
ExitInit ==
    /\ Runs("user")
    /\ sched_thread = InitP
    /\ Lock
    /\ halted' = TRUE
    /\ iflag' = FALSE
    /\ UNCHANGED <<sched_thread, sched_list, sched_tid, state, prio, time, child, at,
                   parked, in_service>>

\* sched_exit: sched_schedule().  If it ever returns, so does syscall_exit.
ExitSchedule ==
    /\ Runs("exit_schedule")
    /\ Schedule(sched_list, prio, state, time, "call")
    /\ at' = [at EXCEPT ![sched_thread] = "after_exit"]
    /\ UNCHANGED <<sched_tid, child, in_service, halted>>

\* A process that returned from exit runs on with its text and stack unmapped:
\* a page fault that nothing handles, sys_panic.
FaultAfterExit ==
    /\ Runs("after_exit")
    /\ halted' = TRUE
    /\ iflag' = FALSE
    /\ UNCHANGED <<sched_thread, sched_locks, sched_list, sched_tid, state, prio, time,
                   child, at, parked, in_service>>

\* sys_stop
Panicked == halted /\ UNCHANGED vars

-----------------------------------------------------------------------------
(* The timer interrupt: irq0, irq_handler, pit_handler, sched_handler,     *)
(* pic_eoi, iret.                                                          *)

\* A tick can be accepted.  Bound of the model: the two instructions between
\* sched_switch and sched_unlock see one tick at most, the timer's period
\* being many orders of magnitude longer.
TickAccepted ==
    /\ ~halted /\ iflag /\ ~in_service
    /\ PendingUnlock(sched_thread) => time[sched_thread] = 0

SliceOver == time[sched_thread] + 1 >= Slice /\ sched_list # << >>

\* The current thread is not running: sched_handler returns at once.
TickIgnored ==
    /\ TickAccepted
    /\ state[sched_thread] # "running"
    /\ UNCHANGED vars

\* A tick within the slice
TickUnacknowledged ==                                \* faulty: pic_eoi forgotten
    /\ TickAccepted
    /\ state[sched_thread] = "running"
    /\ ~SliceOver
    /\ time' = [time EXCEPT ![sched_thread] = @ + 1]
    /\ in_service' = TRUE
    /\ UNCHANGED <<sched_thread, sched_locks, sched_list, sched_tid, state, prio,
                   child, at, parked, iflag, halted>>

TickCounted ==
    /\ TickAccepted
    /\ state[sched_thread] = "running"
    /\ ~SliceOver
    /\ time' = [time EXCEPT ![sched_thread] = @ + 1]
    /\ UNCHANGED <<sched_thread, sched_locks, sched_list, sched_tid, state, prio,
                   child, at, parked, iflag, in_service, halted>>

\* The slice is over: the priorities start at 0 again, the thread goes behind
\* every other, and if no lock is held sched_schedule is called from inside
\* the handler.  pic_eoi follows only if that call returns here, that is, if
\* the thread chose itself.
TickSliceOver ==
    /\ TickAccepted
    /\ state[sched_thread] = "running"
    /\ SliceOver
    /\ LET lowered == Normalised(sched_list, prio)
           pr == [lowered EXCEPT ![sched_thread] = BehindAll(lowered, sched_list)]
           st == Preempted(state, sched_thread)
           tm == [time EXCEPT ![sched_thread] = @ + 1]
           q  == Requeued(sched_list, pr, sched_thread)
       IN  IF sched_locks = 0
           THEN /\ Schedule(q, pr, st, tm, "irq")
                /\ in_service' = (sched_thread' # sched_thread)
           ELSE /\ sched_list' = q /\ prio' = pr /\ state' = st /\ time' = tm
                /\ UNCHANGED <<sched_thread, sched_locks, parked, iflag, in_service>>
    /\ UNCHANGED <<sched_tid, child, at, halted>>

-----------------------------------------------------------------------------
Tick == TickIgnored \/ TickCounted \/ TickSliceOver

\* Kernel code the processor runs on with.
Kernel ==
    \/ BootLoad \/ BootSchedule \/ StartThread \/ Resume \/ Load \/ LoadFail
    \/ ForkQueue \/ ExitSchedule \/ FaultAfterExit

\* System calls a program may make.
Syscall == Fork \/ Exit \/ ExitInit

Next == Kernel \/ Syscall \/ Tick \/ Panicked

\* The processor does not stop in the kernel, and the timer goes on ticking.
\* Nothing obliges a program to make a system call.
Spec == Init /\ [][Next]_vars /\ WF_vars(Kernel) /\ WF_vars(Tick)

-----------------------------------------------------------------------------
(* Properties                                                              *)

\* The threads that sched_thread_queue has been called for.  A child is not
\* among them while its parent is between fork's unlock and the queueing.
Queued == {t \in 1..(sched_tid - 1) : \A p \in Thread : child[p] # t}

\* sched_list holds every created thread once, in priority order: no path
\* through update, pop, switch, fork and exit loses a thread or links it
\* twice.  (A failed load removes its own thread and panics.)
RunQueueSound ==
    ~halted => /\ Distinct(sched_list)
               /\ Sorted(sched_list, prio)
               /\ Members(sched_list) = Queued

\* The lock taken by the thread that leaves the processor is released by the
\* thread that gets it: the depth is 1 exactly until that sched_unlock, and
\* every thread that waits for the processor has one to run.
LockHandover ==
    ~halted => /\ sched_locks = IF PendingUnlock(sched_thread) THEN 1 ELSE 0
               /\ iflag
               /\ \A t \in 1..(sched_tid - 1) \ {sched_thread} : PendingUnlock(t)

\* Only the current thread is marked running, and it is, except on its way
\* out of sched_exit: otherwise sched_handler would ignore its ticks, or
\* sched_thread_update would skip the requeueing of a thread it dispatches.
RunningIsCurrent ==
    /\ \A t \in Thread : state[t] = "running" => t = sched_thread
    /\ sched_thread # Boot =>
          \/ state[sched_thread] = "running"
          \/ at[sched_thread] = "exit_schedule" /\ parked[sched_thread] = "no"

\* The first time slice that ends with another thread to run is also the last:
\* that thread has never run, so it starts behind sched_switch and not in
\* irq_handler, IRQ0 is never acknowledged, and no tick comes that could bring
\* the preempted process 1 back.
InitStranded ==
    \A t \in Thread :
        parked[t] = "irq" => t = InitP /\ t # sched_thread /\ in_service

\* A second thread in the queue gets process 1 off the processor.
FirstPreemption ==
    (sched_thread = InitP /\ Len(sched_list) > 1) ~> (sched_thread # InitP \/ halted)

\* exit(3) of libs/c does not expect syscall_exit to return.
ExitNeverReturns == at[sched_thread] = "after_exit" => parked[sched_thread] # "no"
=============================================================================
