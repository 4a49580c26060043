--------------------------- MODULE SchedulerProofs ---------------------------
(***************************************************************************)
(* The safety of Scheduler for every number of threads and every length of *)
(* the time slice: the run queue neither loses nor duplicates a thread,    *)
(* the lock is handed over exactly, only the current thread is running.    *)
(*                                                                         *)
(* And the safety of the list under it, for every number of nodes and      *)
(* every priority: the links of PList thread the ordered queue, and its    *)
(* operations are those of PrioQueue.                                      *)
(***************************************************************************)
EXTENDS Scheduler, PList, WellFoundedInduction, FiniteSetTheorems, TLAPS

\* A nonempty set of natural numbers has a least element.
LEMMA LeastNatural ==
    ASSUME NEW T, T \subseteq Nat, T # {}
    PROVE  \E x \in T : \A y \in T : x <= y
<1> DEFINE R == {ss \in Nat \X Nat : ss[1] < ss[2]}
<1>1. R = OpToRel(<, Nat)
    BY Zenon DEF OpToRel
<1>2. IsWellFoundedOn(R, Nat)
    BY <1>1, NatLessThanWellFounded, Zenon
<1> HIDE DEF R
<1>3. PICK x \in T : \A y \in T : ~(<<y, x>> \in R)
    BY <1>2, WFMin, Zenon
<1>4. \A a, b \in Nat : a < b => <<a, b>> \in R
    <2> TAKE a, b \in Nat
    <2> HAVE a < b
    <2>1. <<a, b>> \in Nat \X Nat /\ <<a, b>>[1] = a /\ <<a, b>>[2] = b
        OBVIOUS
    <2> QED BY <2>1, Zenon DEF R
<1>5. ASSUME NEW y \in T PROVE x <= y
    <2>1. x \in Nat /\ y \in Nat
        OBVIOUS
    <2>2. ~(y < x)
        BY <1>3, <1>4, <2>1, Zenon
    <2> QED BY <2>1, <2>2
<1> QED BY <1>5

-----------------------------------------------------------------------------
(* What the operators of PrioSeq return, for every queue and every priority *)

\* plist_add always finds a place, and only one.
LEMMA SlotExists ==
    ASSUME NEW S, NEW q \in Seq(S), NEW pr \in [S -> Int], NEW n \in S
    PROVE  \E k \in 1..(Len(q) + 1) : IsSlot(q, pr, n, k)
<1> DEFINE T == {k \in 1..Len(q) : pr[n] < pr[q[k]]}
<1>1. CASE T = {}
    <2>1. IsSlot(q, pr, n, Len(q) + 1)
        <3>1. \A i \in 1..Len(q) : q[i] \in S /\ pr[q[i]] \in Int
            OBVIOUS
        <3>2. \A i \in 1..Len(q) : pr[q[i]] <= pr[n]
            BY <1>1, <3>1
        <3> QED BY <3>2 DEF IsSlot
    <2> QED BY <2>1
<1>2. CASE T # {}
    <2> T \subseteq Nat
        OBVIOUS
    <2> HIDE DEF T
    <2>1. PICK k \in T : \A j \in T : k <= j
        BY <1>2, LeastNatural
    <2> USE DEF T
    <2>2. \A i \in 1..(k - 1) : q[i] \in S /\ pr[q[i]] \in Int /\ i \notin T
        BY <2>1
    <2>3. \A i \in 1..(k - 1) : pr[q[i]] <= pr[n]
        BY <2>2
    <2>4. k \in 1..(Len(q) + 1) /\ pr[n] < pr[q[k]]
        BY <2>1
    <2>5. IsSlot(q, pr, n, k)
        BY <2>3, <2>4 DEF IsSlot
    <2> QED BY <2>4, <2>5
<1> QED BY <1>1, <1>2

\* plist_add links the node it is given, once, and keeps the order.
LEMMA EnqueueFacts ==
    ASSUME NEW S, NEW q \in Seq(S), NEW pr \in [S -> Int], NEW n \in S,
           Distinct(q), n \notin Members(q)
    PROVE  /\ Enqueue(q, pr, n) \in Seq(S)
           /\ Enqueue(q, pr, n) # << >>
           /\ Distinct(Enqueue(q, pr, n))
           /\ Members(Enqueue(q, pr, n)) = Members(q) \cup {n}
           /\ Sorted(q, pr) => Sorted(Enqueue(q, pr, n), pr)
<1> DEFINE k == CHOOSE k \in 1..(Len(q) + 1) : IsSlot(q, pr, n, k)
           e == [i \in 1..(Len(q) + 1) |-> CASE i < k -> q[i]
                                             [] i = k -> n
                                             [] OTHER -> q[i - 1]]
<1>1. Enqueue(q, pr, n) = e
    BY DEF Enqueue
<1>2. k \in 1..(Len(q) + 1) /\ IsSlot(q, pr, n, k)
    BY SlotExists
<1> HIDE DEF k
<1>3. \A i \in 1..(Len(q) + 1) : /\ i < k => e[i] = q[i]
                                 /\ i = k => e[i] = n
                                 /\ i > k => e[i] = q[i - 1]
    BY <1>2
<1>4. e \in Seq(S) /\ Len(e) = Len(q) + 1
    <2>1. \A i \in 1..(Len(q) + 1) : e[i] \in S
        BY <1>2
    <2> QED BY <2>1
<1>5. \A i \in 1..Len(q) : q[i] # n /\ q[i] \in S
    BY DEF Members
<1> HIDE DEF e
<1> DEFINE src(a) == IF a < k THEN a ELSE a - 1
<1>6. ASSUME NEW a \in 1..Len(e), a # k PROVE src(a) \in 1..Len(q) /\ e[a] = q[src(a)]
    <2>1. a \in 1..(Len(q) + 1)
        BY <1>4
    <2>2. CASE a < k
        BY <1>2, <1>3, <2>1, <2>2
    <2>3. CASE a > k
        BY <1>2, <1>3, <2>1, <2>3
    <2> QED BY <1>2, <1>6, <2>1, <2>2, <2>3
<1>7. e # << >>
    BY <1>4
<1>8. Distinct(e)
    <2> SUFFICES ASSUME NEW i \in 1..Len(e), NEW j \in 1..Len(e), e[i] = e[j]
                 PROVE  i = j
        BY DEF Distinct
    <2>1. \A a, b \in 1..Len(q) : q[a] = q[b] => a = b
        BY DEF Distinct
    <2>2. CASE i # k /\ j # k
        <3>1. src(i) = src(j)
            BY <1>6, <2>1, <2>2
        <3> QED BY <1>2, <1>4, <2>2, <3>1
    <2>3. \A a \in 1..Len(e) : a # k => e[a] # n
        BY <1>5, <1>6
    <2>4. e[k] = n
        BY <1>2, <1>3
    <2> QED BY <2>2, <2>3, <2>4
<1>9. Members(e) = Members(q) \cup {n}
    <2>1. ASSUME NEW i \in 1..Len(e) PROVE e[i] \in Members(q) \cup {n}
        BY <1>2, <1>3, <1>4 DEF Members
    <2>2. ASSUME NEW i \in 1..Len(q) PROVE q[i] \in Members(e)
        <3>1. CASE i < k
            <4>1. i \in 1..Len(e) /\ e[i] = q[i]
                BY <1>2, <1>3, <1>4, <3>1
            <4> QED BY <4>1 DEF Members
        <3>2. CASE i >= k
            <4>1. i + 1 \in 1..Len(e) /\ e[i + 1] = q[i]
                <5>1. i + 1 \in 1..(Len(q) + 1) /\ i + 1 > k /\ (i + 1) - 1 = i
                    BY <1>2, <3>2
                <5> QED BY <1>3, <1>4, <5>1
            <4> QED BY <4>1 DEF Members
        <3> QED BY <1>2, <3>1, <3>2
    <2>3. n \in Members(e)
        <3>1. k \in 1..Len(e) /\ e[k] = n
            BY <1>2, <1>3, <1>4
        <3> QED BY <3>1 DEF Members
    <2> QED BY <2>1, <2>2, <2>3 DEF Members
<1>10. ASSUME Sorted(q, pr) PROVE Sorted(e, pr)
    <2> SUFFICES ASSUME NEW i \in 1..Len(e), NEW j \in 1..Len(e), i < j
                 PROVE  pr[e[i]] <= pr[e[j]]
        BY DEF Sorted
    <2>1. \A a, b \in 1..Len(q) : a < b => pr[q[a]] <= pr[q[b]]
        BY <1>10 DEF Sorted
    <2>2. \A a \in 1..Len(q) : pr[q[a]] \in Int
        OBVIOUS
    <2>3. \A a \in 1..(k - 1) : pr[q[a]] <= pr[n]
        BY <1>2 DEF IsSlot
    <2>4. \A a \in k..Len(q) : pr[n] <= pr[q[a]]
        <3>1. k <= Len(q) => pr[n] < pr[q[k]]
            BY <1>2 DEF IsSlot
        <3>2. ASSUME NEW a \in k..Len(q), a # k PROVE pr[q[k]] <= pr[q[a]]
            <4>1. k \in 1..Len(q) /\ a \in 1..Len(q) /\ k < a
                BY <1>2, <3>2
            <4> QED BY <2>1, <4>1, Zenon
        <3>3. ASSUME NEW a \in k..Len(q) PROVE pr[n] <= pr[q[a]]
            <4>1. k \in 1..Len(q) /\ a \in 1..Len(q) /\ k <= Len(q)
                BY <1>2
            <4>2. pr[n] \in Int /\ pr[q[k]] \in Int /\ pr[q[a]] \in Int
                BY <2>2, <4>1
            <4> QED BY <3>1, <3>2, <4>1, <4>2
        <3> QED BY <3>3
    <2>5. e[k] = n
        BY <1>2, <1>3
    <2>6. CASE i = k
        <3>1. src(j) \in k..Len(q) /\ e[j] = q[src(j)]
            BY <1>2, <1>6, <2>6
        <3> QED BY <2>4, <2>5, <2>6, <3>1
    <2>7. CASE j = k
        <3>1. src(i) \in 1..(k - 1) /\ e[i] = q[src(i)]
            BY <1>2, <1>6, <2>7
        <3> QED BY <2>3, <2>5, <2>7, <3>1
    <2>8. CASE i # k /\ j # k
        <3>1. src(i) < src(j)
            <4>1. i \in Int /\ j \in Int /\ k \in Int
                BY <1>2, <1>4
            <4> QED BY <2>8, <4>1
        <3> QED BY <1>6, <2>1, <2>8, <3>1
    <2> QED BY <2>6, <2>7, <2>8
<1> QED BY <1>1, <1>4, <1>7, <1>8, <1>9, <1>10

\* plist_remove takes the node it is given off the list and keeps the order.
LEMMA DequeueFacts ==
    ASSUME NEW S, NEW q \in Seq(S), NEW n, Distinct(q)
    PROVE  /\ Dequeue(q, n) \in Seq(S)
           /\ Distinct(Dequeue(q, n))
           /\ Members(Dequeue(q, n)) = Members(q) \ {n}
           /\ \A pr \in [S -> Int] : Sorted(q, pr) => Sorted(Dequeue(q, n), pr)
<1>1. CASE n \notin Members(q)
    BY <1>1 DEF Dequeue
<1>2. CASE n \in Members(q)
    <2> DEFINE k == CHOOSE k \in 1..Len(q) : q[k] = n
               d == [i \in 1..(Len(q) - 1) |-> IF i < k THEN q[i] ELSE q[i + 1]]
    <2>1. Dequeue(q, n) = d
        BY <1>2 DEF Dequeue
    <2>2. k \in 1..Len(q) /\ q[k] = n
        BY <1>2 DEF Members
    <2> HIDE DEF k
    <2>3. \A i \in 1..(Len(q) - 1) : /\ i < k => d[i] = q[i]
                                     /\ i >= k => d[i] = q[i + 1]
        BY <2>2
    <2>4. d \in Seq(S) /\ Len(d) = Len(q) - 1
        BY <2>2
    <2>5. \A i, j \in 1..Len(q) : q[i] = q[j] => i = j
        BY DEF Distinct
    <2> HIDE DEF d
    <2>6. Distinct(d)
        BY <2>2, <2>3, <2>4, <2>5 DEF Distinct
    <2>7. Members(d) = Members(q) \ {n}
        <3>1. ASSUME NEW i \in 1..Len(d) PROVE d[i] \in Members(q) \ {n}
            <4>1. i \in 1..(Len(q) - 1) /\ i \in 1..Len(q) /\ i + 1 \in 1..Len(q)
                BY <2>4
            <4>2. CASE i < k
                <5>1. d[i] = q[i] /\ i # k
                    BY <2>2, <2>3, <4>1, <4>2
                <5> QED BY <2>2, <2>5, <4>1, <5>1 DEF Members
            <4>3. CASE i >= k
                <5>1. d[i] = q[i + 1] /\ i + 1 # k
                    BY <2>2, <2>3, <4>1, <4>3
                <5> QED BY <2>2, <2>5, <4>1, <5>1 DEF Members
            <4> QED BY <2>2, <4>1, <4>2, <4>3
        <3>2. ASSUME NEW i \in 1..Len(q), q[i] # n PROVE q[i] \in Members(d)
            <4>1. CASE i < k
                <5>1. i \in 1..Len(d) /\ d[i] = q[i]
                    BY <2>2, <2>3, <2>4, <4>1
                <5> QED BY <5>1 DEF Members
            <4>2. CASE i > k
                <5>1. i - 1 \in 1..Len(d) /\ d[i - 1] = q[i]
                    BY <2>2, <2>3, <2>4, <4>2
                <5> QED BY <5>1 DEF Members
            <4> QED BY <2>2, <3>2, <4>1, <4>2
        <3> QED BY <3>1, <3>2 DEF Members
    <2>8. ASSUME NEW pr \in [S -> Int], Sorted(q, pr) PROVE Sorted(d, pr)
        <3> SUFFICES ASSUME NEW i \in 1..Len(d), NEW j \in 1..Len(d), i < j
                     PROVE  pr[d[i]] <= pr[d[j]]
            BY DEF Sorted
        <3> DEFINE src(a) == IF a < k THEN a ELSE a + 1
        <3>1. \A a, b \in 1..Len(q) : a < b => pr[q[a]] <= pr[q[b]]
            BY <2>8 DEF Sorted
        <3>2. ASSUME NEW a \in 1..Len(d)
              PROVE  src(a) \in 1..Len(q) /\ d[a] = q[src(a)]
            <4>1. a \in 1..(Len(q) - 1)
                BY <2>4
            <4>2. src(a) \in 1..Len(q)
                BY <2>2, <4>1
            <4>3. d[a] = q[src(a)]
                BY <2>2, <2>3, <4>1
            <4> QED BY <4>2, <4>3
        <3>3. src(i) < src(j)
            <4>1. i \in Int /\ j \in Int /\ k \in Int
                BY <2>2, <2>4
            <4> QED BY <4>1
        <3> QED BY <3>1, <3>2, <3>3
    <2> QED BY <2>1, <2>4, <2>6, <2>7, <2>8
<1> QED BY <1>1, <1>2

\* Priorities of nodes that are not on the list do not matter to its order.
LEMMA SortedAgree ==
    ASSUME NEW q, NEW pr, NEW pr2, Sorted(q, pr),
           \A n \in Members(q) : pr2[n] = pr[n]
    PROVE  Sorted(q, pr2)
BY DEF Sorted, Members

\* Lowering every priority on the list by the same amount keeps its order.
LEMMA NormalisedFacts ==
    ASSUME NEW S, NEW q \in Seq(S), NEW pr \in [S -> Int], Sorted(q, pr)
    PROVE  /\ Normalised(q, pr) \in [S -> Int]
           /\ Sorted(q, Normalised(q, pr))
<1> DEFINE lo == Normalised(q, pr)
<1>1. CASE q = << >>
    BY <1>1 DEF Normalised, Members, Sorted
<1>2. CASE q # << >>
    <2>1. \A i \in 1..Len(q) : q[i] \in S /\ q[i] \in Members(q)
        BY DEF Members
    <2>2. q[1] \in S /\ pr[q[1]] \in Int
        BY <1>2
    <2>3. lo \in [S -> Int]
        BY <2>2 DEF Normalised
    <2>4. \A i \in 1..Len(q) : lo[q[i]] = pr[q[i]] - pr[q[1]]
        BY <2>1 DEF Normalised
    <2>5. Sorted(q, lo)
        BY <2>1, <2>2, <2>4 DEF Sorted
    <2> QED BY <2>3, <2>5
<1> QED BY <1>1, <1>2

-----------------------------------------------------------------------------
(* The inductive invariant                                                 *)

KernelPlaces == {"boot_load", "boot_schedule", "main"}
FirstSteps   == {"entry", "user_entry"}

\* The boot thread goes through kernel_main once, gives up the processor for
\* good, and is never queued.
BootInv ==
    /\ at[Boot] \in KernelPlaces
    /\ \A t \in Thread \ {Boot} : at[t] \notin KernelPlaces
    /\ sched_thread = Boot <=> at[Boot] # "main"
    /\ parked[Boot] = IF at[Boot] = "main" THEN "call" ELSE "no"
    /\ state[Boot] = "ready"
    /\ at[Boot] = "boot_load" <=> sched_tid = 1

\* Threads that have not been created hold no state.
UnbornInv ==
    \A t \in Thread : t >= sched_tid => at[t] = "unborn" /\ parked[t] = "no"

\* A child that is not queued yet belongs to the one fork that made it.
ForkInv ==
    \A p \in Thread :
        /\ child[p] < sched_tid
        /\ child[p] # 0 <=> at[p] = "fork_queue"
        /\ child[p] # 0 => \A r \in Thread : child[r] = child[p] => r = p

\* A thread between sched_exit's unlock and its sched_schedule has the
\* processor: the ticks that come are ignored.
ExitInv ==
    \A t \in Thread : at[t] = "exit_schedule" =>
        t = sched_thread /\ parked[t] = "no" /\ state[t] = "terminated"

\* The current thread is a created thread that the queue knows.
CurrentInv ==
    /\ sched_thread < sched_tid
    /\ sched_thread # Boot => sched_thread \in Queued

\* A parked thread has been past its first step.
ParkedInv ==
    \A t \in Thread : at[t] \in FirstSteps => parked[t] = "no"

IInv ==
    /\ TypeOK
    /\ BootInv /\ UnbornInv /\ ForkInv /\ ExitInv /\ CurrentInv /\ ParkedInv
    /\ RunQueueSound /\ LockHandover /\ RunningIsCurrent

-----------------------------------------------------------------------------
\* Requeueing a thread of the queue, as sched_thread_update does, keeps the
\* threads and puts the queue in the order of the new priorities.
LEMMA RequeuedFacts ==
    ASSUME NEW q \in Seq(Thread), NEW t \in Thread, t \in Members(q), Distinct(q),
           NEW pr \in [Thread -> Int], NEW pr2 \in [Thread -> Int], Sorted(q, pr),
           \A u \in Thread \ {t} : pr2[u] = pr[u]
    PROVE  /\ Requeued(q, pr2, t) \in Seq(Thread)
           /\ Distinct(Requeued(q, pr2, t))
           /\ Sorted(Requeued(q, pr2, t), pr2)
           /\ Members(Requeued(q, pr2, t)) = Members(q)
<1> DEFINE rest == Dequeue(q, t)
<1>1. rest \in Seq(Thread) /\ Distinct(rest) /\ Sorted(rest, pr)
    BY DequeueFacts
<1>2. Members(rest) = Members(q) \ {t}
    BY DequeueFacts
<1>3. Requeued(q, pr2, t) = Enqueue(rest, pr2, t)
    BY DEF Requeued
<1> HIDE DEF rest
<1>4. Members(rest) \subseteq Thread
    <2>1. \A i \in 1..Len(rest) : rest[i] \in Thread
        BY <1>1
    <2> QED
        BY <2>1, Zenon DEF Members
<1>5. \A u \in Members(rest) : pr2[u] = pr[u]
    BY <1>2, <1>4
<1>6. Sorted(rest, pr2)
    BY <1>1, <1>5, SortedAgree
<1>7. t \notin Members(rest)
    BY <1>2
<1>8. /\ Enqueue(rest, pr2, t) \in Seq(Thread)
      /\ Distinct(Enqueue(rest, pr2, t))
      /\ Members(Enqueue(rest, pr2, t)) = Members(rest) \cup {t}
      /\ Sorted(Enqueue(rest, pr2, t), pr2)
    BY <1>1, <1>6, <1>7, EnqueueFacts
<1>9. Members(Enqueue(rest, pr2, t)) = Members(q)
    BY <1>2, <1>8
<1> QED
    BY <1>3, <1>8, <1>9

\* What sched_schedule does for a caller that holds no lock and a queue in
\* which every thread is ready: the queue keeps its threads and its order, and
\* the thread that gets the processor is one of them.
LEMMA ScheduleFacts ==
    ASSUME NEW q \in Seq(Thread), NEW pr \in [Thread -> Int],
           NEW st \in [Thread -> {"ready", "running", "terminated"}],
           NEW tm \in [Thread -> Nat], NEW how \in {"irq", "call"},
           sched_locks = 0, Distinct(q), Sorted(q, pr),
           \A t \in Thread : st[t] # "running",
           Schedule(q, pr, st, tm, how)
    PROVE  /\ q # << >> /\ sched_thread' = q[1]
           /\ sched_thread' \in Members(q) /\ sched_thread' \in Thread
           /\ sched_list' \in Seq(Thread)
           /\ Distinct(sched_list') /\ Sorted(sched_list', pr)
           /\ Members(sched_list') = Members(q)
           /\ prio' = pr
           /\ state' = [st EXCEPT ![sched_thread'] = "running"]
           /\ time' \in [Thread -> Nat]
           /\ iflag' = TRUE
           /\ sched_thread' = sched_thread => sched_locks' = 0 /\ parked' = parked
           /\ sched_thread' # sched_thread =>
                /\ sched_locks' = 1
                /\ parked' = [parked EXCEPT ![sched_thread] = how]
<1> DEFINE next == q[1]
           rest == Dequeue(q, next)
<1>1. q # << >>
    BY DEF Schedule
<1>2. next \in Members(q) /\ next \in Thread
    <2>1. 1 \in 1..Len(q)
        BY <1>1
    <2> QED
        BY <2>1 DEF Members
<1>3. /\ sched_thread' = next
      /\ sched_list' = IF st[next] = "running" THEN rest ELSE Enqueue(rest, pr, next)
      /\ prio' = pr
      /\ state' = [st EXCEPT ![next] = "running"]
      /\ time' = [tm EXCEPT ![next] = 0]
      /\ iflag' = TRUE
      /\ IF next = sched_thread
         THEN UNCHANGED <<sched_locks, parked>>
         ELSE Lock /\ parked' = [parked EXCEPT ![sched_thread] = how]
    BY DEF Schedule
<1>4. sched_list' = Requeued(q, pr, next)
    BY <1>2, <1>3 DEF Requeued
<1> HIDE DEF next
<1>5. /\ sched_list' \in Seq(Thread)
      /\ Distinct(sched_list')
      /\ Sorted(sched_list', pr)
      /\ Members(sched_list') = Members(q)
    BY <1>2, <1>4, RequeuedFacts
<1>6. time' \in [Thread -> Nat]
    BY <1>3, <1>2
<1>7. sched_thread' = q[1]
    BY <1>3 DEF next
<1> QED
    BY <1>1, <1>2, <1>3, <1>5, <1>6, <1>7 DEF Lock

\* sched_thread_queue of a thread that is not queued.
LEMMA QueueThread ==
    ASSUME NEW q \in Seq(Thread), NEW t \in Thread, t \notin Members(q), Distinct(q),
           NEW pr \in [Thread -> Int], Sorted(q, pr)
    PROVE  /\ Enqueue(q, pr, t) \in Seq(Thread)
           /\ Distinct(Enqueue(q, pr, t))
           /\ Members(Enqueue(q, pr, t)) = Members(q) \cup {t}
           /\ Sorted(Enqueue(q, pr, t), pr)
BY EnqueueFacts

\* sched_init leaves a state that satisfies IInv.
LEMMA Initial == Init => IInv
<1> SUFFICES ASSUME Init PROVE IInv
    OBVIOUS
<1> USE SchedulerAssumption DEF Init
<1>1. Boot \in Thread /\ 0 \in Thread /\ Thread \subseteq Nat
    BY DEF Thread, Boot
<1>2. TypeOK
    <2>1. sched_tid \in 1..(MaxTid + 1) /\ sched_list \in Seq(Thread)
        OBVIOUS
    <2>2. /\ state \in [Thread -> {"ready", "running", "terminated"}]
          /\ prio \in [Thread -> Int] /\ time \in [Thread -> Nat]
          /\ child \in [Thread -> Thread] /\ parked \in [Thread -> {"no", "irq", "call"}]
        BY <1>1
    <2>3. at \in [Thread -> Places]
        BY DEF Places
    <2> QED
        BY <1>1, <2>1, <2>2, <2>3 DEF TypeOK
<1>3. BootInv
    BY <1>1 DEF BootInv, KernelPlaces
<1>4. UnbornInv /\ ExitInv /\ ParkedInv
    BY <1>1 DEF UnbornInv, ExitInv, ParkedInv, Boot, FirstSteps
<1>5. ForkInv
    BY <1>1 DEF ForkInv
<1>6. 1..(sched_tid - 1) = {}
    OBVIOUS
<1>7. CurrentInv
    BY DEF CurrentInv, Boot
<1>8. RunQueueSound
    <2>1. 1..Len(sched_list) = {}
        OBVIOUS
    <2> QED
        BY <1>6, <2>1 DEF RunQueueSound, Queued, Distinct, Sorted, Members
<1>9. LockHandover
    BY <1>1, <1>6 DEF LockHandover, PendingUnlock
<1>10. RunningIsCurrent
    BY <1>1 DEF RunningIsCurrent
<1> QED
    BY <1>2, <1>3, <1>4, <1>5, <1>7, <1>8, <1>9, <1>10 DEF IInv

\* The threads the queue should hold change only with the creation of a thread
\* and with the queueing of a child.
LEMMA QueuedUnchanged == UNCHANGED <<sched_tid, child>> => Queued' = Queued
BY DEF Queued

\* An action that touches neither queue nor priorities keeps the queue sound.
LEMMA QueueUnchanged ==
    ASSUME RunQueueSound, UNCHANGED <<sched_list, prio, sched_tid, child>>,
           halted => halted'
    PROVE  RunQueueSound'
BY QueuedUnchanged DEF RunQueueSound

\* What holds of the constants and of the current thread in every state.
LEMMA CurrentFacts ==
    ASSUME IInv
    PROVE  /\ Boot \in Thread /\ InitP \in Thread /\ Boot # InitP /\ Thread \subseteq Nat
           /\ sched_thread \in Thread /\ sched_tid \in Nat /\ sched_tid <= MaxTid + 1
           /\ at[sched_thread] \notin KernelPlaces => sched_thread # Boot
           /\ state[sched_thread] = "running" => sched_thread # Boot
           /\ Queued \subseteq Thread /\ Boot \notin Queued
           /\ ~halted => /\ Members(sched_list) = Queued
                         /\ sched_locks = IF PendingUnlock(sched_thread) THEN 1 ELSE 0
<1>1. /\ Boot \in Thread /\ InitP \in Thread /\ Boot # InitP /\ Thread \subseteq Nat
      /\ sched_thread \in Thread /\ sched_tid \in Nat /\ sched_tid <= MaxTid + 1
    BY SchedulerAssumption DEF IInv, TypeOK, Thread, Boot, InitP
<1>2. Queued \subseteq Thread /\ Boot \notin Queued
    <2>1. ASSUME NEW t \in Queued PROVE t \in 1..(sched_tid - 1)
        BY <2>1 DEF Queued
    <2>2. 1..(sched_tid - 1) \subseteq Thread /\ Boot \notin 1..(sched_tid - 1)
        BY <1>1, SchedulerAssumption DEF Thread, Boot
    <2> QED
        BY <2>1, <2>2
<1> QED
    BY <1>1, <1>2 DEF IInv, BootInv, RunQueueSound, LockHandover

\* The first sched_unlock of a new thread keeps IInv.
LEMMA StartThreadStep == IInv /\ StartThread => IInv'
<1> SUFFICES ASSUME IInv, StartThread PROVE IInv'
    OBVIOUS
<1> USE CurrentFacts DEF StartThread
<1>0. sched_locks = 1 /\ sched_locks' = 0 /\ iflag' = TRUE
    <2>1. sched_locks = 1
        BY DEF PendingUnlock
    <2>2. sched_locks' = 0
        BY <2>1 DEF Unlock
    <2>3. iflag' = TRUE
        BY <2>1 DEF Unlock
    <2> QED
        BY <2>1, <2>2, <2>3
<1>1. TypeOK'
    BY <1>0 DEF IInv, TypeOK, Places
<1>2. BootInv'
    BY DEF IInv, TypeOK, BootInv, KernelPlaces
<1>3. UnbornInv'
    BY DEF IInv, TypeOK, UnbornInv, CurrentInv
<1>4. ForkInv'
    BY DEF IInv, TypeOK, ForkInv
<1>5. ExitInv'
    BY DEF IInv, TypeOK, ExitInv
<1>6. CurrentInv'
    BY QueuedUnchanged DEF IInv, CurrentInv
<1>7. ParkedInv'
    BY DEF IInv, TypeOK, ParkedInv, FirstSteps
<1>8. RunQueueSound'
    BY QueueUnchanged DEF IInv
<1>9. LockHandover'
    BY <1>0 DEF IInv, TypeOK, LockHandover, PendingUnlock, ParkedInv, FirstSteps
<1>10. RunningIsCurrent'
    BY DEF IInv, TypeOK, RunningIsCurrent
<1> QED
    BY <1>1, <1>2, <1>3, <1>4, <1>5, <1>6, <1>7, <1>8, <1>9, <1>10 DEF IInv

\* The sched_unlock behind sched_switch, and the return, keep IInv.
LEMMA ResumeStep == IInv /\ Resume => IInv'
<1> SUFFICES ASSUME IInv, Resume PROVE IInv'
    OBVIOUS
<1> USE CurrentFacts DEF Resume
<1>0. sched_locks = 1 /\ sched_locks' = 0 /\ iflag' = TRUE
    <2>1. sched_locks = 1
        BY DEF PendingUnlock
    <2>2. sched_locks' = 0
        BY <2>1 DEF Unlock
    <2>3. iflag' = TRUE
        BY <2>1 DEF Unlock
    <2> QED
        BY <2>1, <2>2, <2>3
<1>1. TypeOK'
    BY <1>0 DEF IInv, TypeOK, Places
<1>2. BootInv'
    BY DEF IInv, TypeOK, BootInv, KernelPlaces
<1>3. UnbornInv'
    BY DEF IInv, TypeOK, UnbornInv, CurrentInv
<1>4. ForkInv'
    BY DEF IInv, TypeOK, ForkInv
<1>5. ExitInv'
    BY DEF IInv, TypeOK, ExitInv
<1>6. CurrentInv'
    BY QueuedUnchanged DEF IInv, CurrentInv
<1>7. ParkedInv'
    BY DEF IInv, TypeOK, ParkedInv, FirstSteps
<1>8. RunQueueSound'
    BY QueueUnchanged DEF IInv
<1>9. LockHandover'
    BY <1>0 DEF IInv, TypeOK, LockHandover, PendingUnlock, ParkedInv, FirstSteps
<1>10. RunningIsCurrent'
    BY DEF IInv, TypeOK, RunningIsCurrent
<1> QED
    BY <1>1, <1>2, <1>3, <1>4, <1>5, <1>6, <1>7, <1>8, <1>9, <1>10 DEF IInv

\* A successful elf32_load keeps IInv.
LEMMA LoadStep == IInv /\ Load => IInv'
<1> SUFFICES ASSUME IInv, Load PROVE IInv'
    OBVIOUS
<1> USE CurrentFacts DEF Load, Runs
<1>1. TypeOK'
    BY DEF IInv, TypeOK, Places
<1>2. BootInv'
    BY DEF IInv, TypeOK, BootInv, KernelPlaces
<1>3. UnbornInv'
    BY DEF IInv, TypeOK, UnbornInv, CurrentInv
<1>4. ForkInv'
    BY DEF IInv, TypeOK, ForkInv
<1>5. ExitInv'
    BY DEF IInv, TypeOK, ExitInv
<1>6. CurrentInv'
    BY QueuedUnchanged DEF IInv, CurrentInv
<1>7. ParkedInv'
    BY DEF IInv, TypeOK, ParkedInv, FirstSteps
<1>8. RunQueueSound'
    BY QueueUnchanged DEF IInv
<1>9. LockHandover'
    BY DEF IInv, TypeOK, LockHandover, PendingUnlock, ParkedInv, FirstSteps
<1>10. RunningIsCurrent'
    BY DEF IInv, TypeOK, RunningIsCurrent
<1> QED
    BY <1>1, <1>2, <1>3, <1>4, <1>5, <1>6, <1>7, <1>8, <1>9, <1>10 DEF IInv

\* The panic of a thread that returned from exit keeps IInv.
LEMMA FaultAfterExitStep == IInv /\ FaultAfterExit => IInv'
<1> SUFFICES ASSUME IInv, FaultAfterExit PROVE IInv'
    OBVIOUS
<1> USE CurrentFacts DEF FaultAfterExit, Runs
<1>1. TypeOK'
    BY DEF IInv, TypeOK, Places
<1>2. BootInv'
    BY DEF IInv, TypeOK, BootInv, KernelPlaces
<1>3. UnbornInv'
    BY DEF IInv, TypeOK, UnbornInv, CurrentInv
<1>4. ForkInv'
    BY DEF IInv, TypeOK, ForkInv
<1>5. ExitInv'
    BY DEF IInv, TypeOK, ExitInv
<1>6. CurrentInv'
    BY QueuedUnchanged DEF IInv, CurrentInv
<1>7. ParkedInv'
    BY DEF IInv, TypeOK, ParkedInv, FirstSteps
<1>8. RunQueueSound'
    BY QueueUnchanged DEF IInv
<1>9. LockHandover'
    BY DEF IInv, TypeOK, LockHandover, PendingUnlock, ParkedInv, FirstSteps
<1>10. RunningIsCurrent'
    BY DEF IInv, TypeOK, RunningIsCurrent
<1> QED
    BY <1>1, <1>2, <1>3, <1>4, <1>5, <1>6, <1>7, <1>8, <1>9, <1>10 DEF IInv

\* A tick within the slice keeps IInv.
LEMMA TickCountedStep == IInv /\ TickCounted => IInv'
<1> SUFFICES ASSUME IInv, TickCounted PROVE IInv'
    OBVIOUS
<1> USE CurrentFacts DEF TickCounted, TickAccepted
<1>1. TypeOK'
    BY DEF IInv, TypeOK, Places
<1>2. BootInv'
    BY DEF IInv, TypeOK, BootInv, KernelPlaces
<1>3. UnbornInv'
    BY DEF IInv, TypeOK, UnbornInv, CurrentInv
<1>4. ForkInv'
    BY DEF IInv, TypeOK, ForkInv
<1>5. ExitInv'
    BY DEF IInv, TypeOK, ExitInv
<1>6. CurrentInv'
    BY QueuedUnchanged DEF IInv, CurrentInv
<1>7. ParkedInv'
    BY DEF IInv, TypeOK, ParkedInv, FirstSteps
<1>8. RunQueueSound'
    BY QueueUnchanged DEF IInv
<1>9. LockHandover'
    BY DEF IInv, TypeOK, LockHandover, PendingUnlock, ParkedInv, FirstSteps
<1>10. RunningIsCurrent'
    BY DEF IInv, TypeOK, RunningIsCurrent
<1> QED
    BY <1>1, <1>2, <1>3, <1>4, <1>5, <1>6, <1>7, <1>8, <1>9, <1>10 DEF IInv

\* The panic of process 1 in sched_exit keeps IInv.
LEMMA ExitInitStep == IInv /\ ExitInit => IInv'
<1> SUFFICES ASSUME IInv, ExitInit PROVE IInv'
    OBVIOUS
<1> USE CurrentFacts DEF ExitInit, Runs
<1>0. sched_locks' \in Nat
    BY DEF Lock, IInv, TypeOK
<1>1. TypeOK'
    BY <1>0 DEF IInv, TypeOK, Places
<1>2. BootInv'
    BY DEF IInv, TypeOK, BootInv, KernelPlaces
<1>3. UnbornInv'
    BY DEF IInv, TypeOK, UnbornInv, CurrentInv
<1>4. ForkInv'
    BY DEF IInv, TypeOK, ForkInv
<1>5. ExitInv'
    BY DEF IInv, TypeOK, ExitInv
<1>6. CurrentInv'
    BY QueuedUnchanged DEF IInv, CurrentInv
<1>7. ParkedInv'
    BY DEF IInv, TypeOK, ParkedInv, FirstSteps
<1>8. RunQueueSound'
    BY QueueUnchanged DEF IInv
<1>9. LockHandover'
    BY <1>0 DEF IInv, TypeOK, LockHandover, PendingUnlock, ParkedInv, FirstSteps
<1>10. RunningIsCurrent'
    BY DEF IInv, TypeOK, RunningIsCurrent
<1> QED
    BY <1>1, <1>2, <1>3, <1>4, <1>5, <1>6, <1>7, <1>8, <1>9, <1>10 DEF IInv

\* Ignored ticks and the panic loop change nothing.
LEMMA StutterStep == IInv /\ UNCHANGED vars => IInv'
<1> SUFFICES ASSUME IInv, UNCHANGED vars PROVE IInv'
    OBVIOUS
<1> USE DEF IInv, vars
<1>1. TypeOK'
    BY DEF TypeOK
<1>2. BootInv' /\ UnbornInv' /\ ForkInv' /\ ExitInv' /\ ParkedInv'
    BY DEF BootInv, UnbornInv, ForkInv, ExitInv, ParkedInv
<1>3. CurrentInv'
    BY QueuedUnchanged DEF CurrentInv
<1>4. RunQueueSound'
    BY QueueUnchanged
<1>5. LockHandover' /\ RunningIsCurrent'
    BY DEF LockHandover, PendingUnlock, RunningIsCurrent
<1> QED
    BY <1>1, <1>2, <1>3, <1>4, <1>5

\* A failed load removes its own thread and panics.
LEMMA LoadFailStep == IInv /\ LoadFail => IInv'
<1> SUFFICES ASSUME IInv, LoadFail PROVE IInv'
    OBVIOUS
<1> USE CurrentFacts DEF LoadFail, Runs
<1>0. sched_list' \in Seq(Thread)
    BY DequeueFacts DEF IInv, TypeOK, RunQueueSound
<1>1. TypeOK'
    BY <1>0 DEF IInv, TypeOK
<1>2. BootInv'
    BY DEF IInv, BootInv
<1>3. UnbornInv' /\ ForkInv' /\ ExitInv' /\ ParkedInv'
    BY DEF IInv, UnbornInv, ForkInv, ExitInv, ParkedInv
<1>4. CurrentInv'
    BY QueuedUnchanged DEF IInv, CurrentInv
<1>5. RunQueueSound' /\ LockHandover' /\ RunningIsCurrent'
    BY DEF IInv, RunQueueSound, LockHandover, RunningIsCurrent
<1> QED
    BY <1>1, <1>2, <1>3, <1>4, <1>5 DEF IInv

\* sched_exit's update requeues the exiting thread.
LEMMA ExitStep == IInv /\ Exit => IInv'
<1> SUFFICES ASSUME IInv, Exit PROVE IInv'
    OBVIOUS
<1> USE CurrentFacts DEF Exit, Runs
<1>a. sched_thread # Boot /\ sched_thread \in Members(sched_list)
    BY DEF IInv, CurrentInv, KernelPlaces
<1>b. sched_locks = 0 /\ iflag' = TRUE
    BY DEF PendingUnlock
<1>c. /\ sched_list' \in Seq(Thread) /\ Distinct(sched_list')
      /\ Sorted(sched_list', prio)
      /\ Members(sched_list') = Members(sched_list)
    BY <1>a, RequeuedFacts DEF IInv, TypeOK, RunQueueSound
<1>1. TypeOK'
    BY <1>b, <1>c DEF IInv, TypeOK, Places
<1>2. BootInv'
    BY <1>a DEF IInv, TypeOK, BootInv, KernelPlaces
<1>3. UnbornInv'
    BY DEF IInv, TypeOK, UnbornInv, CurrentInv
<1>4. ForkInv'
    BY DEF IInv, TypeOK, ForkInv
<1>5. ExitInv'
    BY DEF IInv, TypeOK, ExitInv
<1>6. CurrentInv'
    BY QueuedUnchanged DEF IInv, CurrentInv
<1>7. ParkedInv'
    BY DEF IInv, TypeOK, ParkedInv, FirstSteps
<1>8. RunQueueSound'
    BY <1>c, QueuedUnchanged DEF RunQueueSound
<1>9. LockHandover'
    BY <1>b DEF IInv, TypeOK, LockHandover, PendingUnlock
<1>10. RunningIsCurrent'
    BY DEF IInv, TypeOK, RunningIsCurrent
<1> QED
    BY <1>1, <1>2, <1>3, <1>4, <1>5, <1>6, <1>7, <1>8, <1>9, <1>10 DEF IInv

\* sched_load puts process 1 on the empty queue.
LEMMA BootLoadStep == IInv /\ BootLoad => IInv'
<1> SUFFICES ASSUME IInv, BootLoad PROVE IInv'
    OBVIOUS
<1> USE CurrentFacts DEF BootLoad, Runs, Create
<1>a. sched_thread = Boot /\ sched_tid = 1
    BY DEF IInv, BootInv, KernelPlaces
<1>b. Queued = {} /\ InitP \notin Members(sched_list)
    <2>1. 1..(1 - 1) = {}
        OBVIOUS
    <2>2. Queued = {}
        BY <1>a, <2>1 DEF Queued
    <2> QED
        BY <2>2
<1>c. \A p \in Thread : child[p] = 0
    <2>1. \A p \in Thread : child[p] \in Nat /\ child[p] < 1
        BY <1>a DEF IInv, TypeOK, ForkInv
    <2> QED
        BY <2>1
<1>d. Queued' = {InitP}
    <2>1. 1..(sched_tid' - 1) = {InitP}
        BY <1>a DEF InitP
    <2> QED
        BY <1>c, <2>1 DEF Queued, InitP
<1>e. prio' \in [Thread -> Int]
    BY DEF IInv, TypeOK
<1>f. Sorted(sched_list, prio')
    BY <1>b, SortedAgree DEF IInv, RunQueueSound
<1>g. /\ sched_list' \in Seq(Thread) /\ Distinct(sched_list')
      /\ Members(sched_list') = {InitP}
      /\ Sorted(sched_list', prio')
    <2>1. sched_list \in Seq(Thread) /\ Distinct(sched_list)
        BY DEF IInv, TypeOK, RunQueueSound
    <2>2. /\ sched_list' \in Seq(Thread) /\ Distinct(sched_list')
          /\ Members(sched_list') = Members(sched_list) \cup {InitP}
          /\ Sorted(sched_list', prio')
        BY <2>1, <1>b, <1>e, <1>f, QueueThread
    <2> QED
        BY <2>2, <1>b
<1>1. TypeOK'
    <2>1. sched_tid' = 2 /\ sched_tid' \in 1..(MaxTid + 1)
        BY <1>a, SchedulerAssumption
    <2>2. /\ at' \in [Thread -> Places]
          /\ state' \in [Thread -> {"ready", "running", "terminated"}]
          /\ time' \in [Thread -> Nat] /\ parked' \in [Thread -> {"no", "irq", "call"}]
        BY DEF IInv, TypeOK, Places
    <2>3. /\ sched_thread' \in Thread /\ sched_locks' \in Nat
          /\ child' \in [Thread -> Thread]
          /\ iflag' \in BOOLEAN /\ in_service' \in BOOLEAN /\ halted' \in BOOLEAN
        BY DEF IInv, TypeOK
    <2> QED
        BY <1>e, <1>g, <2>1, <2>2, <2>3 DEF TypeOK
<1>2. BootInv'
    BY <1>a, SchedulerAssumption DEF IInv, TypeOK, BootInv, KernelPlaces
<1>3. UnbornInv'
    BY <1>a, SchedulerAssumption DEF IInv, TypeOK, UnbornInv, InitP, Boot
<1>4. ForkInv'
    BY <1>a, <1>c, SchedulerAssumption DEF IInv, TypeOK, ForkInv
<1>5. ExitInv'
    BY <1>a, SchedulerAssumption DEF IInv, TypeOK, ExitInv, BootInv
<1>6. CurrentInv'
    BY <1>a DEF CurrentInv, Boot
<1>7. ParkedInv'
    BY <1>a DEF IInv, TypeOK, ParkedInv
<1>8. RunQueueSound'
    BY <1>d, <1>g DEF RunQueueSound
<1>9. LockHandover'
    BY <1>a DEF IInv, TypeOK, LockHandover, PendingUnlock, InitP, Boot
<1>10. RunningIsCurrent'
    BY <1>a DEF IInv, TypeOK, RunningIsCurrent
<1> QED
    BY <1>1, <1>2, <1>3, <1>4, <1>5, <1>6, <1>7, <1>8, <1>9, <1>10 DEF IInv

\* fork's child, known to its parent only, becomes queued.
LEMMA ForkQueueStep == IInv /\ ForkQueue => IInv'
<1> SUFFICES ASSUME IInv, ForkQueue PROVE IInv'
    OBVIOUS
<1> USE CurrentFacts DEF ForkQueue, Runs
<1> DEFINE c == child[sched_thread]
<1>a. sched_thread # Boot
    BY DEF KernelPlaces
<1>b. c \in Thread /\ c # 0 /\ c < sched_tid /\ c \notin Queued
    BY DEF IInv, TypeOK, ForkInv, Queued
<1>c. Queued' = Queued \cup {c}
    <2>1. \A p \in Thread : child'[p] = IF p = sched_thread THEN 0 ELSE child[p]
        BY DEF IInv, TypeOK
    <2>2. \A p \in Thread : child[p] = c => p = sched_thread
        BY <1>b DEF IInv, ForkInv
    <2>3. c \in 1..(sched_tid - 1)
        BY <1>b
    <2>4. \A t \in 1..(sched_tid - 1) :
            (\A p \in Thread : child'[p] # t) <=> (t = c \/ \A p \in Thread : child[p] # t)
        BY <2>1, <2>2
    <2> QED
        BY <2>3, <2>4 DEF Queued
<1>d. /\ sched_list' \in Seq(Thread) /\ Distinct(sched_list')
      /\ Members(sched_list') = Members(sched_list) \cup {c}
      /\ Sorted(sched_list', prio)
    <2>1. /\ sched_list \in Seq(Thread) /\ Distinct(sched_list) /\ prio \in [Thread -> Int]
          /\ Sorted(sched_list, prio) /\ sched_list' = Enqueue(sched_list, prio, c)
        BY DEF IInv, TypeOK, RunQueueSound
    <2>2. c \in Thread /\ c \notin Members(sched_list)
        BY <1>b
    <2> HIDE DEF c
    <2> QED
        BY <2>1, <2>2, QueueThread
<1> HIDE DEF c
<1>1. TypeOK'
    BY <1>d DEF IInv, TypeOK, Places, Boot
<1>2. BootInv'
    BY <1>a DEF IInv, TypeOK, BootInv, KernelPlaces
<1>3. UnbornInv'
    BY DEF IInv, TypeOK, UnbornInv, CurrentInv
<1>4. ForkInv'
    <2>1. \A p \in Thread : child'[p] = IF p = sched_thread THEN 0 ELSE child[p]
        BY DEF IInv, TypeOK
    <2>2. \A p \in Thread : at'[p] = IF p = sched_thread THEN "user" ELSE at[p]
        BY DEF IInv, TypeOK
    <2> QED
        BY <1>b, <2>1, <2>2 DEF IInv, ForkInv
<1>5. ExitInv'
    BY DEF IInv, TypeOK, ExitInv
<1>6. CurrentInv'
    BY <1>c DEF IInv, CurrentInv
<1>7. ParkedInv'
    BY DEF IInv, TypeOK, ParkedInv, FirstSteps
<1>8. RunQueueSound'
    BY <1>c, <1>d DEF RunQueueSound
<1>9. LockHandover'
    BY DEF IInv, TypeOK, LockHandover, PendingUnlock
<1>10. RunningIsCurrent'
    BY DEF IInv, TypeOK, RunningIsCurrent
<1> QED
    BY <1>1, <1>2, <1>3, <1>4, <1>5, <1>6, <1>7, <1>8, <1>9, <1>10 DEF IInv

\* Whatever calls sched_schedule without a lock, for a queue of ready threads,
\* keeps the parts of the invariant that do not depend on the caller.
LEMMA DispatchStep ==
    ASSUME IInv, ~halted,
           NEW q \in Seq(Thread), NEW pr \in [Thread -> Int],
           NEW st \in [Thread -> {"ready", "running", "terminated"}],
           NEW tm \in [Thread -> Nat], NEW how \in {"irq", "call"},
           Distinct(q), Sorted(q, pr), Members(q) = Queued,
           \A t \in Thread : st[t] # "running",
           ~PendingUnlock(sched_thread),
           Schedule(q, pr, st, tm, how),
           UNCHANGED <<sched_tid, child, halted>>,
           at' \in [Thread -> Places],
           \A t \in Thread : t # sched_thread => at'[t] = at[t],
           at'[sched_thread] \notin FirstSteps \cup {"exit_schedule"},
           at'[sched_thread] = "fork_queue" <=> at[sched_thread] = "fork_queue",
           in_service' \in BOOLEAN
    PROVE  /\ sched_thread' \in Queued
           /\ state' = [st EXCEPT ![sched_thread'] = "running"]
           /\ parked' = IF sched_thread' = sched_thread
                        THEN parked ELSE [parked EXCEPT ![sched_thread] = how]
           /\ TypeOK'
           /\ UnbornInv' /\ ForkInv' /\ ExitInv' /\ CurrentInv' /\ ParkedInv'
           /\ RunQueueSound' /\ LockHandover' /\ RunningIsCurrent'
<1>a. sched_locks = 0
    BY CurrentFacts
<1>b. /\ q # << >> /\ sched_thread' = q[1]
      /\ sched_thread' \in Members(q) /\ sched_thread' \in Thread
      /\ sched_list' \in Seq(Thread)
      /\ Distinct(sched_list') /\ Sorted(sched_list', pr)
      /\ Members(sched_list') = Members(q)
      /\ prio' = pr
      /\ state' = [st EXCEPT ![sched_thread'] = "running"]
      /\ time' \in [Thread -> Nat]
      /\ iflag' = TRUE
      /\ sched_thread' = sched_thread => sched_locks' = 0 /\ parked' = parked
      /\ sched_thread' # sched_thread =>
           /\ sched_locks' = 1
           /\ parked' = [parked EXCEPT ![sched_thread] = how]
    BY <1>a, ScheduleFacts DEF Schedule
<1> USE CurrentFacts
<1>c. sched_locks' = IF sched_thread' = sched_thread THEN 0 ELSE 1
    BY <1>b, Zenon
<1>d. Queued' = Queued
    BY QueuedUnchanged
<1>e. /\ sched_thread' \in Queued /\ sched_thread' # Boot
      /\ sched_thread' \in 1..(sched_tid - 1) /\ sched_thread' < sched_tid
    <2>1. sched_thread' \in Queued
        BY <1>b
    <2>2. sched_thread' \in 1..(sched_tid - 1)
        BY <2>1 DEF Queued
    <2> QED
        BY <2>1, <2>2
<1>1. TypeOK'
    <2>1. sched_locks' \in Nat
        BY <1>c
    <2>2. parked' \in [Thread -> {"no", "irq", "call"}]
        BY <1>b DEF IInv, TypeOK
    <2>3. state' \in [Thread -> {"ready", "running", "terminated"}]
        BY <1>b
    <2> QED
        BY <2>1, <2>2, <2>3, <1>b DEF IInv, TypeOK
<1>2. UnbornInv'
    <2>1. \A t \in Thread : t >= sched_tid => t # sched_thread
        BY DEF IInv, CurrentInv
    <2>2. \A t \in Thread : t # sched_thread => parked'[t] = parked[t]
        BY <1>b DEF IInv, TypeOK
    <2> QED
        BY <2>1, <2>2 DEF IInv, UnbornInv
<1>3. ForkInv'
    <2>1. \A p \in Thread : at'[p] = "fork_queue" <=> at[p] = "fork_queue"
        OBVIOUS
    <2> QED
        BY <2>1 DEF IInv, ForkInv
<1>4. ExitInv'
    BY DEF IInv, ExitInv
<1>5. CurrentInv'
    BY <1>d, <1>e DEF CurrentInv
<1>6. ParkedInv'
    BY <1>b DEF IInv, TypeOK, ParkedInv
<1>7. RunQueueSound'
    BY <1>b, <1>d DEF RunQueueSound
<1>8. LockHandover'
    <2>1. parked[sched_thread] = "no"
        BY DEF PendingUnlock
    <2>2. \A t \in Thread : (parked'[t] # "no" \/ at'[t] \in FirstSteps) <=>
            IF t = sched_thread THEN sched_thread' # sched_thread
            ELSE parked[t] # "no" \/ at[t] \in FirstSteps
        BY <2>1, <1>b DEF IInv, TypeOK
    <2>3. 1..(sched_tid - 1) \subseteq Thread
        BY SchedulerAssumption DEF IInv, TypeOK, Thread
    <2>4. PendingUnlock(sched_thread)' <=> sched_thread' # sched_thread
        <3>1. sched_thread' # sched_thread => sched_thread' \in 1..(sched_tid - 1) \ {sched_thread}
            BY <1>e, <1>b
        <3> QED
            BY <2>2, <3>1, <1>b DEF IInv, LockHandover, PendingUnlock, FirstSteps
    <2>5. ASSUME NEW t \in 1..(sched_tid' - 1) \ {sched_thread'}
          PROVE  parked'[t] # "no" \/ at'[t] \in FirstSteps
        <3>1. t # sched_thread => parked[t] # "no" \/ at[t] \in FirstSteps
            BY DEF IInv, LockHandover, PendingUnlock, FirstSteps
        <3> QED
            BY <2>2, <2>3, <3>1
    <2> QED
        BY <2>4, <2>5, <1>b, <1>c DEF LockHandover, PendingUnlock, FirstSteps
<1>9. RunningIsCurrent'
    BY <1>b DEF RunningIsCurrent
<1> QED
    BY <1>1, <1>2, <1>3, <1>4, <1>5, <1>6, <1>7, <1>8, <1>9, <1>b, <1>e

\* kernel_main's sched_schedule gives up the processor for good.
LEMMA BootScheduleStep == IInv /\ BootSchedule => IInv'
<1> SUFFICES ASSUME IInv, BootSchedule PROVE IInv'
    OBVIOUS
<1> USE CurrentFacts DEF BootSchedule, Runs
<1>a. sched_thread = Boot /\ state[Boot] = "ready"
    BY DEF IInv, BootInv, KernelPlaces
<1>b. /\ sched_list \in Seq(Thread) /\ prio \in [Thread -> Int]
      /\ state \in [Thread -> {"ready", "running", "terminated"}]
      /\ time \in [Thread -> Nat]
      /\ Distinct(sched_list) /\ Sorted(sched_list, prio) /\ Members(sched_list) = Queued
    BY DEF IInv, TypeOK, RunQueueSound
<1>c. \A t \in Thread : state[t] # "running"
    BY <1>a DEF IInv, RunningIsCurrent
<1>d. ~PendingUnlock(sched_thread)
    BY DEF IInv, BootInv, PendingUnlock, KernelPlaces
<1>e. /\ at' \in [Thread -> Places]
      /\ at' = [at EXCEPT ![Boot] = "main"]
    BY DEF IInv, TypeOK, Places
<1>f. /\ sched_thread' \in Queued
      /\ state' = [state EXCEPT ![sched_thread'] = "running"]
      /\ parked' = IF sched_thread' = sched_thread
                   THEN parked ELSE [parked EXCEPT ![sched_thread] = "call"]
      /\ TypeOK'
      /\ UnbornInv' /\ ForkInv' /\ ExitInv' /\ CurrentInv' /\ ParkedInv'
      /\ RunQueueSound' /\ LockHandover' /\ RunningIsCurrent'
    <2>1. /\ \A t \in Thread : t # sched_thread => at'[t] = at[t]
          /\ at'[sched_thread] \notin FirstSteps \cup {"exit_schedule"}
          /\ at'[sched_thread] = "fork_queue" <=> at[sched_thread] = "fork_queue"
        BY <1>a, <1>e DEF IInv, TypeOK, FirstSteps
    <2>2. in_service' \in BOOLEAN
        BY DEF IInv, TypeOK
    <2> QED
        BY <1>b, <1>c, <1>d, <1>e, <2>1, <2>2, DispatchStep DEF Schedule
<1>1. BootInv'
    <2>1. at'[Boot] = "main" /\ sched_thread' # Boot
        BY <1>e, <1>f DEF IInv, TypeOK
    <2>2. parked'[Boot] = "call" /\ state'[Boot] = "ready"
        BY <1>a, <1>f, <2>1 DEF IInv, TypeOK
    <2>3. \A t \in Thread \ {Boot} : at'[t] \notin KernelPlaces
        BY <1>e DEF IInv, TypeOK, BootInv
    <2>4. sched_tid' # 1
        BY <1>a DEF IInv, BootInv, BootSchedule, Runs
    <2> QED
        BY <2>1, <2>2, <2>3, <2>4 DEF BootInv, KernelPlaces
<1> QED
    BY <1>1, <1>f DEF IInv

\* sched_exit's sched_schedule keeps IInv, whichever thread it chooses.
LEMMA ExitScheduleStep == IInv /\ ExitSchedule => IInv'
<1> SUFFICES ASSUME IInv, ExitSchedule PROVE IInv'
    OBVIOUS
<1> USE CurrentFacts DEF ExitSchedule, Runs
<1>a. sched_thread # Boot /\ state[sched_thread] = "terminated"
    BY DEF IInv, ExitInv, KernelPlaces
<1>b. /\ sched_list \in Seq(Thread) /\ prio \in [Thread -> Int]
      /\ state \in [Thread -> {"ready", "running", "terminated"}]
      /\ time \in [Thread -> Nat]
      /\ Distinct(sched_list) /\ Sorted(sched_list, prio) /\ Members(sched_list) = Queued
    BY DEF IInv, TypeOK, RunQueueSound
<1>c. \A t \in Thread : state[t] # "running"
    BY <1>a DEF IInv, RunningIsCurrent
<1>d. ~PendingUnlock(sched_thread)
    BY DEF PendingUnlock
<1>e. /\ at' \in [Thread -> Places]
      /\ at' = [at EXCEPT ![sched_thread] = "after_exit"]
    BY DEF IInv, TypeOK, Places
<1>f. /\ sched_thread' \in Queued
      /\ state' = [state EXCEPT ![sched_thread'] = "running"]
      /\ parked' = IF sched_thread' = sched_thread
                   THEN parked ELSE [parked EXCEPT ![sched_thread] = "call"]
      /\ TypeOK'
      /\ UnbornInv' /\ ForkInv' /\ ExitInv' /\ CurrentInv' /\ ParkedInv'
      /\ RunQueueSound' /\ LockHandover' /\ RunningIsCurrent'
    <2>1. /\ \A t \in Thread : t # sched_thread => at'[t] = at[t]
          /\ at'[sched_thread] \notin FirstSteps \cup {"exit_schedule"}
          /\ at'[sched_thread] = "fork_queue" <=> at[sched_thread] = "fork_queue"
        BY <1>e DEF IInv, TypeOK, FirstSteps
    <2>2. in_service' \in BOOLEAN
        BY DEF IInv, TypeOK
    <2> QED
        BY <1>b, <1>c, <1>d, <1>e, <2>1, <2>2, DispatchStep DEF Schedule
<1>1. BootInv'
    <2>1. sched_thread' # Boot
        BY <1>f
    <2>2. at'[Boot] = at[Boot] /\ parked'[Boot] = parked[Boot] /\ state'[Boot] = state[Boot]
        <3>1. at'[Boot] = at[Boot]
            BY <1>a, <1>e DEF IInv, TypeOK
        <3>2. parked'[Boot] = parked[Boot]
            BY <1>a, <1>f DEF IInv, TypeOK
        <3>3. state'[Boot] = state[Boot]
            BY <2>1, <1>f DEF IInv, TypeOK
        <3> QED
            BY <3>1, <3>2, <3>3
    <2>3. \A t \in Thread \ {Boot} : at'[t] \notin KernelPlaces
        BY <1>e DEF IInv, TypeOK, BootInv, KernelPlaces
    <2> QED
        BY <1>a, <2>1, <2>2, <2>3 DEF IInv, BootInv
<1> QED
    BY <1>1, <1>f DEF IInv

\* fork makes a thread that its parent alone knows.
LEMMA ForkStep == IInv /\ Fork => IInv'
<1> SUFFICES ASSUME IInv, Fork PROVE IInv'
    OBVIOUS
<1> USE CurrentFacts DEF Fork, Runs, Create
<1>a. /\ sched_thread # Boot /\ sched_tid \in Thread /\ sched_tid # 0
      /\ sched_thread < sched_tid
    BY DEF IInv, TypeOK, CurrentInv, KernelPlaces
<1>b. sched_locks = 0 /\ iflag' = TRUE
    BY DEF PendingUnlock
<1>c. at[sched_tid] = "unborn" /\ parked[sched_tid] = "no"
    BY <1>a DEF IInv, UnbornInv
<1>d. \A p \in Thread : child'[p] = IF p = sched_thread THEN sched_tid ELSE child[p]
    BY DEF IInv, TypeOK
<1>e. \A p \in Thread : at'[p] = IF p = sched_thread THEN "fork_queue"
                                 ELSE IF p = sched_tid THEN "user_entry" ELSE at[p]
    BY <1>a DEF IInv, TypeOK
<1>f. child[sched_thread] = 0 /\ \A p \in Thread : child[p] \in Nat /\ child[p] < sched_tid
    BY DEF IInv, TypeOK, ForkInv
<1>g. Queued' = Queued
    <2>1. 1..(sched_tid' - 1) = 1..(sched_tid - 1) \cup {sched_tid}
        BY <1>a
    <2>2. \A t \in 1..(sched_tid - 1) :
            (\A p \in Thread : child'[p] # t) <=> (\A p \in Thread : child[p] # t)
        BY <1>d, <1>f
    <2>3. ~(\A p \in Thread : child'[p] # sched_tid)
        BY <1>d
    <2> QED
        BY <2>1, <2>2, <2>3 DEF Queued
<1>h. prio' \in [Thread -> Int] /\ \A t \in Members(sched_list) : prio'[t] = prio[t]
    <2>1. sched_tid \notin Queued
        BY DEF Queued
    <2> QED
        BY <2>1 DEF IInv, TypeOK
<1>1. TypeOK'
    <2>1. sched_tid' \in 1..(MaxTid + 1)
        BY <1>a, SchedulerAssumption DEF Thread
    <2>2. at' \in [Thread -> Places] /\ child' \in [Thread -> Thread]
        BY <1>a DEF IInv, TypeOK, Places
    <2>3. /\ state' \in [Thread -> {"ready", "running", "terminated"}]
          /\ time' \in [Thread -> Nat]
          /\ parked' \in [Thread -> {"no", "irq", "call"}]
        BY DEF IInv, TypeOK
    <2> QED
        BY <2>1, <2>2, <2>3, <1>b, <1>h DEF IInv, TypeOK
<1>2. BootInv'
    <2>1. at'[Boot] = at[Boot] /\ parked'[Boot] = parked[Boot] /\ state'[Boot] = state[Boot]
        BY <1>a, <1>e DEF IInv, TypeOK, Boot
    <2>2. \A t \in Thread \ {Boot} : at'[t] \notin KernelPlaces
        <3>1. \A t \in Thread \ {Boot} : at[t] \notin KernelPlaces
            BY DEF IInv, BootInv
        <3>2. ASSUME NEW t \in Thread \ {Boot} PROVE at'[t] \notin KernelPlaces
            <4>1. at'[t] \in {"fork_queue", "user_entry"} \/ at'[t] = at[t]
                BY <1>e
            <4> QED
                BY <3>1, <4>1 DEF KernelPlaces
        <3> QED
            BY <3>2
    <2>3. at[Boot] = "main" /\ sched_tid + 1 # 1
        BY <1>a DEF IInv, BootInv
    <2> QED
        BY <1>a, <2>1, <2>2, <2>3 DEF IInv, BootInv
<1>3. UnbornInv'
    <2>1. \A t \in Thread : t >= sched_tid + 1 => t >= sched_tid /\ t # sched_tid /\ t # sched_thread
        BY <1>a
    <2> QED
        BY <2>1, <1>e DEF IInv, TypeOK, UnbornInv
<1>4. ForkInv'
    <2>1. child[sched_tid] = 0
        BY <1>a, <1>c DEF IInv, ForkInv
    <2>2. \A p \in Thread : child'[p] < sched_tid'
        BY <1>a, <1>d, <1>f
    <2>3. ASSUME NEW p \in Thread PROVE child'[p] # 0 <=> at'[p] = "fork_queue"
        <3>1. CASE p = sched_thread
            BY <3>1, <1>a, <1>d, <1>e
        <3>2. CASE p = sched_tid
            <4>1. p # sched_thread
                BY <3>2, <1>a
            <4>2. child'[p] = 0
                BY <4>1, <3>2, <2>1, <1>d
            <4>3. at'[p] = "user_entry"
                BY <4>1, <3>2, <1>e
            <4> QED
                BY <4>2, <4>3
        <3>3. CASE p # sched_thread /\ p # sched_tid
            <4>1. child'[p] = child[p]
                BY <3>3, <1>d
            <4>2. at'[p] = at[p]
                BY <3>3, <1>e
            <4>3. child[p] # 0 <=> at[p] = "fork_queue"
                BY DEF IInv, ForkInv
            <4> QED
                BY <4>1, <4>2, <4>3
        <3> QED
            BY <3>1, <3>2, <3>3
    <2>4. ASSUME NEW p \in Thread, NEW r \in Thread, child'[p] # 0, child'[r] = child'[p]
          PROVE  r = p
        <3>1. p = sched_thread <=> r = sched_thread
            BY <2>4, <1>a, <1>d, <1>f
        <3> QED
            BY <2>4, <3>1, <1>d DEF IInv, ForkInv
    <2> QED
        BY <2>2, <2>3, <2>4 DEF ForkInv
<1>5. ExitInv'
    BY <1>a, <1>e DEF IInv, TypeOK, ExitInv
<1>6. CurrentInv'
    BY <1>g DEF IInv, CurrentInv
<1>7. ParkedInv'
    BY <1>e DEF IInv, TypeOK, ParkedInv, FirstSteps
<1>8. RunQueueSound'
    BY <1>g, <1>h, SortedAgree DEF IInv, RunQueueSound
<1>9. LockHandover'
    <2>1. ~PendingUnlock(sched_thread)' /\ sched_locks' = 0
        BY <1>a, <1>b, <1>e DEF IInv, TypeOK, PendingUnlock
    <2>2. ASSUME NEW t \in 1..(sched_tid' - 1) \ {sched_thread}
          PROVE  parked'[t] # "no" \/ at'[t] \in {"entry", "user_entry"}
        <3>1. CASE t = sched_tid
            BY <3>1, <1>a, <1>e
        <3>2. CASE t # sched_tid
            <4>1. t \in 1..(sched_tid - 1) \ {sched_thread} /\ t \in Thread
                BY <3>2, <1>a, SchedulerAssumption DEF Thread
            <4>2. parked[t] # "no" \/ at[t] \in {"entry", "user_entry"}
                BY <4>1 DEF IInv, LockHandover, PendingUnlock
            <4> QED
                BY <4>1, <4>2, <3>2, <1>e DEF IInv, TypeOK
        <3> QED
            BY <3>1, <3>2
    <2> QED
        BY <2>1, <2>2, <1>b DEF LockHandover, PendingUnlock
<1>10. RunningIsCurrent'
    BY <1>a, <1>e DEF IInv, TypeOK, RunningIsCurrent
<1> QED
    BY <1>1, <1>2, <1>3, <1>4, <1>5, <1>6, <1>7, <1>8, <1>9, <1>10 DEF IInv

\* The end of a slice: priorities lowered, current thread requeued, next dispatched.
LEMMA TickSliceOverStep == IInv /\ TickSliceOver => IInv'
<1> SUFFICES ASSUME IInv, TickSliceOver PROVE IInv'
    OBVIOUS
<1> DEFINE lowered == Normalised(sched_list, prio)
           pr == [lowered EXCEPT ![sched_thread] = BehindAll(lowered, sched_list)]
           st == Preempted(state, sched_thread)
           tm == [time EXCEPT ![sched_thread] = @ + 1]
           q  == Requeued(sched_list, pr, sched_thread)
<1>a. /\ ~halted /\ state[sched_thread] = "running" /\ sched_thread # Boot
      /\ sched_thread \in Members(sched_list)
    BY CurrentFacts DEF TickSliceOver, TickAccepted, IInv, CurrentInv
\* A switch leaves the new thread with a fresh slice: no tick comes between it
\* and the sched_unlock that is still to run.
<1>b. ~PendingUnlock(sched_thread) /\ sched_locks = 0
    <2>1. time[sched_thread] + 1 >= Slice
        BY DEF TickSliceOver, SliceOver
    <2>2. time[sched_thread] # 0
        BY <2>1, SchedulerAssumption
    <2> QED
        BY <2>2, <1>a, CurrentFacts DEF TickSliceOver, TickAccepted
<1>c. /\ Schedule(q, pr, st, tm, "irq")
      /\ in_service' = (sched_thread' # sched_thread)
      /\ UNCHANGED <<sched_tid, child, at, halted>>
    BY <1>b DEF TickSliceOver
<1>d. /\ sched_list \in Seq(Thread) /\ sched_list # << >>
      /\ prio \in [Thread -> Int] /\ sched_thread \in Thread
      /\ Distinct(sched_list) /\ Sorted(sched_list, prio) /\ Members(sched_list) = Queued
    BY <1>a, CurrentFacts DEF IInv, TypeOK, RunQueueSound, TickSliceOver, SliceOver
<1>e. lowered \in [Thread -> Int] /\ Sorted(sched_list, lowered)
    BY <1>d, NormalisedFacts
<1> HIDE DEF lowered
<1>f. pr \in [Thread -> Int] /\ \A u \in Thread \ {sched_thread} : pr[u] = lowered[u]
    <2>1. BehindAll(lowered, sched_list) \in Int
        BY <1>d, <1>e DEF BehindAll
    <2> QED
        BY <2>1, <1>d, <1>e
<1> HIDE DEF pr
<1>g. q \in Seq(Thread) /\ Distinct(q) /\ Sorted(q, pr) /\ Members(q) = Members(sched_list)
    BY <1>a, <1>d, <1>e, <1>f, RequeuedFacts
<1> HIDE DEF q
<1>h. /\ st = [state EXCEPT ![sched_thread] = "ready"]
      /\ st \in [Thread -> {"ready", "running", "terminated"}]
    BY <1>d DEF IInv, TypeOK, Preempted
<1>i. \A t \in Thread : st[t] # "running"
    BY <1>h, <1>d DEF IInv, TypeOK, RunningIsCurrent
<1>j. tm \in [Thread -> Nat]
    BY <1>d DEF IInv, TypeOK
<1> HIDE DEF st, tm
<1>k. /\ sched_thread' \in Queued
      /\ state' = [st EXCEPT ![sched_thread'] = "running"]
      /\ parked' = IF sched_thread' = sched_thread
                   THEN parked ELSE [parked EXCEPT ![sched_thread] = "irq"]
      /\ TypeOK'
      /\ UnbornInv' /\ ForkInv' /\ ExitInv' /\ CurrentInv' /\ ParkedInv'
      /\ RunQueueSound' /\ LockHandover' /\ RunningIsCurrent'
    <2>1. /\ at' \in [Thread -> Places]
          /\ \A t \in Thread : t # sched_thread => at'[t] = at[t]
          /\ at'[sched_thread] = "fork_queue" <=> at[sched_thread] = "fork_queue"
        BY <1>c DEF IInv, TypeOK
    <2>2. at'[sched_thread] \notin FirstSteps \cup {"exit_schedule"}
        BY <1>a, <1>b, <1>c, <1>d DEF IInv, ExitInv, PendingUnlock, FirstSteps
    <2>3. in_service' \in BOOLEAN
        BY <1>c
    <2>4. Members(q) = Queued
        BY <1>d, <1>g
    <2> QED
        BY <1>a, <1>b, <1>c, <1>f, <1>g, <1>h, <1>i, <1>j, <2>1, <2>2, <2>3, <2>4,
           DispatchStep DEF Schedule
<1>1. BootInv'
    <2>1. sched_thread' # Boot
        BY <1>k, CurrentFacts
    <2>2. parked'[Boot] = parked[Boot]
        BY <1>a, <1>k, CurrentFacts DEF IInv, TypeOK
    <2>3. state'[Boot] = state[Boot]
        BY <2>1, <1>a, <1>h, <1>k, CurrentFacts DEF IInv, TypeOK
    <2> QED
        BY <2>1, <2>2, <2>3, <1>a, <1>c DEF IInv, BootInv
<1> QED
    BY <1>1, <1>k DEF IInv

\* IInv is inductive.
LEMMA Inductive == IInv /\ [Next]_vars => IInv'
BY BootLoadStep, BootScheduleStep, StartThreadStep, ResumeStep, LoadStep, LoadFailStep,
   ForkQueueStep, ExitScheduleStep, FaultAfterExitStep, ForkStep, ExitStep, ExitInitStep,
   TickCountedStep, TickSliceOverStep, StutterStep
   DEF Next, Kernel, Syscall, Tick, TickIgnored, Panicked

\* Every variable of the scheduler keeps its type; in particular the depth of
\* sched_lock never drops below 0.
THEOREM TypeCorrect == Spec => []TypeOK
<1>1. IInv => TypeOK
    BY DEF IInv
<1> QED
    BY <1>1, Initial, Inductive, PTL DEF Spec

\* The run queue (plist_add, plist_remove, sched_thread_update and their
\* callers) loses no thread, holds none twice, and is in priority order.
THEOREM RunQueueIsSound == Spec => []RunQueueSound
<1>1. IInv => RunQueueSound
    BY DEF IInv
<1> QED
    BY <1>1, Initial, Inductive, PTL DEF Spec

\* Each sched_lock taken before sched_switch is undone by exactly one
\* sched_unlock behind it.
THEOREM LockIsHandedOver == Spec => []LockHandover
<1>1. IInv => LockHandover
    BY DEF IInv
<1> QED
    BY <1>1, Initial, Inductive, PTL DEF Spec

\* Only the thread that sched_thread points to is THREAD_RUNNING.
THEOREM OnlyCurrentRuns == Spec => []RunningIsCurrent
<1>1. IInv => RunningIsCurrent
    BY DEF IInv
<1> QED
    BY <1>1, Initial, Inductive, PTL DEF Spec

-----------------------------------------------------------------------------
(* Process 1 never gets the processor back.                                *)

\* The children of fork start at priority 0 and no tick ever moves them from
\* there; process 1 is the only thread whose slice can end, and once it ends
\* with another thread to run, process 1 is behind the others for good.
StrandInv ==
    /\ at[Boot] # "main" => ~in_service /\ sched_tid <= 2
    /\ at[InitP] # "exit_schedule"
    /\ prio[InitP] >= 0
    /\ \A t \in Thread : t # InitP => prio[t] = 0 /\ parked[t] # "irq"
    /\ ~in_service => sched_thread \in {Boot, InitP} /\ parked[InitP] # "irq"
    /\ in_service => sched_thread # InitP /\ prio[InitP] >= 1

\* Actions that move no processor, priority or interrupt.
LEMMA StrandSimpleStep ==
    ASSUME IInv, StrandInv,
           StartThread \/ Load \/ LoadFail \/ ForkQueue \/ Exit \/ ExitInit
             \/ FaultAfterExit \/ TickCounted \/ UNCHANGED vars
    PROVE  StrandInv'
<1>1. UNCHANGED <<sched_thread, sched_tid, prio, parked, in_service>>
    BY DEF StartThread, Load, LoadFail, ForkQueue, Exit, ExitInit, FaultAfterExit, TickCounted,
           vars
<1>2. at'[Boot] = at[Boot]
    BY CurrentFacts DEF StartThread, Load, LoadFail, ForkQueue, Exit, ExitInit, FaultAfterExit,
           TickCounted, vars, Runs, IInv, TypeOK, KernelPlaces
<1>3. at'[InitP] # "exit_schedule"
    BY CurrentFacts DEF StartThread, Load, LoadFail, ForkQueue, Exit, ExitInit, FaultAfterExit,
           TickCounted, vars, Runs, IInv, TypeOK, StrandInv
<1> QED
    BY <1>1, <1>2, <1>3 DEF StrandInv

\* kernel_main runs process 1 and nothing else.
LEMMA StrandBootStep ==
    ASSUME IInv, StrandInv, BootLoad \/ BootSchedule
    PROVE  StrandInv'
<1> USE CurrentFacts
<1>0. sched_thread = Boot /\ at[Boot] # "main"
    BY DEF IInv, BootInv, BootLoad, BootSchedule, Runs, KernelPlaces
<1>1. CASE BootLoad
    BY <1>0, <1>1 DEF BootLoad, Runs, Create, IInv, TypeOK, BootInv, StrandInv
<1>2. CASE BootSchedule
    <2>1. sched_list # << >> /\ sched_thread' = sched_list[1] /\ prio' = prio
        BY <1>2 DEF BootSchedule, Schedule
    <2>2. sched_thread' \in Queued
        <3>1. 1 \in 1..Len(sched_list)
            BY <2>1 DEF IInv, TypeOK
        <3>2. sched_thread' \in Members(sched_list)
            BY <2>1, <3>1 DEF Members
        <3> QED
            BY <3>2, <1>2 DEF BootSchedule, Runs
    <2>3. sched_thread' = InitP
        BY <2>2, <1>0 DEF StrandInv, Queued, InitP
    <2>4. parked' = [parked EXCEPT ![Boot] = "call"]
        BY <1>0, <1>2, <2>1, <2>3 DEF BootSchedule, Schedule
    <2>5. at'[Boot] = "main" /\ at'[InitP] = at[InitP] /\ in_service' = in_service
        BY <1>2 DEF BootSchedule, IInv, TypeOK
    <2> QED
        BY <1>0, <2>1, <2>3, <2>4, <2>5 DEF StrandInv, IInv, TypeOK
<1> QED
    BY <1>1, <1>2

\* The caller of an abandoned timer interrupt is process 1, and it has not got
\* the processor.
LEMMA StrandResumeStep == ASSUME IInv, StrandInv, Resume PROVE StrandInv'
<1>1. parked[sched_thread] = "call"
    BY CurrentFacts DEF Resume, StrandInv, IInv, TypeOK
<1>2. in_service' = in_service /\ UNCHANGED <<sched_thread, sched_tid, prio, at>>
    BY <1>1 DEF Resume, IInv, TypeOK
<1>3. \A t \in Thread : parked'[t] = "irq" => parked[t] = "irq"
    BY DEF Resume, IInv, TypeOK
<1> QED
    BY <1>2, <1>3, CurrentFacts DEF StrandInv

\* A child starts at priority 0 and not in the handler.
LEMMA StrandForkStep == ASSUME IInv, StrandInv, Fork PROVE StrandInv'
<1> USE CurrentFacts
<1>1. sched_thread # Boot /\ sched_thread < sched_tid /\ sched_tid # InitP /\ sched_tid # Boot
    <2>1. sched_thread # Boot /\ sched_thread < sched_tid
        BY DEF Fork, Runs, IInv, CurrentInv, KernelPlaces
    <2> QED
        BY <2>1 DEF Boot, InitP
<1>2. at[Boot] = "main" /\ at'[Boot] = "main"
    BY <1>1 DEF Fork, IInv, TypeOK, BootInv
<1>3. at'[InitP] # "exit_schedule"
    BY <1>1 DEF Fork, IInv, TypeOK, StrandInv
<1>4. \A t \in Thread : /\ prio'[t] = IF t = sched_tid THEN 0 ELSE prio[t]
                        /\ parked'[t] = IF t = sched_tid THEN "no" ELSE parked[t]
    BY DEF Fork, Create, IInv, TypeOK
<1>5. UNCHANGED <<sched_thread, in_service>>
    BY DEF Fork
<1> QED
    BY <1>1, <1>2, <1>3, <1>4, <1>5 DEF StrandInv

\* sched_exit's choice: the exiting thread itself, if no other, is ahead of
\* process 1.
LEMMA StrandExitScheduleStep == ASSUME IInv, StrandInv, ExitSchedule PROVE StrandInv'
<1> USE CurrentFacts
<1>1. sched_thread # Boot /\ sched_thread # InitP
    BY DEF ExitSchedule, Runs, StrandInv, KernelPlaces
<1>2. in_service /\ prio[InitP] >= 1 /\ prio[sched_thread] = 0
    BY <1>1 DEF StrandInv
<1>3. sched_list # << >> /\ sched_thread' = sched_list[1] /\ prio' = prio
    BY DEF ExitSchedule, Schedule
<1>4. sched_thread' # InitP
    <2>1. sched_thread \in Members(sched_list)
        BY <1>1 DEF ExitSchedule, Runs, IInv, CurrentInv
    <2>2. PICK j \in 1..Len(sched_list) : sched_list[j] = sched_thread
        BY <2>1 DEF Members
    <2>3. Sorted(sched_list, prio)
        BY DEF ExitSchedule, Runs, IInv, RunQueueSound
    <2>4. 1 \in 1..Len(sched_list) /\ (j # 1 => 1 < j)
        <3>1. Len(sched_list) \in Nat
            BY DEF IInv, TypeOK
        <3> HIDE CurrentFacts
        <3> QED
            BY <3>1
    <2>5. j # 1 => prio[sched_list[1]] <= prio[sched_thread]
        BY <2>2, <2>3, <2>4 DEF Sorted
    <2>6. prio[InitP] \in Int
        BY DEF IInv, TypeOK
    <2>7. CASE j = 1
        BY <2>2, <2>7, <1>1, <1>3
    <2>8. CASE j # 1
        BY <2>5, <2>6, <2>8, <1>2, <1>3
    <2> QED
        BY <2>7, <2>8
<1>5. \A t \in Thread : parked'[t] = "irq" => parked[t] = "irq"
    BY DEF ExitSchedule, Schedule, IInv, TypeOK
<1>6. in_service' = in_service /\ sched_tid' = sched_tid
      /\ at'[Boot] = at[Boot] /\ at'[InitP] = at[InitP]
    BY <1>1 DEF ExitSchedule, IInv, TypeOK
<1> QED
    BY <1>2, <1>3, <1>4, <1>5, <1>6 DEF StrandInv

\* The end of a slice.  Only process 1 has got this far.
LEMMA StrandTickStep == ASSUME IInv, StrandInv, TickSliceOver PROVE StrandInv'
<1> DEFINE lowered == Normalised(sched_list, prio)
           pr == [lowered EXCEPT ![sched_thread] = BehindAll(lowered, sched_list)]
<1>1. /\ ~halted /\ ~in_service /\ sched_thread = InitP
      /\ sched_list # << >> /\ sched_list \in Seq(Thread) /\ prio \in [Thread -> Int]
      /\ Sorted(sched_list, prio)
    BY CurrentFacts DEF TickSliceOver, TickAccepted, SliceOver, IInv, TypeOK, RunQueueSound, StrandInv
<1>2. ~PendingUnlock(sched_thread) /\ sched_locks = 0
    <2>1. time[sched_thread] + 1 >= Slice
        BY DEF TickSliceOver, SliceOver
    <2>2. time[sched_thread] # 0
        BY <2>1, SchedulerAssumption
    <2> QED
        BY <2>2, <1>1, CurrentFacts DEF TickSliceOver, TickAccepted
<1>3. /\ prio' = pr
      /\ parked' = IF sched_thread' = sched_thread
                   THEN parked ELSE [parked EXCEPT ![sched_thread] = "irq"]
      /\ in_service' = (sched_thread' # sched_thread)
      /\ UNCHANGED <<sched_tid, at>>
    BY <1>2 DEF TickSliceOver, Schedule
<1>4. \A i \in 1..Len(sched_list) :
        /\ sched_list[i] \in Thread /\ sched_list[i] \in Members(sched_list)
        /\ prio[sched_list[1]] <= prio[sched_list[i]]
    BY <1>1 DEF Sorted, Members
<1>5. prio[sched_list[1]] >= 0
    BY <1>1, <1>4, CurrentFacts DEF StrandInv
<1>6. \A t \in Members(sched_list) : t \in Thread /\ prio[sched_list[1]] <= prio[t]
    BY <1>4 DEF Members
<1>7. \A t \in Thread : t # InitP => lowered[t] = 0
    BY <1>1, <1>5, <1>6 DEF StrandInv, Normalised
<1>8. lowered[InitP] >= 0 /\ lowered \in [Thread -> Int]
    <2>1. lowered \in [Thread -> Int]
        BY <1>1, NormalisedFacts
    <2>2. InitP \in Thread /\ prio[InitP] >= 0 /\ prio[InitP] \in Int
        BY <1>1, CurrentFacts DEF StrandInv
    <2>3. lowered[InitP] >= 0
        <3>1. CASE InitP \in Members(sched_list)
            <4>1. lowered[InitP] = prio[InitP] - prio[sched_list[1]]
                BY <3>1, <2>2, <1>1 DEF Normalised
            <4>2. prio[sched_list[1]] <= prio[InitP] /\ prio[sched_list[1]] \in Int
                BY <3>1, <1>1, <1>4, <1>6
            <4> QED
                BY <4>1, <4>2, <2>2
        <3>2. CASE InitP \notin Members(sched_list)
            BY <3>2, <2>2, <1>1 DEF Normalised
        <3> QED
            BY <3>1, <3>2
    <2> QED
        BY <2>1, <2>3
<1> HIDE DEF lowered
<1>9. lowered[sched_list[Len(sched_list)]] >= 0 /\ lowered[sched_list[Len(sched_list)]] \in Int
    BY <1>1, <1>4, <1>7, <1>8
<1>10. BehindAll(lowered, sched_list) >= 1 /\ BehindAll(lowered, sched_list) >= 0
    BY <1>9 DEF BehindAll
<1>11. prio'[InitP] >= 1 /\ prio'[InitP] >= 0 /\ \A t \in Thread : t # InitP => prio'[t] = 0
    BY <1>1, <1>3, <1>7, <1>8, <1>10, CurrentFacts
<1>12. \A t \in Thread : t # InitP => parked'[t] = parked[t]
    BY <1>1, <1>3 DEF IInv, TypeOK
<1>13. at[Boot] = "main"
    BY <1>1, CurrentFacts DEF IInv, BootInv
<1> QED
    <2>1. CASE sched_thread' = sched_thread
        <3>1. in_service' = FALSE /\ sched_thread' = InitP /\ parked' = parked /\ at' = at
            BY <2>1, <1>1, <1>3
        <3>2. prio'[InitP] >= 0
            BY <1>11
        <3> QED
            BY <3>1, <3>2, <1>1, <1>11, <1>13 DEF StrandInv
    <2>2. CASE sched_thread' # sched_thread
        <3>1. in_service' = TRUE /\ sched_thread' # InitP /\ at' = at
            BY <2>2, <1>1, <1>3
        <3>2. prio'[InitP] >= 0
            BY <1>11
        <3> QED
            BY <3>1, <3>2, <1>1, <1>11, <1>12, <1>13 DEF StrandInv
    <2> QED
        BY <2>1, <2>2

\* The first slice that ends with another thread to run leaves its interrupt
\* unacknowledged (irq.c:42 is behind the switch), and process 1 waiting.
THEOREM InitIsStranded == Spec => []InitStranded
<1>1. Init => StrandInv
    BY SchedulerAssumption DEF Init, StrandInv, Boot, InitP, Thread
<1>2. IInv /\ StrandInv /\ [Next]_vars => StrandInv'
    BY StrandSimpleStep, StrandBootStep, StrandResumeStep, StrandForkStep,
       StrandExitScheduleStep, StrandTickStep
       DEF Next, Kernel, Syscall, Tick, TickIgnored, Panicked
<1>3. StrandInv => InitStranded
    BY DEF StrandInv, InitStranded
<1> QED
    BY <1>1, <1>2, <1>3, Initial, Inductive, PTL DEF Spec

-----------------------------------------------------------------------------
(* The pointers of the priority list                                       *)

\* On the ring of the members of S in the order of their ranks r, y is the one
\* behind x: the next greater, or the least behind the greatest.
Follows(S, r, x, y) ==
    \/ r[x] < r[y] /\ \A z \in S : r[z] <= r[x] \/ r[y] <= r[z]
    \/ \A z \in S : r[y] <= r[z] /\ r[z] <= r[x]

Ranked(S, r) ==
    /\ \A x \in S : r[x] \in Int
    /\ \A x, y \in S : r[x] = r[y] => x = y

Links(T) == [T -> [next : T, prev : T]]

\* The links M of the objects T thread the members of S in the order of r; all
\* others link to themselves.
Threads(M, T, S, r) ==
    /\ M \in Links(T)
    /\ S \subseteq T
    /\ Ranked(S, r)
    /\ \A x \in S : /\ M[x].next \in S /\ Follows(S, r, x, M[x].next)
                    /\ M[x].prev \in S /\ Follows(S, r, M[x].prev, x)
    /\ \A x \in T \ S : M[x].next = x /\ M[x].prev = x

LEMMA FollowsOnce ==
    ASSUME NEW S, NEW r, Ranked(S, r), NEW x \in S, NEW y \in S, NEW z \in S
    PROVE  /\ Follows(S, r, x, y) /\ Follows(S, r, x, z) => y = z
           /\ Follows(S, r, x, z) /\ Follows(S, r, y, z) => x = y
<1>1. r[x] \in Int /\ r[y] \in Int /\ r[z] \in Int
    BY DEF Ranked
<1>2. ASSUME Follows(S, r, x, y), Follows(S, r, x, z) PROVE r[y] = r[z]
    BY <1>1, <1>2 DEF Follows
<1>3. ASSUME Follows(S, r, x, z), Follows(S, r, y, z) PROVE r[x] = r[y]
    BY <1>1, <1>3 DEF Follows
<1> QED
    BY <1>2, <1>3 DEF Ranked

\* A ring is circular in both directions.
LEMMA RingTurns ==
    ASSUME NEW M, NEW T, NEW S, NEW r, Threads(M, T, S, r), NEW x \in T
    PROVE  M[M[x].next].prev = x /\ M[M[x].prev].next = x
<1>1. CASE x \in S
    <2>1. Ranked(S, r)
        BY DEF Threads
    <2>2. /\ M[x].next \in S /\ Follows(S, r, x, M[x].next)
          /\ M[x].prev \in S /\ Follows(S, r, M[x].prev, x)
        BY <1>1 DEF Threads
    <2>3. M[M[x].next].prev \in S /\ Follows(S, r, M[M[x].next].prev, M[x].next)
        BY <2>2 DEF Threads
    <2>4. M[M[x].prev].next \in S /\ Follows(S, r, M[x].prev, M[M[x].prev].next)
        BY <2>2 DEF Threads
    <2>5. M[M[x].next].prev = x
        BY <1>1, <2>1, <2>2, <2>3, FollowsOnce
    <2>6. M[M[x].prev].next = x
        BY <1>1, <2>1, <2>2, <2>4, FollowsOnce
    <2> QED
        BY <2>5, <2>6
<1>2. CASE x \notin S
    BY <1>2 DEF Threads
<1> QED
    BY <1>1, <1>2

\* Only the order of the ranks matters.
LEMMA Reranked ==
    ASSUME NEW M, NEW T, NEW S, NEW r, NEW r2, Threads(M, T, S, r),
           \A x \in S : r2[x] \in Int,
           \A x, y \in S : r[x] < r[y] <=> r2[x] < r2[y]
    PROVE  Threads(M, T, S, r2)
<1>1. \A x \in S : r[x] \in Int
    BY DEF Threads, Ranked
<1>2. \A x, y \in S : r[x] <= r[y] <=> r2[x] <= r2[y]
    BY <1>1
<1>3. Ranked(S, r2)
    <2> SUFFICES ASSUME NEW x \in S, NEW y \in S, r2[x] = r2[y] PROVE x = y
        BY DEF Ranked
    <2>1. r[x] <= r[y] /\ r[y] <= r[x]
        BY <1>2
    <2>2. r[x] = r[y]
        BY <1>1, <2>1
    <2> QED
        BY <2>2 DEF Threads, Ranked
<1>4. ASSUME NEW x \in S, NEW y \in S, Follows(S, r, x, y) PROVE Follows(S, r2, x, y)
    BY <1>2, <1>4 DEF Follows
<1> QED
    BY <1>3, <1>4 DEF Threads

\* One store to one link.
WithNext(M, a, b) == [M EXCEPT ![a].next = b]
WithPrev(M, a, b) == [M EXCEPT ![a].prev = b]

LEMMA StoreNext ==
    ASSUME NEW T, NEW M \in Links(T), NEW a \in T, NEW b \in T
    PROVE  /\ WithNext(M, a, b) \in Links(T)
           /\ \A x \in T : WithNext(M, a, b)[x].next = IF x = a THEN b ELSE M[x].next
           /\ \A x \in T : WithNext(M, a, b)[x].prev = M[x].prev
BY DEF WithNext, Links

LEMMA StorePrev ==
    ASSUME NEW T, NEW M \in Links(T), NEW a \in T, NEW b \in T
    PROVE  /\ WithPrev(M, a, b) \in Links(T)
           /\ \A x \in T : WithPrev(M, a, b)[x].next = M[x].next
           /\ \A x \in T : WithPrev(M, a, b)[x].prev = IF x = a THEN b ELSE M[x].prev
BY DEF WithPrev, Links

\* The four stores of dlist_add_internal.
LEMMA BetweenLinks ==
    ASSUME NEW T, NEW M \in Links(T),
           NEW n \in T, NEW p \in T, NEW s \in T, n # p, n # s
    PROVE  /\ D!Between(M, n, p, s) \in Links(T)
           /\ D!Between(M, n, p, s)[n].next = s /\ D!Between(M, n, p, s)[n].prev = p
           /\ \A x \in T : x # n =>
                 D!Between(M, n, p, s)[x].next = IF x = p THEN n ELSE M[x].next
           /\ \A x \in T : x # n =>
                 D!Between(M, n, p, s)[x].prev = IF x = s THEN n ELSE M[x].prev
<1>1. PICK B1 : B1 = WithPrev(M, s, n)
    OBVIOUS
<1>2. B1 \in Links(T)
    BY <1>1, StorePrev
<1>3. /\ \A x \in T : B1[x].next = M[x].next
      /\ \A x \in T : B1[x].prev = IF x = s THEN n ELSE M[x].prev
    <2>1. ASSUME NEW x \in T
          PROVE  /\ WithPrev(M, s, n)[x].next = M[x].next
                 /\ WithPrev(M, s, n)[x].prev = IF x = s THEN n ELSE M[x].prev
        BY StorePrev
    <2> QED
        BY <1>1, <2>1, Zenon
<1>4. PICK B2 : B2 = WithNext(B1, n, s)
    OBVIOUS
<1>5. B2 \in Links(T)
    BY <1>2, <1>4, StoreNext
<1>6. /\ \A x \in T : B2[x].next = IF x = n THEN s ELSE B1[x].next
      /\ \A x \in T : B2[x].prev = B1[x].prev
    <2>1. ASSUME NEW x \in T
          PROVE  /\ WithNext(B1, n, s)[x].next = IF x = n THEN s ELSE B1[x].next
                 /\ WithNext(B1, n, s)[x].prev = B1[x].prev
        BY <1>2, StoreNext
    <2> QED
        BY <1>4, <2>1, Zenon
<1>7. PICK B3 : B3 = WithPrev(B2, n, p)
    OBVIOUS
<1>8. B3 \in Links(T)
    BY <1>5, <1>7, StorePrev
<1>9. /\ \A x \in T : B3[x].next = B2[x].next
      /\ \A x \in T : B3[x].prev = IF x = n THEN p ELSE B2[x].prev
    <2>1. ASSUME NEW x \in T
          PROVE  /\ WithPrev(B2, n, p)[x].next = B2[x].next
                 /\ WithPrev(B2, n, p)[x].prev = IF x = n THEN p ELSE B2[x].prev
        BY <1>5, StorePrev
    <2> QED
        BY <1>7, <2>1, Zenon
<1>10. PICK B4 : B4 = WithNext(B3, p, n)
    OBVIOUS
<1>11. B4 \in Links(T)
    BY <1>8, <1>10, StoreNext
<1>12. /\ \A x \in T : B4[x].next = IF x = p THEN n ELSE B3[x].next
      /\ \A x \in T : B4[x].prev = B3[x].prev
    <2>1. ASSUME NEW x \in T
          PROVE  /\ WithNext(B3, p, n)[x].next = IF x = p THEN n ELSE B3[x].next
                 /\ WithNext(B3, p, n)[x].prev = B3[x].prev
        BY <1>8, StoreNext
    <2> QED
        BY <1>10, <2>1, Zenon
<1>13. D!Between(M, n, p, s) = B4
    BY <1>1, <1>4, <1>7, <1>10 DEF D!Between, D!Store, WithNext, WithPrev
<1>14. B4[n].next = s /\ B4[n].prev = p
    BY <1>6, <1>9, <1>12
<1>15. ASSUME NEW x \in T, x # n
       PROVE  /\ B4[x].next = IF x = p THEN n ELSE M[x].next
              /\ B4[x].prev = IF x = s THEN n ELSE M[x].prev
    BY <1>3, <1>6, <1>9, <1>12, <1>15
<1> QED
    BY <1>11, <1>13, <1>14, <1>15

\* Linking n behind p, where its rank belongs.
LEMMA RingInsert ==
    ASSUME NEW M, NEW T, NEW S, NEW r, Threads(M, T, S, r),
           NEW n \in T \ S, NEW p \in S, NEW s \in S, M[p].next = s \/ M[s].prev = p,
           r[n] \in Int, \A x \in S : r[x] # r[n],
           Follows(S \cup {n}, r, p, n), Follows(S \cup {n}, r, n, s)
    PROVE  Threads(D!Between(M, n, p, s), T, S \cup {n}, r)
<1> DEFINE B == D!Between(M, n, p, s)
           S2 == S \cup {n}
<1>1. M[p].next = s /\ M[s].prev = p
    <2>1. p \in T /\ s \in T
        BY DEF Threads
    <2>2. M[M[p].next].prev = p /\ M[M[s].prev].next = s
        BY <2>1, RingTurns
    <2> QED
        BY <2>2
<1>2. /\ B \in Links(T)
      /\ B[n].next = s /\ B[n].prev = p
      /\ \A x \in T : x # n => B[x].next = IF x = p THEN n ELSE M[x].next
      /\ \A x \in T : x # n => B[x].prev = IF x = s THEN n ELSE M[x].prev
    <2>1. M \in Links(T) /\ p \in T /\ s \in T /\ n # p /\ n # s
        BY DEF Threads
    <2> QED
        BY <2>1, BetweenLinks
<1> HIDE DEF B
<1>3. S2 \subseteq T /\ Ranked(S2, r) /\ Ranked(S, r)
    BY DEF Threads, Ranked
<1>4. ASSUME NEW x \in S, NEW y \in S, Follows(S, r, x, y), x # p \/ y # s
      PROVE  Follows(S2, r, x, y)
    <2>1. x # p /\ y # s
        <3>1. M[x].next = y /\ M[y].prev = x
            <4>1. M[x].next \in S /\ Follows(S, r, x, M[x].next)
                  /\ M[y].prev \in S /\ Follows(S, r, M[y].prev, y)
                BY DEF Threads
            <4> QED
                BY <4>1, <1>3, <1>4, FollowsOnce
        <3> QED
            BY <3>1, <1>1, <1>4
    <2>2. /\ r[x] \in Int /\ r[y] \in Int /\ r[n] \in Int /\ r[p] \in Int /\ r[s] \in Int
          /\ r[x] # r[n] /\ r[y] # r[n] /\ r[x] # r[p] /\ r[y] # r[s]
        BY <2>1 DEF Threads, Ranked
    <2>3. \/ r[p] < r[n] /\ (r[x] <= r[p] \/ r[n] <= r[x]) /\ (r[y] <= r[p] \/ r[n] <= r[y])
          \/ /\ r[n] <= r[x] /\ r[x] <= r[p] /\ r[n] <= r[y] /\ r[y] <= r[p]
        BY DEF Follows
    <2>4. \/ r[n] < r[s] /\ (r[x] <= r[n] \/ r[s] <= r[x]) /\ (r[y] <= r[n] \/ r[s] <= r[y])
          \/ /\ r[s] <= r[x] /\ r[x] <= r[n] /\ r[s] <= r[y] /\ r[y] <= r[n]
        BY DEF Follows
    <2>5. CASE r[x] < r[y] /\ \A z \in S : r[z] <= r[x] \/ r[y] <= r[z]
        <3>1. (r[p] <= r[x] \/ r[y] <= r[p]) /\ (r[s] <= r[x] \/ r[y] <= r[s])
            BY <2>5
        <3>2. r[n] <= r[x] \/ r[y] <= r[n]
            BY <2>2, <2>3, <2>4, <2>5, <3>1
        <3> QED
            BY <2>5, <3>2 DEF Follows
    <2>6. CASE \A z \in S : r[y] <= r[z] /\ r[z] <= r[x]
        <3>1. r[y] <= r[p] /\ r[p] <= r[x] /\ r[y] <= r[s] /\ r[s] <= r[x]
            BY <2>6
        <3>2. r[y] <= r[n] /\ r[n] <= r[x]
            BY <2>2, <2>3, <2>4, <3>1
        <3> QED
            BY <2>6, <3>2 DEF Follows
    <2> QED
        BY <1>4, <2>5, <2>6 DEF Follows
<1>5. ASSUME NEW x \in S2
      PROVE  /\ B[x].next \in S2 /\ Follows(S2, r, x, B[x].next)
             /\ B[x].prev \in S2 /\ Follows(S2, r, B[x].prev, x)
    <2>1. CASE x = n
        BY <1>2, <2>1
    <2>2. CASE x # n
        <3>1. x \in S /\ x \in T
            BY <2>2 DEF Threads
        <3>2. /\ M[x].next \in S /\ Follows(S, r, x, M[x].next)
              /\ M[x].prev \in S /\ Follows(S, r, M[x].prev, x)
            BY <3>1 DEF Threads
        <3>3. B[x].next \in S2 /\ Follows(S2, r, x, B[x].next)
            BY <1>2, <1>4, <2>2, <3>1, <3>2
        <3>4. B[x].prev \in S2 /\ Follows(S2, r, B[x].prev, x)
            BY <1>2, <1>4, <2>2, <3>1, <3>2
        <3> QED
            BY <3>3, <3>4
    <2> QED
        BY <2>1, <2>2
<1>6. ASSUME NEW x \in T \ S2 PROVE B[x].next = x /\ B[x].prev = x
    BY <1>2, <1>6 DEF Threads
<1> QED
    <2>1. Threads(B, T, S2, r)
        <3> HIDE DEF S2
        <3> QED
            BY <1>2, <1>3, <1>5, <1>6 DEF Threads
    <2> QED
        BY <2>1 DEF B

\* The two stores of dlist_entry_remove and dlist_head_init.
LEMMA RemoveLinks ==
    ASSUME NEW T, NEW M \in Links(T), NEW n \in T
    PROVE  /\ D!RemoveInit(M, n) \in Links(T)
           /\ D!RemoveInit(M, n)[n].next = n /\ D!RemoveInit(M, n)[n].prev = n
           /\ \A x \in T : x # n =>
                 D!RemoveInit(M, n)[x].next = IF x = M[n].prev THEN M[n].next ELSE M[x].next
           /\ \A x \in T : x # n =>
                 D!RemoveInit(M, n)[x].prev = IF x = M[n].next THEN M[n].prev ELSE M[x].prev
<1>0. PICK a \in T, b \in T : a = M[n].prev /\ b = M[n].next
    <2>1. M[n].next \in T /\ M[n].prev \in T
        BY DEF Links
    <2> QED
        BY <2>1
<1>1. PICK R1 : R1 = WithPrev(M, b, a)
    OBVIOUS
<1>2. R1 \in Links(T)
    BY <1>1, StorePrev
<1>3. /\ \A x \in T : R1[x].next = M[x].next
      /\ \A x \in T : R1[x].prev = IF x = b THEN a ELSE M[x].prev
    <2>1. ASSUME NEW x \in T
          PROVE  /\ WithPrev(M, b, a)[x].next = M[x].next
                 /\ WithPrev(M, b, a)[x].prev = IF x = b THEN a ELSE M[x].prev
        BY StorePrev
    <2> QED
        BY <1>1, <2>1, Zenon
<1>4. PICK R2 : R2 = WithNext(R1, a, b)
    OBVIOUS
<1>5. R2 \in Links(T)
    BY <1>2, <1>4, StoreNext
<1>6. /\ \A x \in T : R2[x].next = IF x = a THEN b ELSE R1[x].next
      /\ \A x \in T : R2[x].prev = R1[x].prev
    <2>1. ASSUME NEW x \in T
          PROVE  /\ WithNext(R1, a, b)[x].next = IF x = a THEN b ELSE R1[x].next
                 /\ WithNext(R1, a, b)[x].prev = R1[x].prev
        BY <1>2, StoreNext
    <2> QED
        BY <1>4, <2>1, Zenon
<1>7. PICK R3 : R3 = [R2 EXCEPT ![n] = [next |-> n, prev |-> n]]
    OBVIOUS
<1>8. /\ R3 \in Links(T)
      /\ R3[n].next = n /\ R3[n].prev = n
      /\ \A x \in T : x # n => R3[x] = R2[x]
    BY <1>5, <1>7 DEF Links
<1>9. D!RemoveInit(M, n) = R3
    BY <1>0, <1>1, <1>4, <1>7 DEF D!RemoveInit, D!Unlink, D!Init, WithNext, WithPrev
<1>10. ASSUME NEW x \in T, x # n
       PROVE  /\ R3[x].next = IF x = a THEN b ELSE M[x].next
              /\ R3[x].prev = IF x = b THEN a ELSE M[x].prev
    BY <1>3, <1>6, <1>8, <1>10
<1> QED
    BY <1>0, <1>8, <1>9, <1>10

LEMMA RingRemove ==
    ASSUME NEW M, NEW T, NEW S, NEW r, Threads(M, T, S, r), NEW n \in S
    PROVE  Threads(D!RemoveInit(M, n), T, S \ {n}, r)
<1> DEFINE R == D!RemoveInit(M, n)
           S2 == S \ {n}
           p == M[n].prev
           s == M[n].next
<1>1. /\ p \in S /\ s \in S /\ M[p].next = n /\ M[s].prev = n
      /\ Follows(S, r, p, n) /\ Follows(S, r, n, s) /\ n \in T
    BY RingTurns DEF Threads
<1>2. /\ R \in Links(T)
      /\ R[n].next = n /\ R[n].prev = n
      /\ \A x \in T : x # n => R[x].next = IF x = p THEN s ELSE M[x].next
      /\ \A x \in T : x # n => R[x].prev = IF x = s THEN p ELSE M[x].prev
    <2>1. M \in Links(T)
        BY DEF Threads
    <2> QED
        BY <1>1, <2>1, RemoveLinks
<1> HIDE DEF R, p, s
<1>3. Ranked(S, r) /\ Ranked(S2, r) /\ S2 \subseteq T
    BY DEF Threads, Ranked
<1>4. Follows(S2, r, p, s)
    <2>1. r[p] \in Int /\ r[n] \in Int /\ r[s] \in Int
        BY <1>1, <1>3 DEF Ranked
    <2>2. \A z \in S2 : r[z] \in Int /\ r[z] # r[n]
        BY <1>3 DEF Ranked
    <2>3. \A z \in S2 : \/ r[p] < r[n] /\ (r[z] <= r[p] \/ r[n] <= r[z])
                        \/ r[n] <= r[z] /\ r[z] <= r[p]
        BY <1>1 DEF Follows
    <2>4. \A z \in S2 : \/ r[n] < r[s] /\ (r[z] <= r[n] \/ r[s] <= r[z])
                        \/ r[s] <= r[z] /\ r[z] <= r[n]
        BY <1>1 DEF Follows
    <2>5. (r[p] < r[n] \/ r[n] <= r[p]) /\ (r[n] < r[s] \/ r[s] <= r[n])
        BY <2>1
    <2>6. CASE r[p] < r[n] /\ r[n] < r[s]
        <3>1. r[p] < r[s]
            BY <2>1, <2>6
        <3>2. \A z \in S2 : r[z] <= r[p] \/ r[s] <= r[z]
            BY <2>1, <2>2, <2>3, <2>4, <2>6
        <3> QED
            BY <3>1, <3>2 DEF Follows
    <2>7. CASE r[n] <= r[p] \/ r[s] <= r[n]
        <3>1. \A z \in S2 : \/ r[s] <= r[z] /\ r[z] <= r[p]
                            \/ r[p] < r[s] /\ (r[z] <= r[p] \/ r[s] <= r[z])
            BY <2>1, <2>2, <2>3, <2>4, <2>7
        <3>2. \/ \A z \in S2 : r[s] <= r[z] /\ r[z] <= r[p]
              \/ r[p] < r[s] /\ \A z \in S2 : r[z] <= r[p] \/ r[s] <= r[z]
            BY <2>1, <2>2, <2>3, <2>4, <2>7, <3>1
        <3> QED
            BY <3>2 DEF Follows
    <2> QED
        BY <2>1, <2>6, <2>7
<1>5. ASSUME NEW x \in S2, NEW y \in S2, Follows(S, r, x, y) PROVE Follows(S2, r, x, y)
    BY <1>5 DEF Follows
<1>6. ASSUME NEW x \in S2
      PROVE  /\ R[x].next \in S2 /\ Follows(S2, r, x, R[x].next)
             /\ R[x].prev \in S2 /\ Follows(S2, r, R[x].prev, x)
    <2>1. /\ x \in T /\ x # n /\ x \in S
          /\ M[x].next \in S /\ Follows(S, r, x, M[x].next)
          /\ M[x].prev \in S /\ Follows(S, r, M[x].prev, x)
        BY DEF Threads
    <2>2. M[x].next = n => x = p
        BY <1>1, <2>1, <1>3, FollowsOnce
    <2>3. M[x].prev = n => x = s
        BY <1>1, <2>1, <1>3, FollowsOnce
    <2>4. x = p => s # n
        BY <1>1, <2>1, <1>3, FollowsOnce
    <2>5. x = s => p # n
        BY <1>1, <2>1, <1>3, FollowsOnce
    <2>6. R[x].next \in S2 /\ Follows(S2, r, x, R[x].next)
        BY <1>1, <1>2, <1>4, <1>5, <2>1, <2>2, <2>4
    <2>7. R[x].prev \in S2 /\ Follows(S2, r, R[x].prev, x)
        BY <1>1, <1>2, <1>4, <1>5, <2>1, <2>3, <2>5
    <2> QED
        BY <2>6, <2>7
<1>7. ASSUME NEW x \in T \ S2 PROVE R[x].next = x /\ R[x].prev = x
    <2>1. CASE x = n
        BY <1>2, <2>1
    <2>2. CASE x # n
        BY <1>1, <1>2, <2>2, <1>7 DEF Threads
    <2> QED
        BY <2>1, <2>2
<1> QED
    <2>1. Threads(R, T, S2, r)
        <3> HIDE DEF S2
        <3> QED
            BY <1>2, <1>3, <1>6, <1>7 DEF Threads
    <2> QED
        BY <2>1 DEF R

\* dlist_remove_init of a node that is on no list changes nothing.
LEMMA RemoveAlone ==
    ASSUME NEW M, NEW T, NEW S, NEW r, Threads(M, T, S, r), NEW n \in T \ S
    PROVE  D!RemoveInit(M, n) = M
<1>1. /\ M \in Links(T) /\ M[n].next = n /\ M[n].prev = n
    BY DEF Threads
<1> DEFINE R == D!RemoveInit(M, n)
<1>2. /\ R \in Links(T)
      /\ R[n].next = n /\ R[n].prev = n
      /\ \A x \in T : x # n => R[x].next = IF x = n THEN n ELSE M[x].next
      /\ \A x \in T : x # n => R[x].prev = IF x = n THEN n ELSE M[x].prev
    BY <1>1, RemoveLinks
<1> HIDE DEF R
<1>3. \A x \in T : R[x].next = M[x].next /\ R[x].prev = M[x].prev
    BY <1>1, <1>2
<1>4. ASSUME NEW x \in T PROVE R[x] = M[x]
    <2>1. R[x] \in [next : T, prev : T] /\ M[x] \in [next : T, prev : T]
        BY <1>1, <1>2 DEF Links
    <2>2. \A a, b \in [next : T, prev : T] : a.next = b.next /\ a.prev = b.prev => a = b
        OBVIOUS
    <2> QED
        BY <1>3, <2>1, <2>2
<1>5. R = M
    BY <1>1, <1>2, <1>4 DEF Links
<1> QED
    BY <1>5 DEF R

\* A function defined by what a step makes of the value before exists.
Iterate(T, a, G) ==
    \E f \in [Nat -> T] : f[0] = a /\ \A i \in Nat \ {0} : f[i] = G[<<i, f[i - 1]>>]

LEMMA Iterates ==
    ASSUME NEW T, NEW a \in T, NEW G \in [Nat \X T -> T]
    PROVE  Iterate(T, a, G)
<1> DEFINE Upto(k, f) ==
        f \in [0..k -> T] /\ f[0] = a /\ \A i \in 1..k : f[i] = G[<<i, f[i - 1]>>]
           Bad == {k \in Nat : ~\E f : Upto(k, f)}
<1>1. Bad = {}
    <2> SUFFICES ASSUME Bad # {} PROVE FALSE
        OBVIOUS
    <2>1. Bad \subseteq Nat
        OBVIOUS
    <2>2. PICK k \in Bad : \A j \in Bad : k <= j
        <3> HIDE DEF Bad
        <3> QED
            BY <2>1, LeastNatural
    <2>3. CASE k = 0
        <3>1. Upto(0, [i \in 0..0 |-> a])
            OBVIOUS
        <3> QED
            BY <2>3, <3>1
    <2>4. CASE k # 0
        <3>1. k \in Nat /\ k - 1 \in Nat /\ k - 1 \notin Bad
            <4> HIDE DEF Bad
            <4>1. k \in Nat
                BY <2>1
            <4>2. k - 1 \in Nat /\ ~(k <= k - 1)
                BY <4>1, <2>4
            <4> QED
                BY <4>1, <4>2, <2>2
        <3>2. PICK g : Upto(k - 1, g)
            BY <3>1
        <3> DEFINE f == [i \in 0..k |-> IF i = k THEN G[<<k, g[k - 1]>>] ELSE g[i]]
        <3>3. \A i \in 0..(k - 1) : g[i] \in T /\ i \in 0..k /\ i # k
            BY <3>1, <3>2
        <3>4. g[k - 1] \in T /\ G[<<k, g[k - 1]>>] \in T
            <4>1. g[k - 1] \in T
                BY <3>1, <3>3
            <4> QED
                BY <3>1, <4>1
        <3>5. /\ \A i \in 0..(k - 1) : f[i] = g[i]
              /\ f[k] = G[<<k, g[k - 1]>>]
            BY <3>1, <3>3
        <3>6. f \in [0..k -> T]
            BY <3>1, <3>3, <3>4
        <3> HIDE DEF f
        <3>7. f[0] = a
            BY <3>1, <3>2, <3>5
        <3>8. ASSUME NEW i \in 1..k PROVE f[i] = G[<<i, f[i - 1]>>]
            <4>1. i - 1 \in 0..(k - 1) /\ f[i - 1] = g[i - 1]
                BY <3>1, <3>5
            <4>2. CASE i = k
                BY <3>5, <4>1, <4>2
            <4>3. CASE i # k
                <5>1. i \in 0..(k - 1) /\ i \in 1..(k - 1)
                    BY <3>1, <4>3
                <5> QED
                    BY <3>2, <3>5, <4>1, <5>1
            <4> QED
                BY <4>2, <4>3
        <3>9. Upto(k, f)
            BY <3>6, <3>7, <3>8
        <3> QED
            BY <2>2, <3>9
    <2> QED
        BY <2>3, <2>4
<1>2. ASSUME NEW k \in Nat PROVE \E f : Upto(k, f)
    BY <1>1
<1>3. ASSUME NEW j \in Nat, NEW k \in Nat, j <= k, NEW f, NEW g, Upto(j, f), Upto(k, g)
      PROVE  f[j] = g[j]
    <2> DEFINE Off == {i \in 0..j : f[i] # g[i]}
    <2> SUFFICES ASSUME Off # {} PROVE FALSE
        OBVIOUS
    <2>1. Off \subseteq Nat
        OBVIOUS
    <2>2. PICK i \in Off : \A x \in Off : i <= x
        <3> HIDE DEF Off
        <3> QED
            BY <2>1, LeastNatural
    <2>3. i # 0
        BY <1>3, <2>2
    <2>4. i \in 1..j /\ i \in 1..k /\ i - 1 \in 0..j /\ i - 1 \notin Off
        BY <1>3, <2>1, <2>2, <2>3
    <2>5. f[i - 1] = g[i - 1]
        BY <2>4
    <2>6. f[i] = G[<<i, f[i - 1]>>] /\ g[i] = G[<<i, g[i - 1]>>]
        BY <1>3, <2>4
    <2> QED
        BY <2>2, <2>5, <2>6
<1> DEFINE ap(k) == CHOOSE f : Upto(k, f)
           F == [k \in Nat |-> ap(k)[k]]
<1>4. \A k \in Nat : Upto(k, ap(k))
    <2> TAKE k \in Nat
    <2> HIDE DEF Upto
    <2> QED
        BY <1>2
<1> HIDE DEF ap
<1>5. F \in [Nat -> T]
    BY <1>4
<1>6. F[0] = a
    BY <1>4
<1>7. ASSUME NEW i \in Nat \ {0} PROVE F[i] = G[<<i, F[i - 1]>>]
    <2>1. i \in Nat /\ i - 1 \in Nat /\ i - 1 <= i /\ i \in 1..i
        OBVIOUS
    <2>2. Upto(i, ap(i)) /\ Upto(i - 1, ap(i - 1))
        BY <1>4, <2>1
    <2>3. ap(i - 1)[i - 1] = ap(i)[i - 1]
        <3> HIDE DEF Upto
        <3> QED
            BY <1>3, <2>1, <2>2
    <2>4. ap(i)[i] = G[<<i, ap(i)[i - 1]>>]
        BY <2>1, <2>2
    <2> QED
        BY <2>1, <2>3, <2>4
<1> HIDE DEF F
<1> QED
    BY <1>5, <1>6, <1>7 DEF Iterate

\* The walk along next from a, as the loops of plist.c make it.
IsWalk(M, a, w) == w = [i \in Nat |-> IF i = 0 THEN a ELSE M[w[i - 1]].next]

LEMMA WalkExists ==
    ASSUME NEW T, NEW M \in Links(T), NEW a \in T
    PROVE  \E f : IsWalk(M, a, f)
<1> DEFINE G == [z \in Nat \X T |-> M[z[2]].next]
<1>1. G \in [Nat \X T -> T] /\ \A i \in Nat, x \in T : G[<<i, x>>] = M[x].next
    BY DEF Links
<1> HIDE DEF G
<1>2. PICK f \in [Nat -> T] : f[0] = a /\ \A i \in Nat \ {0} : f[i] = G[<<i, f[i - 1]>>]
    <2>1. Iterate(T, a, G)
        BY <1>1, Iterates
    <2> QED
        BY <2>1 DEF Iterate
<1>3. \A i \in Nat : f[i] = IF i = 0 THEN a ELSE M[f[i - 1]].next
    <2> TAKE i \in Nat
    <2>1. CASE i = 0
        BY <1>2, <2>1
    <2>2. CASE i # 0
        <3>1. i \in Nat \ {0} /\ i - 1 \in Nat
            BY <2>2
        <3>2. f[i - 1] \in T
            BY <3>1
        <3>3. f[i] = G[<<i, f[i - 1]>>]
            BY <1>2, <3>1
        <3>4. G[<<i, f[i - 1]>>] = M[f[i - 1]].next
            BY <1>1, <3>2
        <3> QED
            BY <2>2, <3>3, <3>4
    <2> QED
        BY <2>1, <2>2
<1>4. f = [i \in Nat |-> f[i]]
    BY <1>2
<1>5. f = [i \in Nat |-> IF i = 0 THEN a ELSE M[f[i - 1]].next]
    BY <1>3, <1>4, Zenon
<1> QED
    BY <1>5 DEF IsWalk

\* The walk along next from a, as the loops of plist.c make it.
LEMMA NextWalk ==
    ASSUME NEW T, NEW M \in Links(T), NEW a \in T, NEW w, IsWalk(M, a, w)
    PROVE  /\ w \in [Nat -> T]
           /\ w[0] = a
           /\ \A i \in Nat : w[i + 1] = M[w[i]].next
<1>1. /\ w = [i \in Nat |-> w[i]]
      /\ w[0] = a
      /\ \A i \in Nat : i # 0 => w[i] = M[w[i - 1]].next
    BY DEF IsWalk
<1>2. ASSUME NEW i \in Nat PROVE w[i + 1] = M[w[i]].next
    <2>1. i + 1 \in Nat /\ i + 1 # 0 /\ (i + 1) - 1 = i
        OBVIOUS
    <2>2. w[i + 1] = M[w[(i + 1) - 1]].next
        BY <1>1, <2>1
    <2> QED
        BY <2>1, <2>2, Zenon
<1>3. \A x \in T : M[x].next \in T
    BY DEF Links
<1>4. w \in [Nat -> T]
    <2> DEFINE Out == {i \in Nat : w[i] \notin T}
    <2>1. Out = {}
        <3> SUFFICES ASSUME Out # {} PROVE FALSE
            OBVIOUS
        <3>1. PICK i \in Out : \A j \in Out : i <= j
            <4>1. Out \subseteq Nat
                OBVIOUS
            <4> HIDE DEF Out
            <4> QED
                BY <4>1, LeastNatural
        <3>2. i # 0 /\ i \in Nat /\ w[i] \notin T
            BY <1>1, <3>1
        <3>3. i - 1 \in Nat /\ i - 1 \notin Out
            BY <3>1, <3>2
        <3>4. w[i - 1] \in T
            BY <3>3
        <3>5. w[i] = M[w[i - 1]].next
            BY <1>1, <3>2
        <3> QED
            BY <1>3, <3>2, <3>4, <3>5, Zenon
    <2>2. \A i \in Nat : w[i] \in T
        BY <2>1
    <2> QED
        BY <1>1, <2>2
<1> QED
    BY <1>1, <1>2, <1>4

\* The walk that the recursive functions of PList define.
Walk(M, a) == CHOOSE w : IsWalk(M, a, w)

\* w is the walk along next from a.
Walks(w, T, M, a) ==
    /\ w \in [Nat -> T]
    /\ w[0] = a
    /\ \A i \in Nat : w[i + 1] = M[w[i]].next

LEMMA WalkFacts ==
    ASSUME NEW T, NEW M \in Links(T), NEW a \in T
    PROVE  Walks(Walk(M, a), T, M, a)
<1>1. IsWalk(M, a, Walk(M, a))
    BY WalkExists DEF Walk
<1> QED
    BY <1>1, NextWalk DEF Walks

LEMMA QueueWalk ==
    ASSUME NEW N
    PROVE  Queue(N) = [i \in 1..Min({k \in 0..Cardinality(Node) : Walk(N, ListHead)[k + 1] = ListHead})
                          |-> Walk(N, ListHead)[i]]
BY Zenon DEF Queue, Walk, IsWalk

LEMMA LeaderWalk ==
    ASSUME NEW P, NEW N
    PROVE  Leader(P, N) = Walk(P, N[ListHead].next)
BY Zenon DEF Leader, Walk, IsWalk

\* The least element that Min chooses.
LEMMA MinFacts ==
    ASSUME NEW S, S \subseteq Nat, S # {}
    PROVE  Min(S) \in S /\ \A x \in S : Min(S) <= x
<1>1. \E x \in S : \A y \in S : x <= y
    BY LeastNatural
<1> QED
    BY <1>1 DEF Min

-----------------------------------------------------------------------------
(* The invariant of the links: they thread a sequence of nodes             *)

Objects == Node \cup {ListHead}

\* The place of a node on the list; of the head, 0.
Rank(q) ==
    [x \in Objects |-> IF x \in Members(q) THEN CHOOSE i \in 1..Len(q) : q[i] = x ELSE 0]

Threaded(q) == Members(q) \cup {ListHead}

\* The first node of each priority.
Leaders(q, pr) ==
    {x \in Members(q) : \A y \in Members(q) : pr[y] = pr[x] => Rank(q)[x] <= Rank(q)[y]}

\* The links P and N hold the list q.
Holds(P, N, pr, q) ==
    /\ q \in Seq(Node) /\ Distinct(q)
    /\ pr \in [Node -> Int] /\ Sorted(q, pr)
    /\ Threads(N, Objects, Threaded(q), Rank(q))
    /\ Threads(P, Node, Leaders(q, pr), Rank(q))

LEMMA RankFacts ==
    ASSUME NEW q \in Seq(Node), Distinct(q)
    PROVE  /\ \A i \in 1..Len(q) : q[i] \in Members(q) /\ Rank(q)[q[i]] = i
           /\ \A x \in Members(q) : x \in Node /\ Rank(q)[x] \in 1..Len(q) /\ q[Rank(q)[x]] = x
           /\ \A x \in Objects \ Members(q) : Rank(q)[x] = 0
           /\ Members(q) \subseteq Node
           /\ ListHead \notin Members(q)
           /\ Rank(q) \in [Objects -> Nat]
<1>1. \A i \in 1..Len(q) : q[i] \in Members(q) /\ q[i] \in Node
    BY DEF Members
<1>2. \A x \in Members(q) : \E i \in 1..Len(q) : q[i] = x
    BY DEF Members
<1>3. Members(q) \subseteq Node
    BY <1>1, <1>2
<1>4. ASSUME NEW x \in Members(q) PROVE Rank(q)[x] \in 1..Len(q) /\ q[Rank(q)[x]] = x
    <2>1. Rank(q)[x] = CHOOSE i \in 1..Len(q) : q[i] = x
        BY <1>3 DEF Rank, Objects
    <2>2. \E i \in 1..Len(q) : q[i] = x
        BY <1>2
    <2> QED
        BY <2>1, <2>2
<1>5. ASSUME NEW i \in 1..Len(q) PROVE Rank(q)[q[i]] = i
    <2>1. Rank(q)[q[i]] \in 1..Len(q) /\ q[Rank(q)[q[i]]] = q[i]
        BY <1>1, <1>4
    <2> QED
        BY <2>1 DEF Distinct
<1>6. ASSUME NEW x \in Objects \ Members(q) PROVE Rank(q)[x] = 0
    BY DEF Rank
<1>7. Rank(q) \in [Objects -> Nat]
    <2>1. ASSUME NEW x \in Objects PROVE Rank(q)[x] \in Nat
        BY <1>4, <1>6
    <2>2. Rank(q) = [x \in Objects |-> Rank(q)[x]]
        BY DEF Rank
    <2> QED
        BY <2>1, <2>2
<1>8. ListHead \notin Members(q)
    BY <1>3, PListAssumption
<1> QED
    BY <1>1, <1>3, <1>4, <1>5, <1>6, <1>7, <1>8

\* The object at place i of the ring, and the place behind it.
NodeAt(q, i) == IF i = 0 THEN ListHead ELSE q[i]
Behind(q, i) == IF i = Len(q) THEN 0 ELSE i + 1

LEMMA RingOfQueue ==
    ASSUME NEW q \in Seq(Node), Distinct(q)
    PROVE  /\ \A i \in 0..Len(q) : /\ NodeAt(q, i) \in Threaded(q) /\ Rank(q)[NodeAt(q, i)] = i
                                   /\ Behind(q, i) \in 0..Len(q)
                                   /\ Follows(Threaded(q), Rank(q), NodeAt(q, i), NodeAt(q, Behind(q, i)))
           /\ \A x \in Threaded(q) : Rank(q)[x] \in 0..Len(q) /\ NodeAt(q, Rank(q)[x]) = x
<1>1. Rank(q)[ListHead] = 0
    BY RankFacts DEF Objects
<1>2. ASSUME NEW x \in Threaded(q) PROVE Rank(q)[x] \in 0..Len(q) /\ NodeAt(q, Rank(q)[x]) = x
    BY <1>1, RankFacts DEF Threaded, NodeAt
<1>3. ASSUME NEW i \in 0..Len(q)
      PROVE  NodeAt(q, i) \in Threaded(q) /\ Rank(q)[NodeAt(q, i)] = i
    BY <1>1, RankFacts DEF Threaded, NodeAt
<1>4. ASSUME NEW i \in 0..Len(q)
      PROVE  /\ Behind(q, i) \in 0..Len(q)
             /\ Follows(Threaded(q), Rank(q), NodeAt(q, i), NodeAt(q, Behind(q, i)))
    <2>1. Behind(q, i) \in 0..Len(q)
        BY DEF Behind
    <2>2. Rank(q)[NodeAt(q, i)] = i /\ Rank(q)[NodeAt(q, Behind(q, i))] = Behind(q, i)
        BY <1>3, <2>1
    <2>3. CASE i = Len(q)
        <3>1. Behind(q, i) = 0
            BY <2>3 DEF Behind
        <3>2. \A z \in Threaded(q) : 0 <= Rank(q)[z] /\ Rank(q)[z] <= i
            BY <1>2, <2>3
        <3> QED
            BY <2>1, <2>2, <3>1, <3>2 DEF Follows
    <2>4. CASE i # Len(q)
        <3>1. Behind(q, i) = i + 1
            BY <2>4 DEF Behind
        <3>2. \A z \in Threaded(q) : Rank(q)[z] <= i \/ i + 1 <= Rank(q)[z]
            BY <1>2
        <3> QED
            BY <2>1, <2>2, <3>1, <3>2 DEF Follows
    <2> QED
        BY <2>1, <2>3, <2>4
<1> QED
    BY <1>2, <1>3, <1>4

\* The links lead from each place to the next.
LEMMA NextOfQueue ==
    ASSUME NEW N, NEW q \in Seq(Node), Distinct(q),
           Threads(N, Objects, Threaded(q), Rank(q)), NEW i \in 0..Len(q)
    PROVE  /\ N[NodeAt(q, i)].next = NodeAt(q, Behind(q, i))
           /\ N[NodeAt(q, Behind(q, i))].prev = NodeAt(q, i)
<1>1. /\ NodeAt(q, i) \in Threaded(q) /\ Behind(q, i) \in 0..Len(q)
      /\ Follows(Threaded(q), Rank(q), NodeAt(q, i), NodeAt(q, Behind(q, i)))
    BY RingOfQueue
<1>2. NodeAt(q, Behind(q, i)) \in Threaded(q)
    BY <1>1, RingOfQueue
<1>3. /\ N[NodeAt(q, i)].next \in Threaded(q)
      /\ Follows(Threaded(q), Rank(q), NodeAt(q, i), N[NodeAt(q, i)].next)
      /\ N[NodeAt(q, Behind(q, i))].prev \in Threaded(q)
      /\ Follows(Threaded(q), Rank(q), N[NodeAt(q, Behind(q, i))].prev, NodeAt(q, Behind(q, i)))
    BY <1>1, <1>2 DEF Threads
<1>4. Ranked(Threaded(q), Rank(q))
    BY DEF Threads
<1> QED
    BY <1>1, <1>2, <1>3, <1>4, FollowsOnce

\* A list of distinct nodes is no longer than there are nodes.
LEMMA LengthBound ==
    ASSUME NEW q \in Seq(Node), Distinct(q)
    PROVE  Cardinality(Node) \in Nat /\ Len(q) <= Cardinality(Node)
<1> DEFINE f == [i \in 1..Len(q) |-> q[i]]
<1>1. IsFiniteSet(Node)
    BY PListAssumption
<1>2. Cardinality(Node) \in Nat
    BY <1>1, FS_CardinalityType
<1>3. f \in Injection(1..Len(q), Node)
    BY DEF Injection, Distinct, IsInjective
<1>4. Cardinality(1..Len(q)) <= Cardinality(Node)
    <2> HIDE DEF f
    <2> QED
        BY <1>1, <1>3, FS_Injection
<1>5. Cardinality(1..Len(q)) = Len(q)
    <2>1. PICK m \in Nat : m = Len(q)
        OBVIOUS
    <2>2. Cardinality(1..m) = IF 1 > m THEN 0 ELSE m - 1 + 1
        BY FS_Interval
    <2>3. Cardinality(1..m) = m
        BY <2>2
    <2> QED
        BY <2>1, <2>3
<1> QED
    BY <1>2, <1>4, <1>5

\* The walk from place c of the list visits the nodes behind it, then the head.
LEMMA QueuePath ==
    ASSUME NEW N, NEW q \in Seq(Node), Distinct(q),
           Threads(N, Objects, Threaded(q), Rank(q)), NEW c \in 0..Len(q)
    PROVE  /\ \A i \in 0..(Len(q) - c) : Walk(N, NodeAt(q, c))[i] = NodeAt(q, c + i)
           /\ Walk(N, NodeAt(q, c))[Len(q) - c + 1] = ListHead
<1> DEFINE w == Walk(N, NodeAt(q, c))
<1>1. w[0] = NodeAt(q, c) /\ \A i \in Nat : w[i + 1] = N[w[i]].next
    <2>1. N \in Links(Objects)
        BY DEF Threads
    <2>2. NodeAt(q, c) \in Objects
        <3>1. NodeAt(q, c) \in Threaded(q)
            BY RingOfQueue
        <3>2. Threaded(q) \subseteq Objects
            BY DEF Threads
        <3> QED
            BY <3>1, <3>2
    <2>3. Walks(w, Objects, N, NodeAt(q, c))
        BY <2>1, <2>2, WalkFacts
    <2> QED
        BY <2>3 DEF Walks
<1> HIDE DEF w
<1>2. \A i \in 0..(Len(q) - c) : w[i] = NodeAt(q, c + i)
    <2> DEFINE Off == {i \in 0..(Len(q) - c) : w[i] # NodeAt(q, c + i)}
    <2> SUFFICES ASSUME Off # {} PROVE FALSE
        OBVIOUS
    <2>1. PICK i \in Off : \A j \in Off : i <= j
        <3>1. Off \subseteq Nat
            OBVIOUS
        <3> HIDE DEF Off
        <3> QED
            BY <3>1, LeastNatural
    <2>2. i \in 0..(Len(q) - c) /\ w[i] # NodeAt(q, c + i)
        OBVIOUS
    <2>3. i # 0
        <3>1. c + 0 = c
            OBVIOUS
        <3> QED
            BY <1>1, <2>2, <3>1
    <2>4. PICK j \in Nat : i = j + 1 /\ j \in 0..(Len(q) - c) /\ j \notin Off
        <3>1. i - 1 \in Nat /\ i = (i - 1) + 1 /\ i - 1 \in 0..(Len(q) - c) /\ ~(i <= i - 1)
            BY <2>2, <2>3
        <3>2. i - 1 \notin Off
            <4> HIDE DEF Off
            <4> QED
                BY <3>1, <2>1
        <3> QED
            BY <3>1, <3>2
    <2>5. w[j] = NodeAt(q, c + j)
        BY <2>4
    <2>6. w[j + 1] = N[w[j]].next
        BY <1>1, <2>4
    <2>7. c + j \in 0..Len(q) /\ c + j # Len(q) /\ (c + j) + 1 = c + i
        BY <2>2, <2>4
    <2>8. N[NodeAt(q, c + j)].next = NodeAt(q, Behind(q, c + j))
        BY <2>7, NextOfQueue
    <2>9. Behind(q, c + j) = c + i
        BY <2>7 DEF Behind
    <2> QED
        BY <2>2, <2>4, <2>5, <2>6, <2>8, <2>9
<1>3. w[Len(q) - c + 1] = ListHead
    <2>0. PICK j : j = Len(q) - c
        OBVIOUS
    <2>1. j \in Nat /\ j \in 0..(Len(q) - c) /\ c + j = Len(q)
        <3>1. Len(q) \in Nat /\ c \in Nat /\ c <= Len(q)
            OBVIOUS
        <3>2. \A a, b \in Nat : b <= a => a - b \in Nat /\ b + (a - b) = a /\ a - b \in 0..(a - b)
            OBVIOUS
        <3> QED
            BY <2>0, <3>1, <3>2
    <2>2. w[j + 1] = N[w[j]].next /\ w[j] = NodeAt(q, Len(q))
        BY <1>1, <1>2, <2>1
    <2>3. N[NodeAt(q, Len(q))].next = NodeAt(q, Behind(q, Len(q)))
        BY NextOfQueue
    <2>4. NodeAt(q, Behind(q, Len(q))) = ListHead
        BY DEF Behind, NodeAt
    <2> QED
        BY <2>0, <2>2, <2>3, <2>4
<1> QED
    BY <1>2, <1>3 DEF w

\* plist_foreach visits the nodes of the list in their order.
LEMMA QueueIs ==
    ASSUME NEW N, NEW q \in Seq(Node), Distinct(q),
           Threads(N, Objects, Threaded(q), Rank(q))
    PROVE  Queue(N) = q
<1> DEFINE w == Walk(N, ListHead)
           E == {k \in 0..Cardinality(Node) : w[k + 1] = ListHead}
<1>1. Queue(N) = [i \in 1..Min(E) |-> w[i]]
    BY QueueWalk
<1>2. NodeAt(q, 0) = ListHead
    BY DEF NodeAt
<1>3. (\A i \in 0..Len(q) : w[i] = NodeAt(q, i)) /\ w[Len(q) + 1] = ListHead
    <2>1. /\ \A i \in 0..(Len(q) - 0) : w[i] = NodeAt(q, 0 + i)
          /\ w[Len(q) - 0 + 1] = ListHead
        BY <1>2, QueuePath
    <2> HIDE DEF w
    <2> QED
        BY <2>1
<1> HIDE DEF w
<1>4. \A i \in 1..Len(q) : w[i] = q[i] /\ q[i] # ListHead
    <2> TAKE i \in 1..Len(q)
    <2>1. w[i] = NodeAt(q, i)
        BY <1>3
    <2>2. q[i] # ListHead
        BY RankFacts
    <2> QED
        BY <2>1, <2>2 DEF NodeAt
<1>5. Min(E) = Len(q)
    <2>1. Len(q) \in E
        BY <1>3, LengthBound
    <2>2. E \subseteq Nat
        BY LengthBound
    <2>3. Min(E) \in E /\ \A x \in E : Min(E) <= x
        <3> HIDE DEF E
        <3> QED
            BY <2>1, <2>2, MinFacts
    <2>4. Min(E) \in Nat /\ w[Min(E) + 1] = ListHead /\ Min(E) <= Len(q)
        BY <2>1, <2>2, <2>3
    <2>5. Min(E) + 1 \notin 1..Len(q)
        BY <1>4, <2>4
    <2> QED
        BY <2>4, <2>5
<1>6. Queue(N) = [i \in 1..Len(q) |-> w[i]]
    BY <1>1, <1>5
<1>7. q = [i \in 1..Len(q) |-> q[i]]
    OBVIOUS
<1> QED
    BY <1>4, <1>6, <1>7

\* What the operations of plist.c find at the head and at a node.
LEMMA LinkFacts ==
    ASSUME NEW N, NEW q \in Seq(Node), Distinct(q),
           Threads(N, Objects, Threaded(q), Rank(q))
    PROVE  /\ D!IsEmpty(N, ListHead) <=> q = << >>
           /\ \A n \in Node : D!IsEmpty(N, n) <=> n \notin Members(q)
           /\ q # << >> => N[ListHead].next = q[1] /\ N[ListHead].prev = q[Len(q)]
           /\ \A i \in 1..Len(q) : N[q[i]].next = IF i = Len(q) THEN ListHead ELSE q[i + 1]
<1>1. \A i \in 1..Len(q) : q[i] # ListHead /\ q[i] \in Members(q)
    BY RankFacts
<1>2. ASSUME NEW i \in 1..Len(q)
      PROVE  N[q[i]].next = IF i = Len(q) THEN ListHead ELSE q[i + 1]
    <2>1. N[NodeAt(q, i)].next = NodeAt(q, Behind(q, i))
        BY NextOfQueue
    <2> QED
        BY <2>1 DEF NodeAt, Behind
<1>3. q # << >> => N[ListHead].next = q[1] /\ N[ListHead].prev = q[Len(q)]
    <2> HAVE q # << >>
    <2>1. N[NodeAt(q, 0)].next = NodeAt(q, Behind(q, 0))
        BY NextOfQueue
    <2>2. N[NodeAt(q, Behind(q, Len(q)))].prev = NodeAt(q, Len(q))
        BY NextOfQueue
    <2> QED
        BY <2>1, <2>2 DEF NodeAt, Behind
<1>4. D!IsEmpty(N, ListHead) <=> q = << >>
    <2>1. CASE q = << >>
        <3>1. N[NodeAt(q, 0)].next = NodeAt(q, Behind(q, 0))
            BY NextOfQueue
        <3> QED
            BY <2>1, <3>1 DEF NodeAt, Behind, D!IsEmpty
    <2>2. CASE q # << >>
        BY <1>1, <1>3, <2>2 DEF D!IsEmpty
    <2> QED
        BY <2>1, <2>2
<1>5. ASSUME NEW n \in Node PROVE D!IsEmpty(N, n) <=> n \notin Members(q)
    <2>1. CASE n \in Members(q)
        <3>1. PICK i \in 1..Len(q) : q[i] = n
            BY <2>1 DEF Members
        <3>2. N[n].next # n
            <4>1. CASE i = Len(q)
                BY <1>1, <1>2, <3>1, <4>1
            <4>2. CASE i # Len(q)
                <5>1. i + 1 \in 1..Len(q) /\ i + 1 # i
                    BY <4>2
                <5>2. q[i + 1] # q[i]
                    BY <5>1 DEF Distinct
                <5> QED
                    BY <1>2, <3>1, <4>2, <5>2
            <4> QED
                BY <4>1, <4>2
        <3> QED
            BY <2>1, <3>2 DEF D!IsEmpty
    <2>2. CASE n \notin Members(q)
        <3>1. n \in Objects \ Threaded(q)
            BY <2>2, PListAssumption DEF Objects, Threaded
        <3> QED
            BY <2>2, <3>1 DEF Threads, D!IsEmpty
    <2> QED
        BY <2>1, <2>2
<1> QED
    BY <1>2, <1>3, <1>4, <1>5, Zenon

-----------------------------------------------------------------------------
(* plist_add: the walk along the leaders                                   *)

\* A sorted list, seen through the ranks of its nodes.
LEMMA SortedRank ==
    ASSUME NEW q \in Seq(Node), Distinct(q), NEW pr \in [Node -> Int], Sorted(q, pr),
           NEW x \in Members(q), NEW y \in Members(q)
    PROVE  /\ pr[x] \in Int /\ pr[y] \in Int
           /\ Rank(q)[x] \in 1..Len(q) /\ Rank(q)[y] \in 1..Len(q)
           /\ Rank(q)[x] <= Rank(q)[y] => pr[x] <= pr[y]
           /\ pr[x] < pr[y] => Rank(q)[x] < Rank(q)[y]
           /\ Rank(q)[x] = Rank(q)[y] => x = y
<1>1. /\ x \in Node /\ Rank(q)[x] \in 1..Len(q) /\ q[Rank(q)[x]] = x
      /\ y \in Node /\ Rank(q)[y] \in 1..Len(q) /\ q[Rank(q)[y]] = y
    BY RankFacts
<1>2. pr[x] \in Int /\ pr[y] \in Int
    BY <1>1
<1>3. Rank(q)[x] = Rank(q)[y] => x = y
    BY <1>1
<1>4. Rank(q)[x] < Rank(q)[y] => pr[x] <= pr[y]
    BY <1>1 DEF Sorted
<1>5. Rank(q)[y] < Rank(q)[x] => pr[y] <= pr[x]
    BY <1>1 DEF Sorted
<1> DEFINE a == Rank(q)[x]
           b == Rank(q)[y]
<1>6. a \in Int /\ b \in Int
    BY <1>1
<1>7. (a = b => x = y) /\ (a < b => pr[x] <= pr[y]) /\ (b < a => pr[y] <= pr[x])
    BY <1>3, <1>4, <1>5
<1>8. a = b => pr[x] = pr[y]
    BY <1>7
<1> HIDE DEF a, b
<1>9. (a <= b => pr[x] <= pr[y]) /\ (pr[x] < pr[y] => a < b)
    BY <1>2, <1>6, <1>7, <1>8
<1> QED
    BY <1>1, <1>2, <1>3, <1>9 DEF a, b

\* Every priority on the list has a leader, and the leaders are ranked by
\* their priorities.
LEMMA LeaderFacts ==
    ASSUME NEW q \in Seq(Node), Distinct(q), NEW pr \in [Node -> Int], Sorted(q, pr)
    PROVE  /\ Leaders(q, pr) \subseteq Members(q)
           /\ \A x \in Members(q) : \E y \in Leaders(q, pr) :
                 pr[y] = pr[x] /\ Rank(q)[y] <= Rank(q)[x]
           /\ \A x, y \in Leaders(q, pr) : Rank(q)[x] < Rank(q)[y] => pr[x] < pr[y]
           /\ q # << >> => q[1] \in Leaders(q, pr) /\ Rank(q)[q[1]] = 1
<1>1. ASSUME NEW x \in Members(q)
      PROVE  \E y \in Leaders(q, pr) : pr[y] = pr[x] /\ Rank(q)[y] <= Rank(q)[x]
    <2> DEFINE G == {y \in Members(q) : pr[y] = pr[x]}
               K == {Rank(q)[y] : y \in G}
    <2>1. K \subseteq Nat /\ K # {}
        <3>1. \A y \in Members(q) : Rank(q)[y] \in Nat
            BY RankFacts
        <3>2. Rank(q)[x] \in K
            OBVIOUS
        <3> QED
            BY <3>1, <3>2
    <2>2. PICK k \in K : \A j \in K : k <= j
        <3> HIDE DEF K
        <3> QED
            BY <2>1, LeastNatural
    <2>3. PICK y \in G : k = Rank(q)[y]
        BY <2>2
    <2>4. \A z \in G : Rank(q)[y] <= Rank(q)[z]
        BY <2>2, <2>3
    <2>5. y \in Leaders(q, pr)
        BY <2>3, <2>4 DEF Leaders
    <2> QED
        BY <2>3, <2>4, <2>5
<1>2. ASSUME NEW x \in Leaders(q, pr), NEW y \in Leaders(q, pr), Rank(q)[x] < Rank(q)[y]
      PROVE  pr[x] < pr[y]
    <2>1. x \in Members(q) /\ y \in Members(q)
        BY DEF Leaders
    <2>2. pr[x] = pr[y] => Rank(q)[y] <= Rank(q)[x]
        BY <2>1 DEF Leaders
    <2> QED
        BY <1>2, <2>1, <2>2, SortedRank
<1>3. q # << >> => q[1] \in Leaders(q, pr) /\ Rank(q)[q[1]] = 1
    <2> HAVE q # << >>
    <2>1. q[1] \in Members(q) /\ Rank(q)[q[1]] = 1
        BY RankFacts
    <2>2. \A y \in Members(q) : 1 <= Rank(q)[y]
        BY RankFacts
    <2> QED
        BY <2>1, <2>2 DEF Leaders
<1>4. Leaders(q, pr) \subseteq Members(q)
    BY DEF Leaders
<1> QED
    BY <1>1, <1>2, <1>3, <1>4, Zenon

\* The walk of plist_add along the leaders comes back to the first.
Around(P, N) == Min({k \in 1..Cardinality(Node) : Leader(P, N)[k] = Leader(P, N)[0]})

LEMMA LeadersWalk ==
    ASSUME NEW P, NEW N, NEW pr, NEW q, Holds(P, N, pr, q), q # << >>
    PROVE  /\ Around(P, N) \in Nat \ {0}
           /\ Leader(P, N)[0] = q[1] /\ Leader(P, N)[Around(P, N)] = q[1]
           /\ \A i \in Nat : Leader(P, N)[i] \in Leaders(q, pr)
           /\ \A i \in Nat :
                 Follows(Leaders(q, pr), Rank(q), Leader(P, N)[i], Leader(P, N)[i + 1])
           /\ \A z \in Leaders(q, pr) : Rank(q)[z] <= Rank(q)[Leader(P, N)[Around(P, N) - 1]]
<1> DEFINE l == Leader(P, N)
           L == Leaders(q, pr)
           r == Rank(q)
           E == {k \in 1..Cardinality(Node) : l[k] = l[0]}
<1>0. /\ q \in Seq(Node) /\ Distinct(q) /\ pr \in [Node -> Int] /\ Sorted(q, pr)
      /\ Threads(N, Objects, Threaded(q), Rank(q)) /\ Threads(P, Node, L, r)
    BY DEF Holds
<1>1. /\ \A i \in Nat : l[i] \in Node
      /\ l[0] = q[1]
      /\ \A i \in Nat : l[i + 1] = P[l[i]].next
    <2>1. N[ListHead].next = q[1] /\ q[1] \in Node
        BY <1>0, LinkFacts
    <2>2. l = Walk(P, q[1])
        BY <2>1, LeaderWalk
    <2>3. P \in Links(Node)
        BY <1>0 DEF Threads
    <2>4. Walks(l, Node, P, q[1])
        BY <2>1, <2>2, <2>3, WalkFacts
    <2> QED
        BY <2>4 DEF Walks
<1>2. /\ L \subseteq Members(q) /\ q[1] \in L /\ r[q[1]] = 1
      /\ \A z \in Members(q) : r[z] \in 1..Len(q)
    BY <1>0, LeaderFacts, RankFacts
<1>3. \A x \in L : P[x].next \in L /\ Follows(L, r, x, P[x].next)
    BY <1>0 DEF Threads
<1> HIDE DEF l, L, r
<1>4. \A i \in Nat : l[i] \in L
    <2> DEFINE Off == {i \in Nat : l[i] \notin L}
    <2> SUFFICES ASSUME Off # {} PROVE FALSE
        OBVIOUS
    <2>1. PICK i \in Off : \A j \in Off : i <= j
        <3>1. Off \subseteq Nat
            OBVIOUS
        <3> HIDE DEF Off
        <3> QED
            BY <3>1, LeastNatural
    <2>2. i \in Nat /\ l[i] \notin L
        OBVIOUS
    <2>3. i # 0
        BY <1>1, <1>2, <2>2
    <2>4. i - 1 \in Nat /\ ~(i <= i - 1)
        BY <2>2, <2>3
    <2>5. i - 1 \notin Off
        <3> HIDE DEF Off
        <3> QED
            BY <2>4, <2>1
    <2>6. l[i - 1] \in L
        BY <2>4, <2>5
    <2>7. l[(i - 1) + 1] \in L
        BY <1>1, <1>3, <2>4, <2>6
    <2> QED
        BY <2>2, <2>7
<1>5. \A i \in Nat : Follows(L, r, l[i], l[i + 1]) /\ r[l[i]] \in 1..Len(q)
    BY <1>1, <1>2, <1>3, <1>4
<1>6. ASSUME NEW i \in Nat, l[i + 1] # q[1]
      PROVE  r[l[i]] < r[l[i + 1]]
    <2>1. l[i + 1] \in L /\ r[l[i + 1]] # 1
        <3>1. l[i + 1] \in L
            BY <1>4
        <3> QED
            BY <1>0, <1>2, <1>6, <3>1, SortedRank DEF r
    <2> QED
        BY <1>2, <1>5, <2>1 DEF Follows
<1>7. E # {}
    <2> SUFFICES ASSUME E = {} PROVE FALSE
        OBVIOUS
    <2> DEFINE C == Cardinality(Node)
               Off == {i \in 0..C : ~(i + 1 <= r[l[i]])}
    <2>1. C \in Nat /\ Len(q) <= C
        BY <1>0, LengthBound
    <2> HIDE DEF C
    <2>2. Off = {}
        <3> SUFFICES ASSUME Off # {} PROVE FALSE
            OBVIOUS
        <3>1. PICK i \in Off : \A j \in Off : i <= j
            <4>1. Off \subseteq Nat
                BY <2>1
            <4> HIDE DEF Off
            <4> QED
                BY <4>1, LeastNatural
        <3>2. i \in 0..C /\ ~(i + 1 <= r[l[i]])
            OBVIOUS
        <3>3. i # 0
            <4>1. r[l[0]] = 1
                BY <1>1, <1>2
            <4> QED
                BY <3>2, <4>1
        <3>4. PICK j \in Nat : i = j + 1 /\ j \in 0..C /\ ~(i <= j)
            <4>1. i - 1 \in Nat /\ i = (i - 1) + 1 /\ i - 1 \in 0..C /\ ~(i <= i - 1)
                BY <2>1, <3>2, <3>3
            <4> QED
                BY <4>1
        <3>5. j \notin Off
            <4> HIDE DEF Off
            <4> QED
                BY <3>1, <3>4
        <3>6. j + 1 <= r[l[j]]
            BY <3>4, <3>5
        <3>7. l[j + 1] # q[1]
            <4>1. j + 1 \in 1..C /\ j + 1 \notin E
                BY <2>1, <3>2, <3>4
            <4> QED
                BY <1>1, <4>1 DEF C
        <3>8. r[l[j]] < r[l[j + 1]] /\ r[l[j]] \in Int /\ r[l[j + 1]] \in Int
            <4>1. r[l[j]] < r[l[j + 1]]
                BY <1>6, <3>7
            <4>2. j + 1 \in Nat
                BY <3>4
            <4>3. \A x \in Nat : r[l[x]] \in 1..Len(q)
                BY <1>5
            <4>4. r[l[j]] \in 1..Len(q) /\ r[l[j + 1]] \in 1..Len(q)
                BY <4>2, <4>3, Zenon
            <4> QED
                BY <4>1, <4>4
        <3> QED
            BY <3>2, <3>4, <3>6, <3>8
    <2>3. C + 1 <= r[l[C]]
        BY <2>1, <2>2
    <2>4. r[l[C]] \in 1..Len(q)
        BY <1>5, <2>1
    <2> QED
        BY <2>1, <2>3, <2>4
<1> DEFINE A == Around(P, N)
<1>8. A \in Nat \ {0} /\ l[A] = l[0] /\ \A k \in 1..(A - 1) : l[k] # l[0]
    <2>1. E \subseteq Nat /\ Cardinality(Node) \in Nat
        BY <1>0, LengthBound
    <2>2. A = Min(E)
        BY DEF Around, l
    <2>3. A \in E /\ \A x \in E : A <= x
        <3> HIDE DEF E, A
        <3> QED
            BY <1>7, <2>1, <2>2, MinFacts
    <2>4. A \in 1..Cardinality(Node) /\ l[A] = l[0]
        BY <2>3
    <2>5. ASSUME NEW k \in 1..(A - 1) PROVE l[k] # l[0]
        <3>1. k \in 1..Cardinality(Node) /\ ~(A <= k)
            BY <2>1, <2>4
        <3>2. k \notin E
            <4> HIDE DEF E, A
            <4> QED
                BY <2>3, <3>1
        <3> QED
            BY <3>1, <3>2
    <2> QED
        BY <2>1, <2>4, <2>5
<1> HIDE DEF A
<1>9. \A z \in L : r[z] <= r[l[A - 1]]
    <2>1. A - 1 \in Nat /\ (A - 1) + 1 = A
        BY <1>8
    <2>2. Follows(L, r, l[A - 1], q[1]) /\ r[l[A - 1]] \in 1..Len(q)
        BY <1>1, <1>5, <1>8, <2>1
    <2>3. PICK c : c = r[l[A - 1]]
        OBVIOUS
    <2>4. c \in 1..Len(q) /\ (c < 1 \/ \A z \in L : r[z] <= c)
        BY <1>2, <2>2, <2>3, Zenon DEF Follows
    <2>5. ~(c < 1)
        BY <2>4
    <2> QED
        BY <2>3, <2>4, <2>5, Zenon
<1> QED
    BY <1>1, <1>4, <1>5, <1>8, <1>9 DEF A, l, L, r

-----------------------------------------------------------------------------
(* plist_add: the two insertions                                           *)

\* q with n at place k.
Inserted(q, n, k) ==
    [i \in 1..(Len(q) + 1) |-> CASE i < k -> q[i] [] i = k -> n [] OTHER -> q[i - 1]]

LEMMA EnqueueAt ==
    ASSUME NEW q \in Seq(Node), NEW pr \in [Node -> Int], NEW n \in Node,
           NEW k, IsSlot(q, pr, n, k)
    PROVE  /\ Enqueue(q, pr, n) = Inserted(q, n, k)
           /\ k \in 1..(Len(q) + 1)
           /\ Len(Enqueue(q, pr, n)) = Len(q) + 1
           /\ Enqueue(q, pr, n)[k] = n
           /\ \A i \in 1..Len(q) : i < k => Enqueue(q, pr, n)[i] = q[i]
           /\ \A i \in 1..Len(q) : k <= i => Enqueue(q, pr, n)[i + 1] = q[i]
<1>1. k \in 1..(Len(q) + 1)
    BY DEF IsSlot
<1>2. ASSUME NEW j \in 1..(Len(q) + 1), IsSlot(q, pr, n, j) PROVE j = k
    <2>1. \A i \in 1..Len(q) : pr[q[i]] \in Int
        OBVIOUS
    <2>2. CASE j < k
        <3>1. j \in 1..(k - 1) /\ j \in 1..Len(q)
            BY <1>1, <2>2
        <3>2. pr[q[j]] <= pr[n] /\ pr[n] < pr[q[j]]
            BY <1>2, <3>1 DEF IsSlot
        <3> QED
            BY <2>1, <3>1, <3>2
    <2>3. CASE k < j
        <3>1. k \in 1..(j - 1) /\ k \in 1..Len(q)
            BY <1>1, <2>3
        <3>2. pr[q[k]] <= pr[n] /\ pr[n] < pr[q[k]]
            BY <1>2, <3>1 DEF IsSlot
        <3> QED
            BY <2>1, <3>1, <3>2
    <2> QED
        BY <1>1, <2>2, <2>3
<1>3. (CHOOSE j \in 1..(Len(q) + 1) : IsSlot(q, pr, n, j)) = k
    BY <1>1, <1>2
<1>4. Enqueue(q, pr, n) = Inserted(q, n, k)
    <2>1. Enqueue(q, pr, n) = Inserted(q, n, CHOOSE j \in 1..(Len(q) + 1) : IsSlot(q, pr, n, j))
        BY Zenon DEF Enqueue, Inserted
    <2> QED
        BY <1>3, <2>1, Zenon
<1>5. Len(Inserted(q, n, k)) = Len(q) + 1
    BY DEF Inserted
<1>6. Inserted(q, n, k)[k] = n
    BY <1>1 DEF Inserted
<1>7. ASSUME NEW i \in 1..Len(q)
      PROVE  /\ i < k => Inserted(q, n, k)[i] = q[i]
             /\ k <= i => Inserted(q, n, k)[i + 1] = q[i]
    <2>1. CASE i < k
        BY <1>1, <2>1 DEF Inserted
    <2>2. CASE ~(i < k)
        <3>1. i + 1 \in 1..(Len(q) + 1) /\ ~(i + 1 < k) /\ i + 1 # k /\ (i + 1) - 1 = i
            BY <1>1, <2>2
        <3>2. Inserted(q, n, k)[i + 1] = q[(i + 1) - 1]
            BY <3>1 DEF Inserted
        <3> QED
            BY <2>2, <3>1, <3>2
    <2> QED
        BY <2>1, <2>2
<1> QED
    BY <1>1, <1>4, <1>5, <1>6, <1>7

\* The ranks behind the new node move up by one.
LEMMA EnqueueRank ==
    ASSUME NEW q \in Seq(Node), Distinct(q), NEW pr \in [Node -> Int],
           NEW n \in Node, n \notin Members(q), NEW k, IsSlot(q, pr, n, k)
    PROVE  /\ Rank(Enqueue(q, pr, n))[n] = k
           /\ \A x \in Threaded(q) :
                 Rank(Enqueue(q, pr, n))[x] = IF Rank(q)[x] < k THEN Rank(q)[x] ELSE Rank(q)[x] + 1
           /\ Threaded(Enqueue(q, pr, n)) = Threaded(q) \cup {n}
<1> DEFINE e == Enqueue(q, pr, n)
<1>1. /\ e \in Seq(Node) /\ Distinct(e)
      /\ Members(e) = Members(q) \cup {n}
    BY EnqueueFacts
<1>2. /\ k \in 1..(Len(q) + 1) /\ Len(e) = Len(q) + 1 /\ e[k] = n
      /\ \A i \in 1..Len(q) : i < k => e[i] = q[i]
      /\ \A i \in 1..Len(q) : k <= i => e[i + 1] = q[i]
    BY EnqueueAt
<1> HIDE DEF e
<1>3. \A i \in 1..Len(e) : Rank(e)[e[i]] = i
    BY <1>1, RankFacts
<1>4. Rank(e)[n] = k
    BY <1>2, <1>3
<1>5. ASSUME NEW x \in Members(q)
      PROVE  Rank(e)[x] = IF Rank(q)[x] < k THEN Rank(q)[x] ELSE Rank(q)[x] + 1
    <2>1. PICK i \in 1..Len(q) : i = Rank(q)[x] /\ q[i] = x
        BY RankFacts
    <2>2. PICK j : j = IF i < k THEN i ELSE i + 1
        OBVIOUS
    <2>3. j \in 1..Len(e)
        BY <1>2, <2>2
    <2>4. e[j] = x
        <3>1. CASE i < k
            BY <1>2, <2>1, <2>2, <3>1
        <3>2. CASE k <= i
            BY <1>2, <2>1, <2>2, <3>2
        <3> QED
            BY <1>2, <3>1, <3>2
    <2> QED
        BY <1>3, <2>1, <2>2, <2>3, <2>4
<1>6. Rank(e)[ListHead] = 0 /\ Rank(q)[ListHead] = 0
    <2>1. ListHead \in Objects /\ ListHead \notin Members(e) /\ ListHead \notin Members(q)
        BY <1>1, RankFacts DEF Objects
    <2> QED
        BY <1>1, <2>1, RankFacts
<1>7. ASSUME NEW x \in Threaded(q)
      PROVE  Rank(e)[x] = IF Rank(q)[x] < k THEN Rank(q)[x] ELSE Rank(q)[x] + 1
    <2>1. CASE x \in Members(q)
        BY <1>5, <2>1
    <2>2. CASE x = ListHead
        <3>1. 0 < k
            BY <1>2
        <3> QED
            BY <1>6, <2>2, <3>1
    <2> QED
        BY <2>1, <2>2 DEF Threaded
<1>8. Threaded(e) = Threaded(q) \cup {n}
    BY <1>1 DEF Threaded
<1> QED
    BY <1>4, <1>7, <1>8 DEF e

\* Behind its new neighbour's old predecessor is where a node goes in front of
\* that neighbour.
LEMMA RingPlace ==
    ASSUME NEW M, NEW T, NEW S, NEW r, Threads(M, T, S, r),
           NEW n \in T \ S, NEW s \in S,
           r[n] \in Int, \A x \in S : r[x] # r[n],
           Follows(S \cup {n}, r, n, s)
    PROVE  Threads(D!AddTail(M, n, s), T, S \cup {n}, r)
<1>1. PICK p : p = M[s].prev
    OBVIOUS
<1>2. p \in S /\ Follows(S, r, p, s)
    BY <1>1 DEF Threads
<1>3. \A x \in S : r[x] \in Int
    BY DEF Threads, Ranked
<1>4. \A z \in S : \/ r[n] < r[s] /\ (r[z] <= r[n] \/ r[s] <= r[z])
                   \/ r[s] <= r[z] /\ r[z] <= r[n]
    BY DEF Follows
<1>5. r[n] < r[s] \/ r[s] < r[n]
    BY <1>3
<1>6. CASE r[n] < r[s]
    <2>1. \A z \in S : r[z] <= r[n] \/ r[s] <= r[z]
        BY <1>3, <1>4, <1>6
    <2>4. Follows(S \cup {n}, r, p, n)
        <3>1. CASE r[p] < r[s] /\ \A z \in S : r[z] <= r[p] \/ r[s] <= r[z]
            <4>1. r[p] < r[n]
                BY <1>2, <1>3, <2>1, <3>1
            <4>2. \A z \in S \cup {n} : r[z] <= r[p] \/ r[n] <= r[z]
                BY <1>3, <1>6, <3>1
            <4> QED
                BY <4>1, <4>2, Zenon DEF Follows
        <3>2. CASE \A z \in S : r[s] <= r[z] /\ r[z] <= r[p]
            <4>1. r[n] < r[p]
                BY <1>2, <1>3, <1>6, <3>2
            <4>2. ASSUME NEW z \in S \cup {n} PROVE r[n] <= r[z] /\ r[z] <= r[p]
                <5>1. CASE z = n
                    BY <1>2, <1>3, <4>1, <5>1
                <5>2. CASE z \in S
                    <6>1. r[z] \in Int /\ r[s] \in Int /\ r[s] <= r[z] /\ r[z] <= r[p]
                        BY <1>3, <3>2, <5>2
                    <6> QED
                        BY <1>6, <6>1
                <5> QED
                    BY <5>1, <5>2
            <4> QED
                BY <4>2, Zenon DEF Follows
        <3> QED
            BY <1>2, <3>1, <3>2, Zenon DEF Follows
    <2> QED
        BY <1>1, <1>2, <2>4, RingInsert DEF D!AddTail
<1>7. CASE r[s] < r[n]
    <2>1. \A z \in S : r[s] <= r[z] /\ r[z] <= r[n]
        BY <1>3, <1>4, <1>7
    <2>2. \A z \in S : r[z] <= r[p]
        <3>1. CASE r[p] < r[s]
            BY <1>2, <1>3, <2>1, <3>1
        <3>2. CASE \A z \in S : r[s] <= r[z] /\ r[z] <= r[p]
            BY <3>2
        <3> QED
            BY <1>2, <3>1, <3>2, Zenon DEF Follows
    <2>3. r[p] < r[n]
        BY <1>2, <1>3, <2>1
    <2>4. \A z \in S \cup {n} : r[z] <= r[p] \/ r[n] <= r[z]
        BY <2>2
    <2>5. Follows(S \cup {n}, r, p, n)
        BY <2>3, <2>4, Zenon DEF Follows
    <2> QED
        BY <1>1, <1>2, <2>5, RingInsert DEF D!AddTail
<1> QED
    BY <1>5, <1>6, <1>7

\* A ring of objects that were on the list stays a ring.
LEMMA EnqueueRing ==
    ASSUME NEW q \in Seq(Node), Distinct(q), NEW pr \in [Node -> Int],
           NEW n \in Node, n \notin Members(q), NEW k, IsSlot(q, pr, n, k),
           NEW M, NEW T, NEW S, Threads(M, T, S, Rank(q)), S \subseteq Threaded(q)
    PROVE  Threads(M, T, S, Rank(Enqueue(q, pr, n)))
<1> DEFINE r == Rank(q)
           r2 == Rank(Enqueue(q, pr, n))
<1>1. k \in Int
    BY DEF IsSlot
<1>2. \A x \in S : r[x] \in Int
    BY RingOfQueue
<1>3. \A x \in S : r2[x] = IF r[x] < k THEN r[x] ELSE r[x] + 1
    BY EnqueueRank
<1>4. Threads(M, T, S, r)
    OBVIOUS
<1> HIDE DEF r, r2
<1>5. \A x \in S : r2[x] \in Int
    BY <1>2, <1>3
<1>6. ASSUME NEW x \in S, NEW y \in S PROVE r[x] < r[y] <=> r2[x] < r2[y]
    <2>1. r[x] \in Int /\ r[y] \in Int /\ k \in Int
        BY <1>1, <1>2
    <2>2. /\ r2[x] = IF r[x] < k THEN r[x] ELSE r[x] + 1
          /\ r2[y] = IF r[y] < k THEN r[y] ELSE r[y] + 1
        BY <1>3
    <2> QED
        BY <2>1, <2>2
<1> QED
    BY <1>4, <1>5, <1>6, Reranked DEF r2

\* A ring of some of the objects of a list takes the new node in front of the
\* one that has its place, or in front of the first when it goes to the end.
LEMMA InsertRing ==
    ASSUME NEW q \in Seq(Node), Distinct(q), NEW pr \in [Node -> Int],
           NEW n \in Node, n \notin Members(q), NEW k, IsSlot(q, pr, n, k),
           NEW M, NEW T, NEW S, Threads(M, T, S, Rank(q)), S \subseteq Threaded(q), n \in T,
           NEW m \in S,
           \/ Rank(q)[m] = k
           \/ k = Len(q) + 1 /\ \A z \in S : Rank(q)[m] <= Rank(q)[z]
    PROVE  Threads(D!AddTail(M, n, m), T, S \cup {n}, Rank(Enqueue(q, pr, n)))
<1> DEFINE r == Rank(q)
           r2 == Rank(Enqueue(q, pr, n))
<1>1. k \in 1..(Len(q) + 1) /\ n \notin S
    <2>1. n # ListHead
        BY PListAssumption
    <2> QED
        BY <2>1 DEF IsSlot, Threaded
<1>2. \A x \in S : r[x] \in 0..Len(q)
    BY RingOfQueue
<1>3. /\ r2[n] = k
      /\ \A x \in S : r2[x] = IF r[x] < k THEN r[x] ELSE r[x] + 1
    BY EnqueueRank
<1>5. Threads(M, T, S, r2)
    BY EnqueueRing
<1> HIDE DEF r, r2
<1>6. \A x \in S : r2[x] # r2[n] /\ r2[x] \in Int /\ (r2[x] < k \/ k + 1 <= r2[x])
    BY <1>1, <1>2, <1>3
<1>7. Follows(S \cup {n}, r2, n, m)
    <2>1. CASE r[m] = k
        <3>1. r2[m] = k + 1
            BY <1>1, <1>3, <2>1
        <3>2. r2[n] < r2[m]
            BY <1>1, <1>3, <3>1
        <3>3. ASSUME NEW z \in S \cup {n} PROVE r2[z] <= r2[n] \/ r2[m] <= r2[z]
            <4>1. CASE z = n
                BY <1>1, <1>3, <4>1
            <4>2. CASE z # n
                BY <1>1, <1>3, <1>6, <3>1, <4>2
            <4> QED
                BY <4>1, <4>2
        <3> QED
            BY <3>2, <3>3, Zenon DEF Follows
    <2>2. CASE k = Len(q) + 1 /\ \A z \in S : r[m] <= r[z]
        <3>1. \A z \in S : r2[z] = r[z] /\ r[z] < k
            BY <1>1, <1>2, <1>3, <2>2
        <3>2. ASSUME NEW z \in S \cup {n} PROVE r2[m] <= r2[z] /\ r2[z] <= r2[n]
            <4>1. CASE z = n
                BY <1>1, <1>2, <1>3, <3>1, <4>1
            <4>2. CASE z # n
                <5>1. z \in S
                    BY <4>2
                <5> QED
                    BY <1>1, <1>2, <1>3, <2>2, <3>1, <5>1
            <4> QED
                BY <4>1, <4>2
        <3> QED
            BY <3>2, Zenon DEF Follows
    <2> QED
        BY <2>1, <2>2 DEF r
<1>8. Threads(D!AddTail(M, n, m), T, S \cup {n}, r2)
    <2>1. n \in T \ S /\ r2[n] \in Int
        BY <1>1, <1>3
    <2> QED
        BY <1>5, <1>6, <1>7, <2>1, RingPlace
<1> QED
    BY <1>8 DEF r2

\* The nodes of the priority n already has on the list are all in front of it,
\* so that n leads exactly when there are none.
LEMMA EnqueueLeaders ==
    ASSUME NEW q \in Seq(Node), Distinct(q), NEW pr \in [Node -> Int], Sorted(q, pr),
           NEW n \in Node, n \notin Members(q), NEW k, IsSlot(q, pr, n, k)
    PROVE  Leaders(Enqueue(q, pr, n), pr) =
               IF \E y \in Members(q) : pr[y] = pr[n] THEN Leaders(q, pr)
               ELSE Leaders(q, pr) \cup {n}
<1> DEFINE e == Enqueue(q, pr, n)
           r == Rank(q)
           r2 == Rank(e)
           L2 == Leaders(e, pr)
<1>1. k \in 1..(Len(q) + 1) /\ (k <= Len(q) => pr[n] < pr[q[k]])
    BY DEF IsSlot
<1>2. Members(e) = Members(q) \cup {n}
    BY EnqueueFacts
<1>3. /\ r2[n] = k
      /\ \A x \in Members(q) : r2[x] = IF r[x] < k THEN r[x] ELSE r[x] + 1
    BY EnqueueRank DEF Threaded
<1>4. \A x \in Members(q) : r[x] \in 1..Len(q) /\ q[r[x]] = x /\ pr[x] \in Int
    BY RankFacts
<1>5. ASSUME NEW y \in Members(q), pr[y] = pr[n] PROVE r[y] < k
    <2> SUFFICES ASSUME ~(r[y] < k) PROVE FALSE
        OBVIOUS
    <2>1. k \in 1..Len(q) /\ k <= r[y]
        BY <1>1, <1>4
    <2>2. q[k] \in Members(q) /\ r[q[k]] = k
        BY <2>1, RankFacts
    <2>3. pr[q[k]] <= pr[y] /\ pr[q[k]] \in Int
        BY <2>1, <2>2, SortedRank
    <2> QED
        BY <1>1, <1>4, <1>5, <2>1, <2>3
<1> L2 = {x \in Members(q) \cup {n} :
              \A y \in Members(q) \cup {n} : pr[y] = pr[x] => r2[x] <= r2[y]}
    BY <1>2 DEF Leaders
<1> Leaders(q, pr) = {x \in Members(q) : \A y \in Members(q) : pr[y] = pr[x] => r[x] <= r[y]}
    BY DEF Leaders
<1> HIDE DEF e, r, r2, L2
<1>6. ASSUME NEW x \in Members(q), NEW y \in Members(q) PROVE r[x] <= r[y] <=> r2[x] <= r2[y]
    <2>1. r[x] \in Int /\ r[y] \in Int /\ k \in Int
        BY <1>1, <1>4
    <2>2. /\ r2[x] = IF r[x] < k THEN r[x] ELSE r[x] + 1
          /\ r2[y] = IF r[y] < k THEN r[y] ELSE r[y] + 1
        BY <1>3
    <2> QED
        BY <2>1, <2>2
<1>7. ASSUME NEW y \in Members(q), pr[y] = pr[n] PROVE r2[y] <= r2[n] /\ ~(r2[n] <= r2[y])
    BY <1>1, <1>3, <1>4, <1>5, <1>7
<1>8. ASSUME NEW x \in Members(q) PROVE x \in L2 <=> x \in Leaders(q, pr)
    BY <1>6, <1>7
<1>9. n \in L2 <=> ~\E y \in Members(q) : pr[y] = pr[n]
    <2>1. r2[n] <= r2[n]
        BY <1>1, <1>3
    <2> QED
        BY <1>7, <2>1
<1>10. L2 \subseteq Members(q) \cup {n} /\ Leaders(q, pr) \subseteq Members(q)
    OBVIOUS
<1>11. L2 = IF \E y \in Members(q) : pr[y] = pr[n] THEN Leaders(q, pr)
            ELSE Leaders(q, pr) \cup {n}
    BY <1>8, <1>9, <1>10
<1> QED
    BY <1>11 DEF L2, e

\* Where the walk of plist_add stops.
Stop(P, N, pr, n) ==
    Min({k \in 0..Around(P, N) : k = Around(P, N) \/ GoesBefore(pr, n, Leader(P, N)[k])})

\* It stops in front of n's place, and it sees whether n's priority is new.
LEMMA AddFinds ==
    ASSUME NEW P, NEW N, NEW pr, NEW q, Holds(P, N, pr, q), q # << >>,
           NEW n \in Node, n \notin Members(q)
    PROVE  /\ Leader(P, N)[Stop(P, N, pr, n)] \in Leaders(q, pr)
           /\ Stop(P, N, pr, n) # Around(P, N) =>
                 IsSlot(q, pr, n, Rank(q)[Leader(P, N)[Stop(P, N, pr, n)]])
           /\ Stop(P, N, pr, n) = Around(P, N) =>
                 /\ IsSlot(q, pr, n, Len(q) + 1)
                 /\ Leader(P, N)[Stop(P, N, pr, n)] = q[1]
           /\ (Stop(P, N, pr, n) = 0 \/ pr[Leader(P, N)[Stop(P, N, pr, n) - 1]] # pr[n])
              <=> \A y \in Members(q) : pr[y] # pr[n]
<1> DEFINE l == Leader(P, N)
           A == Around(P, N)
           s == Stop(P, N, pr, n)
           L == Leaders(q, pr)
           r == Rank(q)
           E == {k \in 0..A : k = A \/ pr[n] < pr[l[k]]}
           K == IF s = A THEN Len(q) + 1 ELSE r[l[s]]
<1>1. /\ q \in Seq(Node) /\ Distinct(q) /\ pr \in [Node -> Int] /\ Sorted(q, pr)
    BY DEF Holds
<1>2. /\ A \in Nat \ {0} /\ l[0] = q[1] /\ l[A] = q[1]
      /\ \A i \in Nat : l[i] \in L
      /\ \A i \in Nat : Follows(L, r, l[i], l[i + 1])
      /\ \A z \in L : r[z] <= r[l[A - 1]]
    BY LeadersWalk
<1>3. /\ L \subseteq Members(q)
      /\ \A x \in Members(q) : \E y \in L : pr[y] = pr[x] /\ r[y] <= r[x]
      /\ r[q[1]] = 1
    BY <1>1, LeaderFacts
<1>4. \A x \in Members(q) : x \in Node /\ r[x] \in 1..Len(q) /\ pr[x] \in Int
    BY <1>1, RankFacts
<1>5. \A x, y \in Members(q) : r[x] <= r[y] => pr[x] <= pr[y]
    BY <1>1, SortedRank
<1>6. s = Min(E)
    BY DEF Stop, GoesBefore
<1>7. pr[n] \in Int
    BY <1>1
<1> HIDE DEF l, A, s, L, r
<1>8. s \in 0..A /\ (s = A \/ pr[n] < pr[l[s]]) /\ \A j \in 0..(s - 1) : pr[l[j]] <= pr[n]
    <2>1. E \subseteq Nat /\ A \in E
        BY <1>2
    <2>2. s \in E /\ \A j \in E : s <= j
        <3> HIDE DEF E
        <3> QED
            BY <1>6, <2>1, MinFacts
    <2>3. s \in 0..A /\ (s = A \/ pr[n] < pr[l[s]])
        BY <2>2
    <2>4. ASSUME NEW j \in 0..(s - 1) PROVE pr[l[j]] <= pr[n]
        <3>1. j \in 0..A /\ j \in Nat /\ ~(s <= j)
            BY <1>2, <2>3
        <3>2. j \notin E
            <4> HIDE DEF E
            <4> QED
                BY <2>2, <3>1
        <3>3. ~(pr[n] < pr[l[j]])
            BY <3>1, <3>2
        <3>4. pr[l[j]] \in Int
            BY <1>2, <1>3, <1>4, <3>1
        <3> QED
            BY <1>7, <3>3, <3>4
    <2> QED
        BY <2>3, <2>4
<1>9. s \in Nat /\ l[s] \in L /\ l[s] \in Members(q)
    <2>1. s \in Nat
        BY <1>8
    <2>2. l[s] \in L
        BY <1>2, <2>1, Zenon
    <2> QED
        BY <1>3, <2>1, <2>2
<1>10. K \in 1..(Len(q) + 1)
    <2>1. Len(q) \in Nat /\ r[l[s]] \in 1..Len(q)
        BY <1>1, <1>4, <1>9
    <2> QED
        BY <2>1
<1>11. ASSUME s # 0
       PROVE  \E c \in Members(q) : /\ c = l[s - 1] /\ pr[c] <= pr[n]
                                    /\ \A x \in Members(q) : r[x] < K => pr[x] <= pr[c]
    <2>1. s - 1 \in Nat /\ s - 1 \in 0..(s - 1) /\ (s - 1) + 1 = s
        BY <1>9, <1>11
    <2>2. PICK c \in L : c = l[s - 1]
        BY <1>2, <2>1
    <2>3. c \in Members(q) /\ pr[c] <= pr[n] /\ Follows(L, r, c, l[s])
        BY <1>2, <1>3, <1>8, <2>1, <2>2
    <2>4. ASSUME NEW x \in Members(q), r[x] < K PROVE pr[x] <= pr[c]
        <3>1. PICK y \in L : pr[y] = pr[x] /\ r[y] <= r[x]
            BY <1>3
        <3>2. y \in Members(q) /\ r[y] \in Int /\ r[x] \in Int /\ r[c] \in Int /\ r[l[s]] \in Int
            BY <1>3, <1>4, <1>9, <2>3
        <3>3. r[y] <= r[c]
            <4>1. CASE s = A
                BY <1>2, <2>2, <4>1
            <4>2. CASE s # A
                <5>1. r[y] < r[l[s]]
                    BY <2>4, <3>1, <3>2, <4>2
                <5>2. \/ r[y] <= r[c] \/ r[l[s]] <= r[y]
                    BY <2>3, Zenon DEF Follows
                <5> QED
                    BY <3>2, <5>1, <5>2
            <4> QED
                BY <4>1, <4>2
        <3> QED
            BY <1>5, <2>3, <3>1, <3>2, <3>3
    <2> QED
        BY <2>2, <2>3, <2>4
<1>12. s = 0 => K = 1
    BY <1>2, <1>3
<1>13. IsSlot(q, pr, n, K)
    <2>1. ASSUME NEW i \in 1..(K - 1) PROVE pr[q[i]] <= pr[n]
        <3>1. i \in 1..Len(q) /\ i < K /\ s # 0
            BY <1>10, <1>12
        <3>2. q[i] \in Members(q) /\ r[q[i]] = i
            BY <1>1, <3>1, RankFacts DEF r
        <3>3. PICK c \in Members(q) : pr[c] <= pr[n] /\ \A x \in Members(q) : r[x] < K => pr[x] <= pr[c]
            BY <1>11, <3>1
        <3>4. pr[q[i]] <= pr[c]
            BY <3>1, <3>2, <3>3
        <3> QED
            BY <1>4, <1>7, <3>2, <3>3, <3>4
    <2>2. K <= Len(q) => pr[n] < pr[q[K]]
        <3>1. CASE s = A
            BY <1>1, <3>1
        <3>2. CASE s # A
            <4>1. q[r[l[s]]] = l[s]
                BY <1>1, <1>9, RankFacts DEF r
            <4> QED
                BY <1>8, <3>2, <4>1
        <3> QED
            BY <3>1, <3>2
    <2> QED
        BY <1>10, <2>1, <2>2 DEF IsSlot
<1>14. (s = 0 \/ pr[l[s - 1]] # pr[n]) <=> \A y \in Members(q) : pr[y] # pr[n]
    <2>1. ASSUME NEW y \in Members(q), pr[y] = pr[n] PROVE s # 0 /\ pr[l[s - 1]] = pr[n]
        <3>1. r[y] < K
            <4>1. CASE s = A
                BY <1>1, <1>4, <4>1
            <4>2. CASE s # A
                <5>1. ~(r[l[s]] <= r[y])
                    BY <1>4, <1>5, <1>7, <1>8, <1>9, <2>1, <4>2
                <5> QED
                    BY <1>4, <1>9, <4>2, <5>1
            <4> QED
                BY <4>1, <4>2
        <3>2. s # 0
            BY <1>4, <1>12, <3>1
        <3>3. PICK c \in Members(q) : c = l[s - 1] /\ pr[c] <= pr[n]
                    /\ \A x \in Members(q) : r[x] < K => pr[x] <= pr[c]
            BY <1>11, <3>2
        <3>4. pr[y] <= pr[c] /\ pr[c] \in Int
            BY <1>4, <3>1, <3>3
        <3> QED
            BY <1>7, <2>1, <3>2, <3>3, <3>4
    <2>2. ASSUME s # 0, pr[l[s - 1]] = pr[n] PROVE \E y \in Members(q) : pr[y] = pr[n]
        BY <1>11, <2>2
    <2> QED
        BY <2>1, <2>2
<1> QED
    BY <1>2, <1>8, <1>9, <1>13, <1>14 DEF l, A, s, L, r

\* A node that leads alone links to itself, like one that does not lead.
LEMMA OneLeader ==
    ASSUME NEW M, NEW T, NEW r, M \in Links(T), NEW n \in T, r[n] \in Int,
           \A x \in T : M[x].next = x /\ M[x].prev = x
    PROVE  Threads(M, T, {n}, r)
<1>1. Follows({n}, r, n, n)
    <2>1. r[n] <= r[n]
        OBVIOUS
    <2> QED
        BY <2>1, Zenon DEF Follows
<1>2. Ranked({n}, r)
    BY DEF Ranked
<1>3. \A x \in {n} : /\ M[x].next \in {n} /\ Follows({n}, r, x, M[x].next)
                     /\ M[x].prev \in {n} /\ Follows({n}, r, M[x].prev, x)
    <2>1. M[n].next = n /\ M[n].prev = n
        OBVIOUS
    <2> QED
        BY <1>1, <2>1
<1> QED
    BY <1>2, <1>3 DEF Threads

\* The insertion into node_list, in front of what is at n's place.
LEMMA InsertNodes ==
    ASSUME NEW P, NEW N, NEW pr, NEW q, Holds(P, N, pr, q),
           NEW n \in Node, n \notin Members(q), NEW k, IsSlot(q, pr, n, k),
           NEW b, b = IF k = Len(q) + 1 THEN ListHead ELSE q[k]
    PROVE  Threads(D!AddTail(N, n, b), Objects, Threaded(Enqueue(q, pr, n)),
                   Rank(Enqueue(q, pr, n)))
<1>1. /\ q \in Seq(Node) /\ Distinct(q) /\ pr \in [Node -> Int]
      /\ Threads(N, Objects, Threaded(q), Rank(q))
    BY DEF Holds
<1>2. k \in 1..(Len(q) + 1)
    BY DEF IsSlot
<1>3. \A x \in Threaded(q) : 0 <= Rank(q)[x]
    BY <1>1, RingOfQueue
<1>4. /\ b \in Threaded(q)
      /\ \/ Rank(q)[b] = k
         \/ k = Len(q) + 1 /\ \A x \in Threaded(q) : Rank(q)[b] <= Rank(q)[x]
    <2>1. CASE k = Len(q) + 1
        <3>1. NodeAt(q, 0) \in Threaded(q) /\ Rank(q)[NodeAt(q, 0)] = 0
            BY <1>1, RingOfQueue
        <3> QED
            BY <1>3, <2>1, <3>1 DEF NodeAt
    <2>2. CASE k # Len(q) + 1
        <3>1. k \in 1..Len(q)
            BY <1>1, <1>2, <2>2
        <3>2. q[k] \in Members(q) /\ Rank(q)[q[k]] = k
            BY <1>1, <3>1, RankFacts
        <3>3. b = q[k]
            BY <2>2
        <3> QED
            BY <3>2, <3>3 DEF Threaded
    <2> QED
        BY <2>1, <2>2
<1>5. n \in Objects
    BY DEF Objects
<1>6. Threads(D!AddTail(N, n, b), Objects, Threaded(q) \cup {n}, Rank(Enqueue(q, pr, n)))
    BY <1>1, <1>4, <1>5, InsertRing
<1>7. Threaded(Enqueue(q, pr, n)) = Threaded(q) \cup {n}
    BY <1>1, EnqueueRank
<1> QED
    BY <1>6, <1>7

\* plist_add links the node where Enqueue puts it.
LEMMA AddHolds ==
    ASSUME NEW P, NEW N, NEW pr, NEW q, Holds(P, N, pr, q),
           NEW n \in Node, n \notin Members(q)
    PROVE  Holds(PlistAdd(P, N, pr, n).prio_list, PlistAdd(P, N, pr, n).node_list, pr,
                 Enqueue(q, pr, n))
<1> DEFINE e == Enqueue(q, pr, n)
<1>1. /\ q \in Seq(Node) /\ Distinct(q) /\ pr \in [Node -> Int] /\ Sorted(q, pr)
      /\ Threads(N, Objects, Threaded(q), Rank(q))
      /\ Threads(P, Node, Leaders(q, pr), Rank(q))
    BY DEF Holds
<1>2. e \in Seq(Node) /\ Distinct(e) /\ Sorted(e, pr)
    BY <1>1, EnqueueFacts
<1>3. D!IsEmpty(N, ListHead) <=> q = << >>
    BY <1>1, LinkFacts
<1>4. Leaders(q, pr) \subseteq Threaded(q) /\ Leaders(q, pr) \subseteq Members(q)
    BY <1>1, LeaderFacts DEF Threaded
<1>5. CASE q = << >>
    <2>1. PlistAdd(P, N, pr, n) = [prio_list |-> P, node_list |-> D!AddTail(N, n, ListHead)]
        BY <1>3, <1>5, Zenon DEF PlistAdd
    <2>2. IsSlot(q, pr, n, 1) /\ 1 = Len(q) + 1 /\ Members(q) = {}
        BY <1>5 DEF IsSlot, Members
    <2>3. Threads(D!AddTail(N, n, ListHead), Objects, Threaded(e), Rank(e))
        BY <2>2, InsertNodes
    <2>4. Leaders(q, pr) = {}
        BY <1>4, <2>2
    <2>5. Leaders(e, pr) = {n}
        BY <1>1, <2>2, <2>4, EnqueueLeaders
    <2>6. Threads(P, Node, {n}, Rank(e))
        <3>1. Rank(e)[n] \in Int
            BY <1>1, <2>2, EnqueueRank
        <3>2. P \in Links(Node) /\ \A x \in Node : P[x].next = x /\ P[x].prev = x
            BY <1>1, <2>4 DEF Threads
        <3> QED
            BY <3>1, <3>2, OneLeader
    <2> QED
        BY <1>1, <1>2, <2>1, <2>3, <2>5, <2>6 DEF Holds
<1>6. CASE q # << >>
    <2> DEFINE l == Leader(P, N)
               A == Around(P, N)
               s == Stop(P, N, pr, n)
               b == IF s = A THEN ListHead ELSE l[s]
               isNew == s = 0 \/ pr[l[s - 1]] # pr[n]
               k == IF s = A THEN Len(q) + 1 ELSE Rank(q)[l[s]]
    <2>1. PlistAdd(P, N, pr, n) =
              [prio_list |-> IF isNew THEN D!AddTail(P, n, l[s]) ELSE P,
               node_list |-> D!AddTail(N, n, b)]
        BY <1>3, <1>6, Zenon DEF PlistAdd, Around, Stop
    <2>2. /\ l[s] \in Leaders(q, pr)
          /\ IsSlot(q, pr, n, k)
          /\ s = A => l[s] = q[1]
          /\ isNew <=> \A y \in Members(q) : pr[y] # pr[n]
        BY <1>6, AddFinds
    <2> HIDE DEF l, A, s, isNew
    <2>3. Rank(q)[l[s]] \in 1..Len(q) /\ q[Rank(q)[l[s]]] = l[s]
        BY <1>1, <1>4, <2>2, RankFacts
    <2>4. b = IF k = Len(q) + 1 THEN ListHead ELSE q[k]
        BY <1>1, <2>3
    <2>5. \/ Rank(q)[l[s]] = k
          \/ k = Len(q) + 1 /\ \A z \in Leaders(q, pr) : Rank(q)[l[s]] <= Rank(q)[z]
        <3>1. CASE s = A
            <4>1. l[s] = q[1] /\ Rank(q)[q[1]] = 1
                BY <1>1, <1>6, <2>2, <3>1, LeaderFacts
            <4>2. \A z \in Leaders(q, pr) : 1 <= Rank(q)[z]
                BY <1>1, <1>4, RankFacts
            <4> QED
                BY <3>1, <4>1, <4>2
        <3>2. CASE s # A
            BY <3>2
        <3> QED
            BY <3>1, <3>2
    <2> HIDE DEF k, b
    <2>6. Threads(D!AddTail(N, n, b), Objects, Threaded(e), Rank(e))
        BY <2>2, <2>4, InsertNodes
    <2>7. /\ Threads(P, Node, Leaders(q, pr), Rank(e))
          /\ Threads(D!AddTail(P, n, l[s]), Node, Leaders(q, pr) \cup {n}, Rank(e))
        BY <1>1, <1>4, <2>2, <2>5, InsertRing, EnqueueRing
    <2>8. Leaders(e, pr) = IF isNew THEN Leaders(q, pr) \cup {n} ELSE Leaders(q, pr)
        <3>1. Leaders(e, pr) = IF \E y \in Members(q) : pr[y] = pr[n] THEN Leaders(q, pr)
                               ELSE Leaders(q, pr) \cup {n}
            BY <1>1, <2>2, EnqueueLeaders
        <3> QED
            BY <2>2, <3>1
    <2>9. Threads(IF isNew THEN D!AddTail(P, n, l[s]) ELSE P, Node, Leaders(e, pr), Rank(e))
        <3>1. CASE isNew
            BY <2>7, <2>8, <3>1
        <3>2. CASE ~isNew
            BY <2>7, <2>8, <3>2
        <3> QED
            BY <3>1, <3>2
    <2>10. /\ PlistAdd(P, N, pr, n).prio_list = IF isNew THEN D!AddTail(P, n, l[s]) ELSE P
           /\ PlistAdd(P, N, pr, n).node_list = D!AddTail(N, n, b)
        BY <2>1
    <2> QED
        BY <1>1, <1>2, <2>6, <2>9, <2>10 DEF Holds
<1> QED
    BY <1>5, <1>6

-----------------------------------------------------------------------------
(* plist_remove                                                            *)

\* The ranks behind the node that leaves move down by one.
LEMMA DequeueRank ==
    ASSUME NEW q \in Seq(Node), Distinct(q), NEW n \in Members(q)
    PROVE  /\ Len(Dequeue(q, n)) = Len(q) - 1
           /\ \A x \in Threaded(q) \ {n} :
                 Rank(Dequeue(q, n))[x] =
                     IF Rank(q)[x] < Rank(q)[n] THEN Rank(q)[x] ELSE Rank(q)[x] - 1
           /\ Threaded(Dequeue(q, n)) = Threaded(q) \ {n}
<1> DEFINE d == Dequeue(q, n)
           r == Rank(q)
<1>1. d \in Seq(Node) /\ Distinct(d) /\ Members(d) = Members(q) \ {n}
    BY DequeueFacts
<1>2. PICK k \in 1..Len(q) : k = r[n] /\ q[k] = n
    BY RankFacts
<1>3. (CHOOSE j \in 1..Len(q) : q[j] = n) = k
    BY <1>2 DEF Distinct
<1>4. d = [i \in 1..(Len(q) - 1) |-> IF i < k THEN q[i] ELSE q[i + 1]]
    BY <1>3 DEF Dequeue
<1>5. Len(d) = Len(q) - 1
    BY <1>2, <1>4
<1>6. \A i \in 1..Len(q) : q[i] \in Members(q) /\ r[q[i]] = i
    BY RankFacts
<1>7. \A j \in 1..Len(d) : Rank(d)[d[j]] = j
    <2> HIDE DEF d
    <2> QED
        BY <1>1, RankFacts
<1>8. ASSUME NEW x \in Members(q), x # n
      PROVE  Rank(d)[x] = IF r[x] < k THEN r[x] ELSE r[x] - 1
    <2>1. PICK i \in 1..Len(q) : i = r[x] /\ q[i] = x
        BY RankFacts
    <2>2. i # k
        BY <1>2, <1>8, <2>1
    <2>3. CASE i < k
        <3>1. i \in 1..Len(d) /\ i \in 1..(Len(q) - 1)
            BY <1>2, <1>5, <2>3
        <3>2. d[i] = x
            BY <1>4, <2>1, <2>3, <3>1
        <3> QED
            BY <1>7, <2>1, <2>3, <3>1, <3>2
    <2>4. CASE ~(i < k)
        <3>1. /\ i - 1 \in 1..Len(d) /\ i - 1 \in 1..(Len(q) - 1)
              /\ ~(i - 1 < k) /\ (i - 1) + 1 = i
            BY <1>2, <1>5, <2>2, <2>4
        <3>2. d[i - 1] = x
            BY <1>4, <2>1, <3>1
        <3> QED
            BY <1>7, <2>1, <2>4, <3>1, <3>2
    <2> QED
        BY <2>3, <2>4
<1>9. Rank(d)[ListHead] = 0 /\ r[ListHead] = 0
    <2>1. ListHead \in Objects /\ ListHead \notin Members(q) /\ ListHead \notin Members(d)
        BY <1>1, RankFacts DEF Objects
    <2> HIDE DEF d
    <2> QED
        BY <1>1, <2>1, RankFacts
<1>10. ASSUME NEW x \in Threaded(q) \ {n}
       PROVE  Rank(d)[x] = IF r[x] < k THEN r[x] ELSE r[x] - 1
    <2>1. CASE x = ListHead
        <3>1. 0 < k
            BY <1>2
        <3> QED
            BY <1>9, <2>1, <3>1
    <2>2. CASE x # ListHead
        BY <1>8, <2>2 DEF Threaded
    <2> QED
        BY <2>1, <2>2
<1>11. Threaded(d) = Threaded(q) \ {n}
    <2>1. n # ListHead
        BY RankFacts
    <2> QED
        BY <1>1, <2>1 DEF Threaded
<1> QED
    BY <1>2, <1>5, <1>10, <1>11 DEF d

\* A ring without the node that leaves stays a ring.
LEMMA DequeueRing ==
    ASSUME NEW q \in Seq(Node), Distinct(q), NEW n \in Members(q),
           NEW M, NEW T, NEW S, Threads(M, T, S, Rank(q)), S \subseteq Threaded(q) \ {n}
    PROVE  Threads(M, T, S, Rank(Dequeue(q, n)))
<1> DEFINE r == Rank(q)
           r2 == Rank(Dequeue(q, n))
<1>1. PICK k \in Int : k = r[n]
    BY RankFacts
<1>2. \A x \in Threaded(q) \ {n} : r[x] \in Int /\ r[x] # k
    <2>1. \A x \in Threaded(q) : r[x] \in Int /\ NodeAt(q, r[x]) = x
        BY RingOfQueue
    <2>2. n \in Threaded(q)
        BY DEF Threaded
    <2> QED
        BY <1>1, <2>1, <2>2
<1>3. \A x \in Threaded(q) \ {n} : r2[x] = IF r[x] < k THEN r[x] ELSE r[x] - 1
    BY <1>1, DequeueRank
<1>4. Threads(M, T, S, r)
    OBVIOUS
<1> HIDE DEF r, r2
<1>5. \A x \in S : r2[x] \in Int
    BY <1>2, <1>3
<1>6. ASSUME NEW x \in S, NEW y \in S PROVE r[x] < r[y] <=> r2[x] < r2[y]
    <2>1. r[x] \in Int /\ r[y] \in Int /\ r[x] # k /\ r[y] # k
        BY <1>2
    <2>2. /\ r2[x] = IF r[x] < k THEN r[x] ELSE r[x] - 1
          /\ r2[y] = IF r[y] < k THEN r[y] ELSE r[y] - 1
        BY <1>3
    <2> QED
        BY <2>1, <2>2
<1> QED
    BY <1>4, <1>5, <1>6, Reranked DEF r2

\* The node behind a leader leads when it has another priority.
LEMMA Successor ==
    ASSUME NEW q \in Seq(Node), Distinct(q), NEW pr \in [Node -> Int], Sorted(q, pr),
           NEW n \in Leaders(q, pr), Rank(q)[n] # Len(q)
    PROVE  /\ q[Rank(q)[n] + 1] \in Members(q)
           /\ Rank(q)[q[Rank(q)[n] + 1]] = Rank(q)[n] + 1
           /\ q[Rank(q)[n] + 1] \in Leaders(q, pr) <=> pr[q[Rank(q)[n] + 1]] # pr[n]
<1> DEFINE r == Rank(q)
           k == r[n]
           succ == q[k + 1]
<1>1. n \in Members(q) /\ \A y \in Members(q) : pr[y] = pr[n] => k <= r[y]
    BY DEF Leaders
<1>2. k \in 1..Len(q) /\ k + 1 \in 1..Len(q)
    BY <1>1, RankFacts
<1>3. succ \in Members(q) /\ r[succ] = k + 1
    BY <1>2, RankFacts
<1>4. \A x \in Members(q) : r[x] \in 1..Len(q) /\ pr[x] \in Int
    BY RankFacts
<1>5. \A x, y \in Members(q) : r[x] <= r[y] => pr[x] <= pr[y]
    BY SortedRank
<1> HIDE DEF r, k, succ
<1>6. ASSUME pr[succ] = pr[n] PROVE succ \notin Leaders(q, pr)
    <2>1. ~(r[succ] <= r[n])
        BY <1>2, <1>3 DEF k
    <2> QED
        BY <1>1, <1>6, <2>1 DEF Leaders, r
<1>7. ASSUME pr[succ] # pr[n] PROVE succ \in Leaders(q, pr)
    <2>1. ASSUME NEW y \in Members(q), pr[y] = pr[succ] PROVE r[succ] <= r[y]
        <3> SUFFICES ASSUME ~(r[succ] <= r[y]) PROVE FALSE
            OBVIOUS
        <3>1. r[y] <= k
            BY <1>2, <1>3, <1>4
        <3>2. pr[y] <= pr[n] /\ pr[n] <= pr[succ]
            BY <1>1, <1>2, <1>3, <1>5, <3>1 DEF k
        <3> QED
            BY <1>1, <1>3, <1>4, <1>7, <2>1, <3>2
    <2> QED
        BY <1>3, <2>1 DEF Leaders, r
<1> QED
    BY <1>3, <1>6, <1>7 DEF r, k, succ

\* The leaders that remain: those that led before, and the successor of the node
\* that leaves if that is the first of its priority and not the last.
LEMMA DequeueLeaders ==
    ASSUME NEW q \in Seq(Node), Distinct(q), NEW pr \in [Node -> Int], Sorted(q, pr),
           NEW n \in Members(q)
    PROVE  Leaders(Dequeue(q, n), pr) =
               IF n \in Leaders(q, pr) /\ Rank(q)[n] # Len(q) /\ pr[q[Rank(q)[n] + 1]] = pr[n]
               THEN (Leaders(q, pr) \ {n}) \cup {q[Rank(q)[n] + 1]}
               ELSE Leaders(q, pr) \ {n}
<1> DEFINE d == Dequeue(q, n)
           r == Rank(q)
           r2 == Rank(d)
           L == Leaders(q, pr)
           L2 == Leaders(d, pr)
           k == r[n]
           succ == q[k + 1]
<1>1. Members(d) = Members(q) \ {n}
    BY DequeueFacts
<1>2. \A x \in Members(q) : r[x] \in 1..Len(q) /\ pr[x] \in Int
    BY RankFacts
<1>3. \A x, y \in Members(q) : /\ r[x] <= r[y] => pr[x] <= pr[y]
                               /\ r[x] = r[y] => x = y
    BY SortedRank
<1>4. \A x \in Members(q) \ {n} : r2[x] = IF r[x] < k THEN r[x] ELSE r[x] - 1
    BY DequeueRank DEF Threaded
<1>5. ASSUME NEW x \in Members(q) \ {n}, NEW y \in Members(q) \ {n}
      PROVE  r2[x] <= r2[y] <=> r[x] <= r[y]
    <2>1. r[x] \in Int /\ r[y] \in Int /\ k \in Int /\ r[x] # k /\ r[y] # k
        BY <1>2, <1>3
    <2>2. /\ r2[x] = IF r[x] < k THEN r[x] ELSE r[x] - 1
          /\ r2[y] = IF r[y] < k THEN r[y] ELSE r[y] - 1
        BY <1>4
    <2> QED
        BY <2>1, <2>2
<1>6. L2 = {x \in Members(q) \ {n} : \A y \in Members(q) \ {n} : pr[y] = pr[x] => r2[x] <= r2[y]}
    BY <1>1 DEF Leaders
<1>7. L = {x \in Members(q) : \A y \in Members(q) : pr[y] = pr[x] => r[x] <= r[y]}
    BY DEF Leaders
<1>8. ASSUME n \in L, k # Len(q)
      PROVE  succ \in Members(q) /\ r[succ] = k + 1 /\ (succ \in L <=> pr[succ] # pr[n])
    BY <1>8, Successor
<1>9. \E y \in L : pr[y] = pr[n] /\ r[y] <= k
    BY LeaderFacts
<1> HIDE DEF d, r, r2, L, L2, k, succ
<1>10. ASSUME NEW x \in Members(q) \ {n}
       PROVE  x \in L2 <=> \A y \in Members(q) \ {n} : pr[y] = pr[x] => r[x] <= r[y]
    BY <1>5, <1>6
<1>11. ASSUME NEW x \in Members(q) \ {n}, x \in L PROVE x \in L2
    BY <1>7, <1>10, <1>11
<1>12. ASSUME NEW x \in Members(q) \ {n}, x \in L2, pr[x] # pr[n] PROVE x \in L
    BY <1>7, <1>10, <1>12
<1>13. CASE n \notin L
    <2>1. ASSUME NEW x \in Members(q) \ {n}, x \in L2, pr[x] = pr[n] PROVE x \in L
        <3>1. PICK y \in L : pr[y] = pr[n] /\ r[y] <= k
            BY <1>9
        <3>2. y \in Members(q) \ {n} /\ \A z \in Members(q) : pr[z] = pr[n] => r[y] <= r[z]
            BY <1>7, <1>13, <3>1
        <3>3. r[x] <= r[y]
            BY <1>10, <2>1, <3>1, <3>2
        <3>4. ASSUME NEW z \in Members(q), pr[z] = pr[x] PROVE r[x] <= r[z]
            <4>1. r[y] <= r[z] /\ r[x] \in Int /\ r[y] \in Int /\ r[z] \in Int
                BY <1>2, <2>1, <3>2, <3>4
            <4> QED
                BY <3>3, <4>1
        <3> QED
            BY <1>7, <3>4
    <2>2. L2 = L \ {n}
        BY <1>6, <1>7, <1>11, <1>12, <2>1
    <2> QED
        BY <1>13, <2>2 DEF d, r, L, L2
<1>14. CASE n \in L
    <2>1. ASSUME NEW x \in Members(q) \ {n}, pr[x] = pr[n]
          PROVE  k + 1 <= r[x] /\ x \notin L
        <3>1. k <= r[x] /\ r[x] # k /\ k \in Int /\ r[x] \in Int
            BY <1>2, <1>3, <1>7, <1>14, <2>1 DEF k
        <3>2. ~(r[x] <= k)
            BY <3>1
        <3> QED
            BY <1>7, <2>1, <3>1, <3>2 DEF k
    <2>2. CASE k # Len(q) /\ pr[succ] = pr[n]
        <3>1. succ \in Members(q) \ {n} /\ r[succ] = k + 1
            <4>1. k + 1 # k
                BY <1>2 DEF k
            <4> QED
                BY <1>8, <1>14, <2>2, <4>1 DEF k
        <3>2. succ \in L2
            BY <1>10, <2>1, <2>2, <3>1
        <3>3. ASSUME NEW x \in Members(q) \ {n}, x \in L2, pr[x] = pr[n] PROVE x = succ
            <4>1. r[x] <= r[succ]
                BY <1>10, <2>2, <3>1, <3>3
            <4>2. k + 1 <= r[x] /\ k \in Int /\ r[x] \in Int
                BY <1>2, <2>1, <3>3 DEF k
            <4> QED
                BY <1>3, <3>1, <4>1, <4>2
        <3>4. L2 = (L \ {n}) \cup {succ}
            BY <1>6, <1>7, <1>11, <1>12, <3>2, <3>3
        <3> QED
            BY <1>14, <2>2, <3>4 DEF d, r, L, L2, k, succ
    <2>3. CASE ~(k # Len(q) /\ pr[succ] = pr[n])
        <3>1. ASSUME NEW x \in Members(q) \ {n}, pr[x] = pr[n] PROVE FALSE
            <4>1. k + 1 <= r[x] /\ r[x] \in 1..Len(q) /\ k \in Int
                BY <1>2, <2>1, <3>1 DEF k
            <4>2. k # Len(q)
                BY <4>1
            <4>3. succ \in Members(q) /\ r[succ] = k + 1 /\ pr[succ] # pr[n]
                BY <1>8, <1>14, <2>3, <4>2
            <4>4. pr[succ] <= pr[x]
                BY <1>3, <4>1, <4>3
            <4>5. pr[n] <= pr[succ]
                <5>1. r[n] <= r[succ]
                    BY <4>1, <4>3 DEF k
                <5> QED
                    BY <1>3, <4>3, <5>1
            <4> QED
                BY <1>2, <3>1, <4>3, <4>4, <4>5
        <3>2. L2 = L \ {n}
            BY <1>6, <1>7, <1>11, <1>12, <3>1
        <3> QED
            BY <2>3, <3>2 DEF d, r, L, L2, k, succ
    <2> QED
        BY <2>2, <2>3
<1> QED
    BY <1>13, <1>14

\* A leader that links to itself is the only one.
LEMMA LeadsAlone ==
    ASSUME NEW M, NEW T, NEW S, NEW r, Threads(M, T, S, r), NEW x \in S, M[x].next = x
    PROVE  S = {x} /\ M[x].prev = x
<1>1. Follows(S, r, x, x) /\ Ranked(S, r) /\ x \in T
    BY DEF Threads
<1>2. r[x] \in Int
    BY <1>1 DEF Ranked
<1>3. ~(r[x] < r[x])
    BY <1>2
<1>4. \A z \in S : r[x] <= r[z] /\ r[z] <= r[x]
    BY <1>1, <1>3, Zenon DEF Follows
<1>5. ASSUME NEW z \in S PROVE z = x
    <2>1. r[z] = r[x]
        BY <1>1, <1>2, <1>4 DEF Ranked
    <2> QED
        BY <1>1, <2>1 DEF Ranked
<1>6. M[M[x].next].prev = x
    BY <1>1, RingTurns
<1> QED
    BY <1>5, <1>6

\* Handing the place of a leader on puts its successor behind it on the ring.
LEMMA HandedOn ==
    ASSUME NEW M, NEW T, NEW S, NEW r, Threads(M, T, S, r), NEW n \in S, M[n].next # n,
           NEW u \in T \ S, r[u] = r[n] + 1, \A x \in S : r[x] # r[u]
    PROVE  Threads(D!Add(M, u, n), T, S \cup {u}, r)
<1>1. PICK s : s = M[n].next
    OBVIOUS
<1>2. s \in S /\ s # n /\ Follows(S, r, n, s)
    BY <1>1 DEF Threads
<1>3. \A x \in S : r[x] \in Int
    BY DEF Threads, Ranked
<1>4. PICK k \in Int : k = r[n] /\ r[u] = k + 1
    BY <1>3
<1>5. \A x \in S : r[x] <= k \/ k + 1 < r[x]
    BY <1>3, <1>4
<1>6. Follows(S \cup {u}, r, n, u)
    <2>1. r[n] < r[u]
        BY <1>4
    <2>2. \A z \in S \cup {u} : r[z] <= r[n] \/ r[u] <= r[z]
        BY <1>3, <1>4, <1>5
    <2> QED
        BY <2>1, <2>2, Zenon DEF Follows
<1>7. Follows(S \cup {u}, r, u, s)
    <2>1. CASE r[n] < r[s] /\ \A z \in S : r[z] <= r[n] \/ r[s] <= r[z]
        <3>1. r[u] < r[s]
            BY <1>2, <1>3, <1>4, <1>5, <2>1
        <3>2. ASSUME NEW z \in S \cup {u} PROVE r[z] <= r[u] \/ r[s] <= r[z]
            <4>1. CASE z = u
                BY <1>4, <4>1
            <4>2. CASE z \in S
                BY <1>3, <1>4, <2>1, <4>2
            <4> QED
                BY <4>1, <4>2
        <3> QED
            BY <3>1, <3>2, Zenon DEF Follows
    <2>2. CASE \A z \in S : r[s] <= r[z] /\ r[z] <= r[n]
        <3>1. r[s] <= k /\ r[s] \in Int
            BY <1>2, <1>3, <1>4, <2>2
        <3>2. ASSUME NEW z \in S \cup {u} PROVE r[s] <= r[z] /\ r[z] <= r[u]
            <4>1. CASE z = u
                BY <1>4, <3>1, <4>1
            <4>2. CASE z \in S
                BY <1>3, <1>4, <2>2, <4>2
            <4> QED
                BY <4>1, <4>2
        <3> QED
            BY <3>2, Zenon DEF Follows
    <2> QED
        BY <1>2, <2>1, <2>2, Zenon DEF Follows
<1>8. r[u] \in Int
    BY <1>4
<1>9. Threads(D!Between(M, u, n, s), T, S \cup {u}, r)
    BY <1>1, <1>2, <1>6, <1>7, <1>8, RingInsert
<1> QED
    BY <1>1, <1>9 DEF D!Add

\* plist_remove takes the node off the list that Dequeue takes it off, and the
\* next node of its priority leads in its place.
LEMMA RemoveHolds ==
    ASSUME NEW P, NEW N, NEW pr, NEW q, Holds(P, N, pr, q), NEW n \in Node
    PROVE  Holds(PlistRemove(P, N, n).prio_list, PlistRemove(P, N, n).node_list, pr,
                 Dequeue(q, n))
<1> DEFINE d == Dequeue(q, n)
           P2 == IF D!IsEmpty(P, n) THEN P ELSE D!RemoveInit(Handed(P, N, n), n)
           L == Leaders(q, pr)
           r == Rank(q)
<1>1. /\ q \in Seq(Node) /\ Distinct(q) /\ pr \in [Node -> Int] /\ Sorted(q, pr)
      /\ Threads(N, Objects, Threaded(q), r)
      /\ Threads(P, Node, L, r)
    BY DEF Holds
<1>2. /\ PlistRemove(P, N, n).prio_list = P2
      /\ PlistRemove(P, N, n).node_list = D!RemoveInit(N, n)
    BY DEF PlistRemove
<1>3. d \in Seq(Node) /\ Distinct(d) /\ Sorted(d, pr)
    BY <1>1, DequeueFacts
<1>4. L \subseteq Members(q)
    BY <1>1, LeaderFacts
<1>5. n \in Objects /\ n # ListHead
    BY PListAssumption DEF Objects
<1>6. CASE n \notin Members(q)
    <2>1. d = q
        BY <1>6 DEF Dequeue
    <2>2. D!RemoveInit(N, n) = N
        <3>1. n \in Objects \ Threaded(q)
            BY <1>5, <1>6 DEF Threaded
        <3> QED
            BY <1>1, <3>1, RemoveAlone
    <2>3. P2 = P
        BY <1>1, <1>4, <1>6 DEF Threads, D!IsEmpty
    <2> HIDE DEF P2
    <2> QED
        BY <1>2, <2>1, <2>2, <2>3
<1>7. CASE n \in Members(q)
    <2> DEFINE k == r[n]
               u == q[k + 1]
    <2>1. Threads(D!RemoveInit(N, n), Objects, Threaded(d), Rank(d))
        <3>1. n \in Threaded(q)
            BY <1>7 DEF Threaded
        <3>2. Threads(D!RemoveInit(N, n), Objects, Threaded(q) \ {n}, r)
            BY <1>1, <3>1, RingRemove
        <3>3. Threaded(d) = Threaded(q) \ {n}
            BY <1>1, <1>7, DequeueRank
        <3> QED
            BY <1>1, <1>7, <3>2, <3>3, DequeueRing
    <2>2. k \in 1..Len(q) /\ q[k] = n
        BY <1>1, <1>7, RankFacts
    <2>3. N[n].next = IF k = Len(q) THEN ListHead ELSE u
        BY <1>1, <2>2, LinkFacts
    <2>4. Leaders(d, pr) = IF n \in L /\ k # Len(q) /\ pr[u] = pr[n]
                           THEN (L \ {n}) \cup {u} ELSE L \ {n}
        BY <1>1, <1>7, DequeueLeaders
    <2>5. ASSUME n \in L, k # Len(q)
          PROVE  /\ u \in Members(q) /\ u # n /\ u \in Node /\ u # ListHead /\ r[u] = k + 1
                 /\ u \in L <=> pr[u] # pr[n]
        <3>1. u \in Members(q) /\ r[u] = k + 1 /\ (u \in L <=> pr[u] # pr[n])
            BY <1>1, <2>5, Successor
        <3>2. k + 1 # k
            BY <2>2
        <3>3. u \in Node /\ u # ListHead
            BY <1>1, <3>1, RankFacts
        <3> QED
            BY <3>1, <3>2, <3>3
    <2>6. Members(q) \subseteq Threaded(q) /\ \A x \in Members(q) : r[x] \in 1..Len(q)
        BY <1>1, RankFacts DEF Threaded
    <2>7. \A x, y \in Members(q) : r[x] = r[y] => x = y
        BY <1>1, SortedRank
    <2> HIDE DEF d, L, r, k, u
    <2>8. Threads(P2, Node, Leaders(d, pr), Rank(d))
        <3>1. CASE n \notin L
            <4>1. P2 = P
                BY <1>1, <3>1 DEF Threads, D!IsEmpty
            <4>2. Leaders(d, pr) = L /\ L \subseteq Threaded(q) \ {n}
                BY <1>4, <2>4, <2>6, <3>1
            <4> QED
                BY <1>1, <1>7, <4>1, <4>2, DequeueRing DEF d, r
        <3>2. CASE n \in L /\ P[n].next = n
            <4>1. P2 = P
                BY <3>2 DEF D!IsEmpty
            <4>2. L = {n} /\ P[n].prev = n
                BY <1>1, <3>2, LeadsAlone
            <4>3. P \in Links(Node) /\ \A x \in Node : P[x].next = x /\ P[x].prev = x
                BY <1>1, <3>2, <4>2 DEF Threads
            <4>4. CASE Leaders(d, pr) = {u} /\ u \in Node
                <5>1. Rank(d)[u] \in Int
                    <6>1. Rank(d) \in [Objects -> Nat]
                        BY <1>3, RankFacts
                    <6> QED
                        BY <4>4, <6>1 DEF Objects
                <5> QED
                    BY <4>1, <4>3, <4>4, <5>1, OneLeader
            <4>5. CASE Leaders(d, pr) = {}
                BY <4>1, <4>3, <4>5 DEF Threads, Ranked
            <4> QED
                BY <2>4, <2>5, <3>2, <4>2, <4>4, <4>5
        <3>3. CASE n \in L /\ P[n].next # n /\ (k = Len(q) \/ pr[u] # pr[n])
            <4>1. P2 = D!RemoveInit(P, n)
                <5>1. Handed(P, N, n) = P
                    <6>1. CASE k = Len(q)
                        BY <2>3, <6>1 DEF Handed
                    <6>2. CASE k # Len(q)
                        <7>1. u \in L /\ u # n
                            BY <2>5, <3>3, <6>2
                        <7>2. P[u].next # u
                            BY <1>1, <3>3, <7>1, LeadsAlone
                        <7> QED
                            BY <2>3, <6>2, <7>2 DEF Handed, D!IsEmpty
                    <6> QED
                        BY <6>1, <6>2
                <5> QED
                    BY <3>3, <5>1 DEF D!IsEmpty
            <4>2. Threads(D!RemoveInit(P, n), Node, L \ {n}, r)
                BY <1>1, <3>3, RingRemove
            <4>3. Leaders(d, pr) = L \ {n} /\ L \ {n} \subseteq Threaded(q) \ {n}
                BY <1>4, <2>4, <2>6, <3>3
            <4> QED
                BY <1>1, <1>7, <4>1, <4>2, <4>3, DequeueRing DEF d, r
        <3>4. CASE n \in L /\ P[n].next # n /\ k # Len(q) /\ pr[u] = pr[n]
            <4>1. u \in Node \ L /\ u \in Members(q) /\ u # n /\ r[u] = r[n] + 1 /\ u # ListHead
                BY <2>5, <3>4 DEF k
            <4>2. P2 = D!RemoveInit(D!Add(P, u, n), n)
                <5>1. P[u].next = u
                    BY <1>1, <4>1 DEF Threads
                <5>2. Handed(P, N, n) = D!Add(P, u, n)
                    BY <2>3, <3>4, <4>1, <5>1 DEF Handed, D!IsEmpty
                <5> QED
                    BY <3>4, <5>2 DEF D!IsEmpty
            <4>3. Threads(D!Add(P, u, n), Node, L \cup {u}, r)
                <5>1. ASSUME NEW x \in L PROVE r[x] # r[u]
                    <6>1. x \in Members(q) /\ x # u
                        BY <1>4, <4>1
                    <6> QED
                        BY <2>7, <4>1, <6>1
                <5> QED
                    BY <1>1, <3>4, <4>1, <5>1, HandedOn
            <4>4. n \in L \cup {u}
                BY <3>4
            <4>5. Threads(D!RemoveInit(D!Add(P, u, n), n), Node, (L \cup {u}) \ {n}, r)
                BY <4>3, <4>4, RingRemove
            <4>6. /\ Leaders(d, pr) = (L \cup {u}) \ {n}
                  /\ (L \cup {u}) \ {n} \subseteq Threaded(q) \ {n}
                BY <1>4, <2>4, <2>6, <3>4, <4>1
            <4> QED
                BY <1>1, <1>7, <4>2, <4>5, <4>6, DequeueRing DEF d, r
        <3> QED
            BY <3>1, <3>2, <3>3, <3>4
    <2> HIDE DEF P2
    <2> QED
        BY <1>1, <1>2, <1>3, <2>1, <2>8 DEF Holds, d
<1> QED
    BY <1>6, <1>7

-----------------------------------------------------------------------------
(* plist_requeue                                                           *)

LEMMA DequeueAt ==
    ASSUME NEW q \in Seq(Node), Distinct(q), NEW n \in Members(q)
    PROVE  \A i \in 1..(Len(q) - 1) :
               Dequeue(q, n)[i] = IF i < Rank(q)[n] THEN q[i] ELSE q[i + 1]
<1>1. PICK k \in 1..Len(q) : k = Rank(q)[n] /\ q[k] = n
    BY RankFacts
<1>2. (CHOOSE j \in 1..Len(q) : q[j] = n) = k
    BY <1>1 DEF Distinct
<1>3. Dequeue(q, n) = [i \in 1..(Len(q) - 1) |-> IF i < k THEN q[i] ELSE q[i + 1]]
    BY <1>2 DEF Dequeue
<1> QED
    BY <1>1, <1>3

\* The last node of its priority is where plist_requeue would put it.
LEMMA RequeueLast ==
    ASSUME NEW q \in Seq(Node), Distinct(q), NEW pr \in [Node -> Int], Sorted(q, pr),
           NEW n \in Members(q),
           Rank(q)[n] = Len(q) \/ pr[q[Rank(q)[n] + 1]] # pr[n]
    PROVE  Enqueue(Dequeue(q, n), pr, n) = q
<1> DEFINE d == Dequeue(q, n)
           e == Enqueue(d, pr, n)
<1>1. PICK k \in 1..Len(q) : k = Rank(q)[n] /\ q[k] = n
    BY RankFacts
<1>2. d \in Seq(Node) /\ Len(d) = Len(q) - 1
    BY DequeueFacts, DequeueRank
<1>3. \A i \in 1..(Len(q) - 1) : d[i] = IF i < k THEN q[i] ELSE q[i + 1]
    BY <1>1, DequeueAt
<1>4. \A i \in 1..Len(q) : pr[q[i]] \in Int
    OBVIOUS
<1>5. \A i, j \in 1..Len(q) : i < j => pr[q[i]] <= pr[q[j]]
    BY DEF Sorted
<1>6. n \in Node
    BY RankFacts
<1> HIDE DEF d
<1>7. IsSlot(d, pr, n, k)
    <2>1. k \in 1..(Len(d) + 1)
        BY <1>1, <1>2
    <2>2. ASSUME NEW i \in 1..(k - 1) PROVE pr[d[i]] <= pr[n]
        <3>1. i \in 1..(Len(q) - 1) /\ i < k /\ i \in 1..Len(q)
            <4>1. Len(q) \in Int /\ k \in Int /\ k <= Len(q) /\ i \in Int /\ 1 <= i /\ i <= k - 1
                BY <1>1
            <4> QED
                BY <4>1
        <3>2. d[i] = q[i]
            BY <1>3, <3>1
        <3> QED
            BY <1>1, <1>5, <3>1, <3>2
    <2>3. ASSUME k <= Len(d) PROVE pr[n] < pr[d[k]]
        <3>1. k \in 1..(Len(q) - 1) /\ ~(k < k) /\ k + 1 \in 1..Len(q) /\ k < k + 1 /\ k # Len(q)
            <4>1. Len(q) \in Int /\ k \in Int /\ 1 <= k /\ k <= Len(q) - 1
                BY <1>1, <1>2, <2>3
            <4> QED
                BY <4>1
        <3>2. d[k] = q[k + 1]
            BY <1>3, <3>1
        <3>3. pr[q[k + 1]] # pr[n]
            BY <1>1, <3>1
        <3>4. pr[n] <= pr[q[k + 1]] /\ pr[n] \in Int /\ pr[q[k + 1]] \in Int
            BY <1>1, <1>4, <1>5, <3>1
        <3> QED
            BY <3>2, <3>3, <3>4
    <2> QED
        BY <2>1, <2>2, <2>3 DEF IsSlot
<1>8. /\ Len(e) = Len(d) + 1 /\ e[k] = n
      /\ \A i \in 1..Len(d) : i < k => e[i] = d[i]
      /\ \A i \in 1..Len(d) : k <= i => e[i + 1] = d[i]
      /\ e = Inserted(d, n, k)
    <2>1. d \in Seq(Node)
        BY <1>2
    <2>2. Len(e) = Len(d) + 1 /\ e[k] = n /\ e = Inserted(d, n, k)
        BY <1>6, <1>7, <2>1, EnqueueAt
    <2> HIDE DEF e
    <2>3. ASSUME NEW i \in 1..Len(d), i < k PROVE e[i] = d[i]
        BY <2>2, <2>3 DEF Inserted
    <2>4. ASSUME NEW i \in 1..Len(d), k <= i PROVE e[i + 1] = d[i]
        <3>1. i + 1 \in 1..(Len(d) + 1) /\ ~(i + 1 < k) /\ i + 1 # k /\ (i + 1) - 1 = i
            BY <1>1, <2>4
        <3> QED
            BY <2>2, <3>1 DEF Inserted
    <2> QED
        BY <2>2, <2>3, <2>4
<1>9. e = [i \in 1..Len(q) |-> e[i]]
    <2>1. e = [i \in 1..(Len(d) + 1) |-> e[i]]
        BY <1>8 DEF Inserted
    <2>2. Len(d) + 1 = Len(q)
        BY <1>2
    <2> QED
        BY <2>1, <2>2
<1> HIDE DEF e
<1>10. ASSUME NEW i \in 1..Len(q) PROVE e[i] = q[i]
    <2>1. CASE i = k
        BY <1>1, <1>8, <2>1
    <2>2. CASE i < k
        <3>1. i \in 1..Len(d) /\ i \in 1..(Len(q) - 1)
            BY <1>1, <1>2, <2>2
        <3> QED
            BY <1>3, <1>8, <2>2, <3>1
    <2>3. CASE k < i
        <3>1. PICK j \in 1..(Len(q) - 1) : i = j + 1 /\ ~(j < k) /\ j \in 1..Len(d)
            <4>1. /\ i - 1 \in 1..(Len(q) - 1) /\ i = (i - 1) + 1 /\ ~(i - 1 < k)
                  /\ i - 1 \in 1..Len(d)
                <5>1. /\ Len(q) \in Int /\ k \in Int /\ i \in Int /\ 1 <= k /\ k < i /\ i <= Len(q)
                      /\ Len(d) = Len(q) - 1
                    BY <1>1, <1>2, <2>3
                <5> QED
                    BY <5>1
            <4> QED
                BY <4>1
        <3> QED
            BY <1>3, <1>8, <3>1
    <2> QED
        BY <1>1, <2>1, <2>2, <2>3
<1>11. q = [i \in 1..Len(q) |-> q[i]]
    OBVIOUS
<1>12. e = q
    BY <1>9, <1>10, <1>11, Zenon
<1> QED
    BY <1>12 DEF d, e

\* plist_requeue moves a node behind the last of its priority.
LEMMA RequeueHolds ==
    ASSUME NEW P, NEW N, NEW pr, NEW q, Holds(P, N, pr, q), NEW n \in Members(q)
    PROVE  Holds(PlistRequeue(P, N, pr, n).prio_list, PlistRequeue(P, N, pr, n).node_list, pr,
                 Enqueue(Dequeue(q, n), pr, n))
<1> DEFINE d == Dequeue(q, n)
           e == Enqueue(d, pr, n)
           out == PlistRemove(P, N, n)
           next == N[n].next
           k == Rank(q)[n]
           u == q[k + 1]
<1>1. /\ q \in Seq(Node) /\ Distinct(q) /\ pr \in [Node -> Int] /\ Sorted(q, pr)
      /\ Threads(N, Objects, Threaded(q), Rank(q))
    BY DEF Holds
<1>2. k \in 1..Len(q) /\ q[k] = n /\ n \in Node
    BY <1>1, RankFacts
<1>3. next = IF k = Len(q) THEN ListHead ELSE u
    BY <1>1, <1>2, LinkFacts
<1>4. \A i \in 1..Len(q) : q[i] # ListHead /\ q[i] \in Node
    BY <1>1, RankFacts
<1>5. CASE next = ListHead \/ pr[next] # pr[n]
    <2>1. PlistRequeue(P, N, pr, n) = [prio_list |-> P, node_list |-> N]
        BY <1>5, Zenon DEF PlistRequeue
    <2>2. k = Len(q) \/ pr[u] # pr[n]
        <3>1. CASE k # Len(q)
            <4>1. k + 1 \in 1..Len(q)
                BY <1>2, <3>1
            <4>2. next = u /\ u # ListHead
                BY <1>3, <1>4, <3>1, <4>1
            <4> QED
                BY <1>5, <4>2
        <3> QED
            BY <3>1
    <2>3. e = q
        BY <1>1, <2>2, RequeueLast
    <2> QED
        BY <2>1, <2>3
<1>6. CASE ~(next = ListHead \/ pr[next] # pr[n])
    <2>0. k # Len(q) /\ next = u /\ pr[u] = pr[n] /\ k + 1 \in 1..Len(q)
        BY <1>2, <1>3, <1>6
    <2> DEFINE w == Walk(out.node_list, next)
               E == {i \in 1..(Cardinality(Node) + 1) : w[i] = ListHead \/ pr[w[i]] # pr[n]}
               end == Min(E)
    <2>1. PlistRequeue(P, N, pr, n) =
              [out EXCEPT !.node_list = D!AddTail(@, n, w[end])]
        BY <1>6, Zenon DEF PlistRequeue, Walk, IsWalk
    <2>2. out = [prio_list |-> out.prio_list, node_list |-> out.node_list]
        BY DEF PlistRemove
    <2>3. /\ PlistRequeue(P, N, pr, n).prio_list = out.prio_list
          /\ PlistRequeue(P, N, pr, n).node_list = D!AddTail(out.node_list, n, w[end])
        <3> HIDE DEF out, w, end
        <3> QED
            BY <2>1, <2>2
    <2>4. Holds(out.prio_list, out.node_list, pr, d)
        BY <1>2, RemoveHolds
    <2>5. PICK P2, N2 : P2 = out.prio_list /\ N2 = out.node_list
        OBVIOUS
    <2>6. /\ d \in Seq(Node) /\ Distinct(d) /\ Sorted(d, pr)
          /\ Threads(N2, Objects, Threaded(d), Rank(d))
          /\ Threads(P2, Node, Leaders(d, pr), Rank(d))
        BY <2>4, <2>5 DEF Holds
    <2>7. Len(d) = Len(q) - 1 /\ n \notin Members(d)
        BY <1>1, DequeueRank, DequeueFacts
    <2>8. k \in 1..Len(d) /\ d[k] = u /\ NodeAt(d, k) = next
        <3>1. k \in 1..(Len(q) - 1) /\ ~(k < k)
            BY <1>2, <2>0
        <3>2. d[k] = u
            BY <1>1, <3>1, DequeueAt
        <3>3. k \in 1..Len(d) /\ k # 0
            BY <2>7, <3>1
        <3> QED
            BY <2>0, <3>2, <3>3 DEF NodeAt
    <2>9. \A i \in 1..Len(d) : d[i] # ListHead /\ pr[d[i]] \in Int /\ d[i] \in Members(d)
        <3> HIDE DEF d
        <3> QED
            BY <1>1, <2>6, RankFacts
    <2>10. \A i, j \in 1..Len(d) : i <= j => pr[d[i]] <= pr[d[j]]
        <3>1. \A i, j \in 1..Len(d) : i < j => pr[d[i]] <= pr[d[j]]
            BY <2>6 DEF Sorted
        <3> QED
            BY <2>9, <3>1
    <2> HIDE DEF d, k, u, next, out
    <2>11. PICK m \in Nat : m = Len(d) - k
        BY <2>8
    <2>12. /\ \A i \in 0..m : w[i] = NodeAt(d, k + i)
           /\ w[m + 1] = ListHead
        <3>1. k \in 0..Len(d)
            BY <2>8
        <3>2. /\ \A i \in 0..(Len(d) - k) : Walk(N2, NodeAt(d, k))[i] = NodeAt(d, k + i)
              /\ Walk(N2, NodeAt(d, k))[Len(d) - k + 1] = ListHead
            BY <2>6, <3>1, QueuePath
        <3> QED
            BY <2>5, <2>8, <2>11, <3>2
    <2> HIDE DEF w
    <2>13. /\ end \in 1..(m + 1)
           /\ w[end] = ListHead \/ pr[w[end]] # pr[n]
           /\ \A i \in 1..(end - 1) : pr[w[i]] = pr[n]
        <3>1. Cardinality(Node) \in Nat /\ Len(d) <= Cardinality(Node)
            BY <2>6, LengthBound
        <3>2. m + 1 \in E /\ E \subseteq Nat
            BY <2>8, <2>11, <2>12, <3>1
        <3>3. end \in E /\ \A i \in E : end <= i
            <4> HIDE DEF E
            <4> QED
                BY <3>2, MinFacts
        <3>4. end \in 1..(m + 1)
            BY <3>2, <3>3
        <3>5. ASSUME NEW i \in 1..(end - 1) PROVE pr[w[i]] = pr[n]
            <4>1. i \in 1..(Cardinality(Node) + 1) /\ ~(end <= i)
                BY <3>1, <3>3
            <4>2. i \notin E
                <5> HIDE DEF E
                <5> QED
                    BY <3>3, <4>1
            <4> QED
                BY <4>1, <4>2
        <3> QED
            BY <3>3, <3>4, <3>5
    <2> HIDE DEF E, end
    <2>14. \A i \in 1..m : w[i] = d[k + i] /\ k + i \in 1..Len(d)
        <3> TAKE i \in 1..m
        <3>1. k + i # 0 /\ k + i \in 1..Len(d) /\ i \in 0..m
            BY <2>8, <2>11
        <3> QED
            BY <2>12, <3>1 DEF NodeAt
    <2>15. PICK K : K = k + end
        OBVIOUS
    <2>16. K \in 1..(Len(d) + 1) /\ (K = Len(d) + 1 <=> end = m + 1)
        BY <2>8, <2>11, <2>13, <2>15
    <2>17. w[end] = IF K = Len(d) + 1 THEN ListHead ELSE d[K]
        <3>1. CASE end = m + 1
            BY <2>12, <2>16, <3>1
        <3>2. CASE end # m + 1
            <4>1. end \in 1..m
                BY <2>13, <3>2
            <4> QED
                BY <2>14, <2>15, <2>16, <3>2, <4>1
        <3> QED
            BY <3>1, <3>2
    <2>18. IsSlot(d, pr, n, K)
        <3>1. ASSUME NEW i \in 1..(K - 1) PROVE pr[d[i]] <= pr[n]
            <4>0. i \in 1..Len(d) /\ pr[d[i]] \in Int
                BY <2>9, <2>16
            <4>1. CASE i <= k
                BY <2>0, <2>8, <2>10, <4>0, <4>1
            <4>2. CASE ~(i <= k)
                <5>1. PICK j \in 1..(end - 1) : i = k + j
                    <6>1. i - k \in 1..(end - 1) /\ i = k + (i - k)
                        BY <2>8, <2>13, <2>15, <4>2
                    <6> QED
                        BY <6>1
                <5>2. j \in 1..m
                    BY <2>13
                <5>3. w[j] = d[i] /\ pr[w[j]] = pr[n]
                    BY <2>13, <2>14, <5>1, <5>2
                <5> QED
                    BY <4>0, <5>3
            <4> QED
                BY <4>1, <4>2
        <3>2. ASSUME K <= Len(d) PROVE pr[n] < pr[d[K]]
            <4>1. K \in 1..Len(d) /\ K # Len(d) + 1 /\ k <= K
                BY <2>8, <2>13, <2>15, <2>16, <3>2
            <4>2. w[end] = d[K] /\ d[K] # ListHead
                BY <2>9, <2>17, <4>1
            <4>3. pr[d[K]] # pr[n]
                BY <2>13, <4>2
            <4>4. pr[d[k]] <= pr[d[K]] /\ pr[d[k]] \in Int /\ pr[d[K]] \in Int
                BY <2>8, <2>9, <2>10, <4>1
            <4> QED
                BY <2>0, <2>8, <4>3, <4>4
        <3> QED
            BY <2>16, <3>1, <3>2 DEF IsSlot
    <2>19. Threads(D!AddTail(N2, n, w[end]), Objects, Threaded(e), Rank(e))
        BY <1>2, <2>4, <2>5, <2>7, <2>17, <2>18, InsertNodes
    <2>20. Leaders(d, pr) \subseteq Threaded(d)
        BY <1>1, <2>6, LeaderFacts DEF Threaded
    <2>21. Leaders(e, pr) = Leaders(d, pr)
        <3>1. u \in Members(d) /\ pr[u] = pr[n]
            BY <2>0, <2>8, <2>9
        <3> QED
            BY <1>1, <1>2, <2>6, <2>7, <2>18, <3>1, EnqueueLeaders
    <2>22. Threads(P2, Node, Leaders(e, pr), Rank(e))
        BY <1>1, <1>2, <2>6, <2>7, <2>18, <2>20, <2>21, EnqueueRing
    <2>23. e \in Seq(Node) /\ Distinct(e) /\ Sorted(e, pr)
        BY <1>1, <1>2, <2>6, <2>7, EnqueueFacts
    <2> QED
        BY <1>1, <2>3, <2>5, <2>19, <2>22, <2>23 DEF Holds, d
<1> QED
    BY <1>5, <1>6

-----------------------------------------------------------------------------
(* The steps of the list, and what they implement                          *)

LEMMA QueueHeld ==
    ASSUME NEW P, NEW N, NEW pr, NEW q, Holds(P, N, pr, q)
    PROVE  Queue(N) = q /\ Holds(P, N, pr, Queue(N))
<1>1. Queue(N) = q
    BY QueueIs DEF Holds
<1> QED
    BY <1>1

\* Priorities that compare alike make the same list.
LEMMA PrioHolds ==
    ASSUME NEW P, NEW N, NEW pr, NEW q, Holds(P, N, pr, q), NEW pr2 \in [Node -> Int],
           \A x, y \in Members(q) : pr[x] <= pr[y] <=> pr2[x] <= pr2[y]
    PROVE  Holds(P, N, pr2, q)
<1>1. /\ q \in Seq(Node) /\ Distinct(q) /\ pr \in [Node -> Int] /\ Sorted(q, pr)
      /\ Threads(N, Objects, Threaded(q), Rank(q))
      /\ Threads(P, Node, Leaders(q, pr), Rank(q))
    BY DEF Holds
<1>2. \A i \in 1..Len(q) : q[i] \in Members(q)
    BY <1>1, RankFacts
<1>3. Sorted(q, pr2)
    BY <1>1, <1>2 DEF Sorted
<1>4. Members(q) \subseteq Node
    BY <1>1, RankFacts
<1>5. ASSUME NEW x \in Members(q), NEW y \in Members(q) PROVE pr[y] = pr[x] <=> pr2[y] = pr2[x]
    <2>1. pr[x] \in Int /\ pr[y] \in Int /\ pr2[x] \in Int /\ pr2[y] \in Int
        BY <1>1, <1>4
    <2>2. (pr[x] <= pr[y] <=> pr2[x] <= pr2[y]) /\ (pr[y] <= pr[x] <=> pr2[y] <= pr2[x])
        OBVIOUS
    <2> QED
        BY <2>1, <2>2
<1>6. Leaders(q, pr2) = Leaders(q, pr)
    BY <1>5 DEF Leaders
<1> QED
    BY <1>1, <1>3, <1>6 DEF Holds

\* The inductive invariant: the links hold the list that plist_foreach visits.
ListInv == Holds(prio_list, node_list, node_prio, Queue(node_list))

\* The operators of the abstract queue are those of the model.
LEMMA AbstractOperators ==
    ASSUME NEW q, NEW pr, NEW n
    PROVE  /\ PQ!Enqueue(q, pr, n) = Enqueue(q, pr, n)
           /\ PQ!Dequeue(q, n) = Dequeue(q, n)
           /\ PQ!Members(q) = Members(q)
           /\ PQ!Normalised(q, pr) = Normalised(q, pr)
           /\ PQ!Distinct(q) <=> Distinct(q)
           /\ PQ!Sorted(q, pr) <=> Sorted(q, pr)
<1>1. PQ!Enqueue(q, pr, n) = Enqueue(q, pr, n)
    BY Zenon DEF PQ!Enqueue, Enqueue, PQ!IsSlot, IsSlot
<1>2. PQ!Members(q) = Members(q)
    BY Zenon DEF PQ!Members, Members
<1>3. PQ!Dequeue(q, n) = Dequeue(q, n)
    BY <1>2, Zenon DEF PQ!Dequeue, Dequeue
<1>4. PQ!Normalised(q, pr) = Normalised(q, pr)
    BY <1>2, Zenon DEF PQ!Normalised, Normalised
<1>5. PQ!Distinct(q) <=> Distinct(q)
    BY Zenon DEF PQ!Distinct, Distinct
<1>6. PQ!Sorted(q, pr) <=> Sorted(q, pr)
    BY Zenon DEF PQ!Sorted, Sorted
<1> QED
    BY <1>1, <1>2, <1>3, <1>4, <1>5, <1>6

LEMMA LinkedIs ==
    ASSUME ListInv, NEW n \in Node
    PROVE  Linked(n) <=> n \in Members(Queue(node_list))
BY LinkFacts DEF ListInv, Holds, Linked

LEMMA ListInitial == PlistInit => ListInv /\ PQ!Init
<1> SUFFICES ASSUME PlistInit PROVE ListInv /\ PQ!Init
    OBVIOUS
<1> DEFINE q == << >>
<1>1. /\ q \in Seq(Node) /\ Len(q) = 0 /\ Members(q) = {}
      /\ Distinct(q) /\ Sorted(q, node_prio)
    BY DEF Members, Distinct, Sorted
<1> HIDE DEF q
<1>2. node_prio \in [Node -> Int] /\ node_prio \in [Node -> Prio]
    BY PListAssumption DEF PlistInit
<1>3. Threads(node_list, Objects, Threaded(q), Rank(q))
    <2>1. /\ node_list \in Links(Objects)
          /\ \A x \in Objects : node_list[x].next = x /\ node_list[x].prev = x
        BY DEF PlistInit, Self, Links, Objects
    <2>2. Rank(q)[ListHead] \in Int /\ ListHead \in Objects
        <3>1. Rank(q) \in [Objects -> Nat]
            BY <1>1, RankFacts
        <3>2. ListHead \in Objects
            BY DEF Objects
        <3> QED
            BY <3>1, <3>2
    <2>3. Threaded(q) = {ListHead}
        BY <1>1 DEF Threaded
    <2> QED
        BY <2>1, <2>2, <2>3, OneLeader
<1>4. Threads(prio_list, Node, Leaders(q, node_prio), Rank(q))
    <2>1. /\ prio_list \in Links(Node)
          /\ \A x \in Node : prio_list[x].next = x /\ prio_list[x].prev = x
        BY DEF PlistInit, Self, Links
    <2>2. Leaders(q, node_prio) = {}
        BY <1>1 DEF Leaders
    <2> QED
        BY <2>1, <2>2 DEF Threads, Ranked
<1>5. Holds(prio_list, node_list, node_prio, q)
    BY <1>1, <1>2, <1>3, <1>4 DEF Holds
<1>6. Queue(node_list) = q /\ ListInv
    BY <1>5, QueueHeld DEF ListInv
<1>7. PQ!Init
    BY <1>2, <1>6 DEF PQ!Init, q
<1> QED
    BY <1>6, <1>7

LEMMA AddStep ==
    ASSUME ListInv, NEW n \in Node, NEW p \in Prio, Add(n, p)
    PROVE  ListInv' /\ PQ!Add(n, p)
<1> DEFINE q == Queue(node_list)
<1>1. n \notin Members(q)
    BY LinkedIs DEF Add
<1>2. node_prio' = [node_prio EXCEPT ![n] = p]
    BY DEF Add
<1>3. /\ prio_list' = PlistAdd(prio_list, node_list, node_prio', n).prio_list
      /\ node_list' = PlistAdd(prio_list, node_list, node_prio', n).node_list
    BY DEF Add, Become
<1>4. Holds(prio_list, node_list, node_prio, q)
    BY DEF ListInv
<1>5. Holds(prio_list, node_list, node_prio', q)
    <2>1. node_prio \in [Node -> Int] /\ Members(q) \subseteq Node
        BY <1>4, RankFacts DEF Holds
    <2>2. node_prio' \in [Node -> Int]
        BY <1>2, <2>1, PListAssumption
    <2>3. \A x \in Members(q) : node_prio'[x] = node_prio[x]
        BY <1>1, <1>2, <2>1
    <2>4. \A x, y \in Members(q) :
              node_prio[x] <= node_prio[y] <=> node_prio'[x] <= node_prio'[y]
        BY <2>3
    <2> QED
        BY <1>4, <2>2, <2>4, PrioHolds
<1> HIDE DEF q
<1>6. Holds(prio_list', node_list', node_prio', Enqueue(q, node_prio', n))
    BY <1>1, <1>3, <1>5, AddHolds
<1>7. Queue(node_list') = Enqueue(q, node_prio', n)
      /\ Holds(prio_list', node_list', node_prio', Queue(node_list'))
    BY <1>6, QueueHeld
<1>8. PQ!Add(n, p)
    BY <1>1, <1>2, <1>7, AbstractOperators DEF PQ!Add, q
<1> QED
    BY <1>7, <1>8 DEF ListInv

LEMMA RemoveStep ==
    ASSUME ListInv, NEW n \in Node, Remove(n)
    PROVE  ListInv' /\ PQ!Remove(n)
<1> DEFINE q == Queue(node_list)
<1>1. /\ prio_list' = PlistRemove(prio_list, node_list, n).prio_list
      /\ node_list' = PlistRemove(prio_list, node_list, n).node_list
      /\ node_prio' = node_prio
    BY DEF Remove, Become
<1>2. Holds(prio_list, node_list, node_prio, q)
    BY DEF ListInv
<1> HIDE DEF q
<1>3. Holds(prio_list', node_list', node_prio', Dequeue(q, n))
    BY <1>1, <1>2, RemoveHolds
<1>4. Queue(node_list') = Dequeue(q, n)
      /\ Holds(prio_list', node_list', node_prio', Queue(node_list'))
    BY <1>3, QueueHeld
<1>5. PQ!Remove(n)
    BY <1>1, <1>4, AbstractOperators DEF PQ!Remove, q
<1> QED
    BY <1>4, <1>5 DEF ListInv

LEMMA RequeueStep ==
    ASSUME ListInv, NEW n \in Node, Requeue(n)
    PROVE  ListInv' /\ PQ!Requeue(n)
<1> DEFINE q == Queue(node_list)
<1>1. /\ prio_list' = PlistRequeue(prio_list, node_list, node_prio, n).prio_list
      /\ node_list' = PlistRequeue(prio_list, node_list, node_prio, n).node_list
      /\ node_prio' = node_prio
    BY DEF Requeue, Become
<1>2. Holds(prio_list, node_list, node_prio, q) /\ n \in Members(q)
    BY LinkedIs DEF ListInv, Requeue
<1> HIDE DEF q
<1>3. Holds(prio_list', node_list', node_prio', Enqueue(Dequeue(q, n), node_prio, n))
    BY <1>1, <1>2, RequeueHolds
<1>4. Queue(node_list') = Enqueue(Dequeue(q, n), node_prio, n)
      /\ Holds(prio_list', node_list', node_prio', Queue(node_list'))
    BY <1>3, QueueHeld
<1>5. PQ!Requeue(n)
    BY <1>1, <1>2, <1>4, AbstractOperators DEF PQ!Requeue, q
<1> QED
    BY <1>4, <1>5 DEF ListInv

LEMMA RotateStep ==
    ASSUME ListInv, NEW n \in Node, Rotate(n)
    PROVE  ListInv' /\ PQ!Rotate(n)
<1> DEFINE q == Queue(node_list)
           low == Normalised(q, node_prio)
           d == Dequeue(q, n)
           out == PlistRemove(prio_list, node_list, n)
<1>1. Holds(prio_list, node_list, node_prio, q) /\ n \in Members(q)
    BY LinkedIs DEF ListInv, Rotate
<1>2. /\ q \in Seq(Node) /\ Distinct(q) /\ Sorted(q, node_prio)
      /\ node_prio \in [Node -> Int] /\ Members(q) \subseteq Node
      /\ Threads(node_list, Objects, Threaded(q), Rank(q))
    BY <1>1, RankFacts DEF Holds
<1>3. q # << >>
    BY <1>1 DEF Members
<1>4. node_list[ListHead].next = q[1] /\ node_list[ListHead].prev = q[Len(q)]
    BY <1>2, <1>3, LinkFacts
<1>5. [m \in Node |-> IF Linked(m) THEN node_prio[m] - node_prio[node_list[ListHead].next]
                      ELSE node_prio[m]] = low
    <2>1. DOMAIN node_prio = Node
        BY <1>2
    <2>2. \A m \in Node : Linked(m) <=> m \in Members(q)
        BY LinkedIs
    <2> HIDE DEF q
    <2> QED
        BY <1>4, <2>1, <2>2 DEF Normalised
<1>6. /\ node_prio' = [low EXCEPT ![n] = low[q[Len(q)]] + 1]
      /\ prio_list' = PlistAdd(out.prio_list, out.node_list, node_prio', n).prio_list
      /\ node_list' = PlistAdd(out.prio_list, out.node_list, node_prio', n).node_list
    <2> HIDE DEF q, low
    <2> QED
        BY <1>4, <1>5 DEF Rotate, Become
<1>7. low \in [Node -> Int]
    BY <1>2, NormalisedFacts
<1>8. q[1] \in Node /\ q[Len(q)] \in Node
    BY <1>2, <1>3
<1>9. node_prio' \in [Node -> Int]
    <2>1. low[q[Len(q)]] + 1 \in Int
        BY <1>7, <1>8
    <2> HIDE DEF low, q
    <2> QED
        BY <1>6, <1>7, <2>1
<1>10. Holds(out.prio_list, out.node_list, node_prio, d)
    BY <1>1, <1>2, RemoveHolds
<1>11. Members(d) = Members(q) \ {n}
    BY <1>2, DequeueFacts
<1>12. ASSUME NEW x \in Members(d) PROVE node_prio'[x] = node_prio[x] - node_prio[q[1]]
    <2>1. x \in Members(q) /\ x # n /\ x \in Node
        BY <1>2, <1>11
    <2>2. low[x] = node_prio[x] - node_prio[q[1]]
        BY <1>2, <2>1 DEF Normalised
    <2> HIDE DEF low, q
    <2> QED
        BY <1>6, <1>7, <2>1, <2>2
<1> HIDE DEF q, low, d, out
<1>13. ASSUME NEW x \in Members(d), NEW y \in Members(d)
       PROVE  node_prio[x] <= node_prio[y] <=> node_prio'[x] <= node_prio'[y]
    <2>1. node_prio[x] \in Int /\ node_prio[y] \in Int /\ node_prio[q[1]] \in Int
        BY <1>2, <1>8, <1>11
    <2>2. /\ node_prio'[x] = node_prio[x] - node_prio[q[1]]
          /\ node_prio'[y] = node_prio[y] - node_prio[q[1]]
        BY <1>12
    <2> QED
        BY <2>1, <2>2
<1>14. Holds(out.prio_list, out.node_list, node_prio', d)
    BY <1>9, <1>10, <1>13, PrioHolds
<1>15. n \notin Members(d)
    BY <1>11
<1>16. Holds(prio_list', node_list', node_prio', Enqueue(d, node_prio', n))
    BY <1>6, <1>14, <1>15, AddHolds
<1>17. Queue(node_list') = Enqueue(d, node_prio', n)
       /\ Holds(prio_list', node_list', node_prio', Queue(node_list'))
    BY <1>16, QueueHeld
<1>18. PQ!Rotate(n)
    <2>1. n \in PQ!Members(q)
        BY <1>1, AbstractOperators
    <2>2. PQ!Normalised(q, node_prio) = low
        BY AbstractOperators DEF low
    <2>3. Queue(node_list') = PQ!Enqueue(PQ!Dequeue(q, n), node_prio', n)
        <3>1. PQ!Dequeue(q, n) = d
            BY AbstractOperators DEF d
        <3>2. PQ!Enqueue(d, node_prio', n) = Enqueue(d, node_prio', n)
            BY AbstractOperators
        <3> QED
            BY <1>17, <3>1, <3>2
    <2> QED
        BY <1>6, <2>1, <2>2, <2>3 DEF PQ!Rotate, q
<1> QED
    BY <1>17, <1>18 DEF ListInv

LEMMA ListStep == ListInv /\ [PlistNext]_plistVars => ListInv' /\ [PQ!Next]_(PQ!vars)
<1> SUFFICES ASSUME ListInv, [PlistNext]_plistVars
             PROVE  ListInv' /\ [PQ!Next]_(PQ!vars)
    OBVIOUS
<1>1. ASSUME NEW n \in Node, NEW p \in Prio, Add(n, p) PROVE ListInv' /\ PQ!Next
    BY <1>1, AddStep DEF PQ!Next
<1>2. ASSUME NEW n \in Node, Remove(n) PROVE ListInv' /\ PQ!Next
    BY <1>2, RemoveStep DEF PQ!Next
<1>3. ASSUME NEW n \in Node, Requeue(n) PROVE ListInv' /\ PQ!Next
    BY <1>3, RequeueStep DEF PQ!Next
<1>4. ASSUME NEW n \in Node, Rotate(n) PROVE ListInv' /\ PQ!Next
    BY <1>4, RotateStep DEF PQ!Next
<1>5. CASE UNCHANGED plistVars
    <2>1. node_list' = node_list /\ prio_list' = prio_list /\ node_prio' = node_prio
        BY <1>5 DEF plistVars
    <2>2. Queue(node_list') = Queue(node_list)
        BY <2>1
    <2> QED
        BY <2>1, <2>2 DEF ListInv, PQ!vars
<1> QED
    BY <1>1, <1>2, <1>3, <1>4, <1>5 DEF PlistNext

\* The places of the leaders, as LeaderRing counts them.
LEMMA LeadPlaces ==
    ASSUME NEW q \in Seq(Node), Distinct(q), NEW pr \in [Node -> Int], Sorted(q, pr),
           NEW i \in 1..Len(q)
    PROVE  q[i] \in Leaders(q, pr) <=> (i = 1 \/ pr[q[i]] # pr[q[i - 1]])
<1> DEFINE r == Rank(q)
<1>1. \A j \in 1..Len(q) : q[j] \in Members(q) /\ r[q[j]] = j /\ pr[q[j]] \in Int
    BY RankFacts
<1>2. \A x \in Members(q) : r[x] \in 1..Len(q) /\ q[r[x]] = x
    BY RankFacts
<1>3. \A x, y \in Members(q) : r[x] <= r[y] => pr[x] <= pr[y]
    BY SortedRank
<1>4. Leaders(q, pr) = {x \in Members(q) : \A y \in Members(q) : pr[y] = pr[x] => r[x] <= r[y]}
    BY DEF Leaders
<1> HIDE DEF r
<1>5. CASE i = 1
    BY <1>1, <1>2, <1>4, <1>5
<1>6. CASE i # 1
    <2>1. PICK j \in 1..Len(q) : j = i - 1 /\ ~(i <= j) /\ j <= i
        <3>1. i - 1 \in 1..Len(q) /\ ~(i <= i - 1) /\ i - 1 <= i
            BY <1>6
        <3> QED
            BY <3>1
    <2>2. ASSUME pr[q[i]] = pr[q[j]] PROVE q[i] \notin Leaders(q, pr)
        BY <1>1, <1>4, <2>1, <2>2
    <2>3. ASSUME pr[q[i]] # pr[q[j]] PROVE q[i] \in Leaders(q, pr)
        <3>1. ASSUME NEW y \in Members(q), pr[y] = pr[q[i]] PROVE r[q[i]] <= r[y]
            <4> SUFFICES ASSUME ~(r[q[i]] <= r[y]) PROVE FALSE
                OBVIOUS
            <4>1. r[y] <= r[q[j]] /\ r[q[j]] <= r[q[i]]
                <5>1. r[y] \in Int /\ r[q[i]] = i /\ r[q[j]] = j
                    BY <1>1, <1>2
                <5> QED
                    BY <2>1, <5>1
            <4>2. pr[y] <= pr[q[j]] /\ pr[q[j]] <= pr[q[i]]
                BY <1>1, <1>3, <4>1
            <4> QED
                BY <1>1, <2>3, <3>1, <4>2
        <3> QED
            BY <1>1, <1>4, <3>1
    <2> QED
        BY <1>6, <2>1, <2>2, <2>3
<1> QED
    BY <1>5, <1>6

LEMMA ListInvSound == ListInv => ListSound
<1> SUFFICES ASSUME ListInv PROVE ListSound
    OBVIOUS
<1> DEFINE q == Queue(node_list)
           lead == {i \in 1..Len(q) : i = 1 \/ node_prio[q[i]] # node_prio[q[i - 1]]}
           then(i) == IF \E j \in lead : j > i THEN Min({j \in lead : j > i}) ELSE 1
           L == Leaders(q, node_prio)
           r == Rank(q)
<1>1. /\ q \in Seq(Node) /\ Distinct(q) /\ Sorted(q, node_prio)
      /\ node_prio \in [Node -> Int]
      /\ Threads(node_list, Objects, Threaded(q), r)
      /\ Threads(prio_list, Node, L, r)
    BY DEF ListInv, Holds
<1>2. Circular(node_list) /\ Circular(prio_list)
    <2>1. DOMAIN node_list = Objects /\ DOMAIN prio_list = Node
        BY <1>1 DEF Threads, Links
    <2> HIDE DEF q, L, r
    <2> QED
        BY <1>1, <2>1, RingTurns DEF Circular
<1>3. PQ!Ordered
    BY <1>1, AbstractOperators DEF PQ!Ordered
<1>4. L \subseteq Members(q)
    BY <1>1, LeaderFacts
<1>5. ASSUME NEW n \in Node, ~Linked(n) PROVE prio_list[n].next = n
    <2>1. n \notin L
        BY <1>4, <1>5, LinkedIs
    <2> QED
        BY <1>1, <2>1 DEF Threads
<1>6. /\ \A i \in 1..Len(q) : q[i] \in Members(q) /\ q[i] \in Node /\ r[q[i]] = i
      /\ \A x \in Members(q) : r[x] \in 1..Len(q) /\ q[r[x]] = x
    BY <1>1, RankFacts
<1>7. \A i \in 1..Len(q) : q[i] \in L <=> i \in lead
    BY <1>1, LeadPlaces
<1>8. lead \subseteq 1..Len(q) /\ \A z \in L : r[z] \in lead
    <2>1. \A z \in L : z \in Members(q) /\ r[z] \in 1..Len(q) /\ q[r[z]] = z
        BY <1>4, <1>6
    <2>2. \A z \in L : r[z] \in lead
        BY <1>7, <2>1
    <2> QED
        BY <2>2
<1> HIDE DEF q, lead, L, r
<1>9. ASSUME NEW i \in lead
      PROVE  then(i) \in lead /\ Follows(L, r, q[i], q[then(i)])
    <2>0. i \in 1..Len(q) /\ Len(q) \in Nat /\ r[q[i]] = i
        BY <1>1, <1>6, <1>8
    <2>8. \A j \in lead : j \in Int /\ 1 <= j
        BY <1>8
    <2>1. CASE \E j \in lead : j > i
        <3> DEFINE E == {j \in lead : j > i}
        <3>1. E \subseteq Nat /\ E # {}
            <4>1. lead \subseteq Nat
                BY <1>8
            <4> QED
                BY <2>1, <4>1
        <3>2. then(i) = Min(E)
            BY <2>1
        <3>3. Min(E) \in E /\ \A j \in E : Min(E) <= j
            <4> HIDE DEF E
            <4> QED
                BY <3>1, MinFacts
        <3>4. PICK t \in lead : t = Min(E) /\ t > i /\ \A j \in lead : j > i => t <= j
            BY <3>3
        <3>5. r[q[t]] = t /\ t \in Int
            BY <1>6, <1>8, <3>4
        <3>6. ASSUME NEW z \in L PROVE r[z] <= i \/ t <= r[z]
            <4>0. r[z] \in lead
                BY <1>8, Zenon
            <4>1. r[z] \in lead /\ r[z] \in Int /\ i \in Int
                BY <4>0, <2>8
            <4>2. r[z] > i => t <= r[z]
                BY <3>4, <4>1
            <4> QED
                BY <4>1, <4>2
        <3>7. Follows(L, r, q[i], q[t])
            BY <2>0, <3>4, <3>5, <3>6 DEF Follows
        <3> QED
            BY <3>2, <3>4, <3>7
    <2>2. CASE ~\E j \in lead : j > i
        <3>1. then(i) = 1
            BY <2>2
        <3>2. 1 \in lead
            BY <2>0 DEF lead
        <3>3. r[q[1]] = 1
            BY <1>6, <1>8, <3>2
        <3>4. ASSUME NEW z \in L PROVE 1 <= r[z] /\ r[z] <= i
            <4>0. r[z] \in lead
                BY <1>8, Zenon
            <4>1. r[z] \in lead /\ r[z] \in Int /\ 1 <= r[z] /\ i \in Int
                BY <4>0, <2>8
            <4>2. ~(r[z] > i)
                BY <2>2, <4>1
            <4> QED
                BY <4>1, <4>2
        <3>5. Follows(L, r, q[i], q[1])
            BY <2>0, <3>3, <3>4 DEF Follows
        <3> QED
            BY <3>1, <3>2, <3>5
    <2> QED
        BY <2>1, <2>2
<1>10. ASSUME NEW i \in 1..Len(q)
       PROVE  prio_list[q[i]].next = IF i \in lead THEN q[then(i)] ELSE q[i]
    <2>1. CASE i \in lead
        <3>1. then(i) \in lead /\ Follows(L, r, q[i], q[then(i)])
            BY <1>9, <2>1
        <3> HIDE DEF then
        <3>2. q[i] \in L /\ q[then(i)] \in L
            BY <1>7, <1>8, <2>1, <3>1
        <3>3. prio_list[q[i]].next \in L /\ Follows(L, r, q[i], prio_list[q[i]].next)
            BY <1>1, <3>2 DEF Threads
        <3>4. Ranked(L, r)
            BY <1>1 DEF Threads
        <3>5. prio_list[q[i]].next = q[then(i)]
            BY <3>1, <3>2, <3>3, <3>4, FollowsOnce
        <3> QED
            BY <2>1, <3>5
    <2>2. CASE i \notin lead
        <3>1. q[i] \in Node \ L
            BY <1>6, <1>7, <2>2
        <3> QED
            BY <1>1, <2>2, <3>1 DEF Threads
    <2> QED
        BY <2>1, <2>2
<1>11. LeaderRing
    BY <1>2, <1>5, <1>10, Zenon DEF LeaderRing, q, lead
<1> QED
    BY <1>3, <1>11 DEF ListSound

\* plist_add and plist_remove keep both rings of the list whole: prio_list
\* threads the first node of each priority, and the nodes are in the order of
\* their priorities, for every number of nodes and priorities.
THEOREM ListIsSound == PlistSpec => []ListSound
<1>1. PlistInit => ListInv
    BY ListInitial
<1>2. ListInv /\ [PlistNext]_plistVars => ListInv'
    BY ListStep
<1> QED
    BY <1>1, <1>2, ListInvSound, PTL DEF PlistSpec

\* The operations of plist.c on the links are the operations of the ordered
\* queue that the scheduler model uses.
THEOREM ListImplementsQueue == PlistSpec => ImplementsPrioQueue
<1>1. PlistInit => ListInv /\ PQ!Init
    BY ListInitial
<1>2. ListInv /\ [PlistNext]_plistVars => ListInv' /\ [PQ!Next]_(PQ!vars)
    BY ListStep
<1> QED
    BY <1>1, <1>2, PTL DEF PlistSpec, ImplementsPrioQueue, PQ!Spec
=============================================================================
