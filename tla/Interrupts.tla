------------------------------ MODULE Interrupts ------------------------------
(***************************************************************************)
(* Interrupts from the devices to their handlers and back: the tables that *)
(* arch/x86/boot/idt.c and the drivers' initialisation fill, irq_handler   *)
(* of arch/x86/kernel/irq.c between the entry and exit of irq_common.S,    *)
(* pic_eoi of pic.c, and the handlers of pit.c, rtc.c, keyboard.c, mouse.c *)
(* and ide.c.                                                              *)
(*                                                                         *)
(* Of the scheduler there is what matters here: its handler leaves the     *)
(* lock with interrupts on, before the end of the interrupt is announced,  *)
(* and may go on with another thread, whose own interrupt may be at the    *)
(* same point.  Which thread is the subject of Scheduler.  The two 8259s,  *)
(* the 8042 and the clock are external.                                    *)
(***************************************************************************)
EXTENDS Integers, Sequences, FiniteSets

CONSTANTS Thread,     \* bound of the model: threads
          BootThread, \* the one sched_init makes of the boot
          Depth,      \* IRQ_DEPTH: handlers of a line
          MaxNested   \* bound of the model: interrupts on a thread's stack

ASSUME InterruptsAssumption ==
    BootThread \in Thread /\ Depth \in Nat \ {0} /\ MaxNested \in Nat \ {0}

VARIABLES
    boot,      \* steps of the boot still to come
    installed, \* vectors with an entry in the IDT
    irq,       \* the handlers of every line
    enabled,   \* the interrupt flag
    irr,       \* lines requested at the two 8259s
    isr,       \* lines in service there; 2 with any of the slave's
    running,   \* the thread on the processor
    frames,    \* interrupts on every thread's stack, the innermost first: line, next
               \* handler, handlers called, and whether the end was announced
    port,      \* the byte in the 8042: "empty", "key" or "mouse"
    regC       \* the clock waits for register C to be read
vars == <<boot, installed, irq, enabled, irr, isr, running, frames, port, regC>>
cpu == <<boot, installed, irq>>

Line == {0, 1, 8, 12, 14}   \* lines with a handler; pic_remap keeps the firmware's masks
Boot == <<"idt", "pit", "keyboard", "mouse", "rtc", "ide", "process", "thread", "sched", "schedule">>
Handler == {"pit", "sched", "keyboard", "mouse", "rtc", "ide"}

TypeOK ==
    /\ boot \in {SubSeq(Boot, i, Len(Boot)) : i \in 1..(Len(Boot) + 1)}
    /\ \A l \in Line : /\ irq[l] \in Seq(Handler) /\ Len(irq[l]) <= Depth
                       /\ \A i, j \in DOMAIN irq[l] : irq[l][i] = irq[l][j] => i = j
    /\ enabled \in BOOLEAN /\ regC \in BOOLEAN
    /\ irr \subseteq Line /\ isr \subseteq Line \cup {2}
    /\ running \in Thread
    /\ \A t \in Thread : Len(frames[t]) <= MaxNested
    /\ port \in {"empty", "key", "mouse"}

-----------------------------------------------------------------------------
\* The entries idt_init adds, in its order: vector and stub.
IdtEntries ==
    [i \in 1..21 |-> <<i - 1, i - 1>>]
    \o <<<<21, 21>>, <<21, 22>>>>
    \o [i \in 1..9 |-> <<22 + i, 22 + i>>]
    \o <<<<127, 127>>>>
    \o [i \in 1..16 |-> <<31 + i, 31 + i>>]
    \o <<<<127, 127>>>>
IdtInit == {IdtEntries[i][1] : i \in DOMAIN IdtEntries}

\* irq_handler_set: the first place that is free, if there is one.
HandlerSet(handlers, h) == IF Len(handlers) < Depth THEN Append(handlers, h) ELSE handlers
Unlocking == {"process", "thread", "schedule"}   \* end in sched_unlock or sched_switch
Scheduled == Thread \ {BootThread}
LineOf(h) == CASE h \in {"pit", "sched"} -> 0 [] h = "keyboard" -> 1 [] h = "rtc" -> 8
               [] h = "mouse" -> 12 [] h = "ide" -> 14

\* A step of arch_main and kernel_main; interrupts come between two of them as
\* soon as the locks of sched_process_create and sched_thread_create are left,
\* before sched_init has set its handler.  Talking to the 8042 leaves requests
\* behind, and perhaps a byte.  sched_schedule leaves the boot for good: its
\* thread is in no queue, and kernel_main never comes to its sys_sti.
BootStep ==
    /\ boot # << >> /\ frames[running] = << >>
    /\ boot' = Tail(boot)
    /\ installed' = IF Head(boot) = "idt" THEN IdtInit ELSE installed
    /\ irq' = IF Head(boot) \in Handler
              THEN [irq EXCEPT ![LineOf(Head(boot))] = HandlerSet(@, Head(boot))]
              ELSE irq
    /\ enabled' = (enabled \/ Head(boot) \in Unlocking)
    /\ IF Head(boot) = "mouse"
       THEN port' \in {"empty", "key", "mouse"} /\ irr' = irr \cup {1, 12}
       ELSE UNCHANGED <<port, irr>>
    /\ IF Head(boot) = "schedule" THEN running' \in Scheduled ELSE UNCHANGED running
    /\ UNCHANGED <<isr, frames, regC>>

-----------------------------------------------------------------------------
(* The devices.  A request that is still waiting hides the next one.       *)

Device == <<cpu, enabled, isr, running, frames>>

PitTick == irr' = irr \cup {0} /\ UNCHANGED <<Device, port, regC>>

\* The 8042 takes a byte when the last one was read; what comes before
\* mouse_init has set its handler is part of that step.
Byte(source, line) ==
    /\ irq[12] # << >> /\ port = "empty"
    /\ port' = source /\ irr' = irr \cup {line}
    /\ UNCHANGED <<Device, regC>>

\* Periodic interrupts of the clock, as rtc_init switched them on.
RtcTick ==
    /\ irq[8] # << >> /\ ~regC
    /\ regC' = TRUE /\ irr' = irr \cup {8}
    /\ UNCHANGED <<Device, port>>

IdeDone == irq[14] # << >> /\ irr' = irr \cup {14} /\ UNCHANGED <<Device, port, regC>>

-----------------------------------------------------------------------------
(* The processor                                                           *)

AtMaster(l) == IF l >= 8 THEN 2 ELSE l
\* The 8259s offer a line when none of its rank or above is in service.
Offered(l) ==
    /\ l \in irr
    /\ \A s \in isr : IF s >= 8 THEN l < 8 \/ l < s ELSE AtMaster(l) < s
Above(k, l) == AtMaster(k) < AtMaster(l) \/ (AtMaster(k) = AtMaster(l) /\ k < l)

\* The highest line that is offered gets to irq_common.
Accept(l) ==
    /\ enabled /\ Offered(l) /\ \A k \in irr : Offered(k) => ~Above(k, l)
    /\ Len(frames[running]) < MaxNested
    /\ irr' = irr \ {l} /\ isr' = isr \cup {l, AtMaster(l)}
    /\ enabled' = FALSE
    /\ frames' = [frames EXCEPT ![running] =
                     <<[line |-> l, next |-> 1, called |-> << >>, announced |-> FALSE]>> \o @]
    /\ UNCHANGED <<cpu, running, port, regC>>

InHandler == frames[running] # << >> /\ ~Head(frames[running]).announced
Top == Head(frames[running])
Left == Top.next > Depth \/ Top.next > Len(irq[Top.line])

\* keyboard_handler takes whatever byte is there, mouse_handler the mouse's.
KeyboardReads == "empty"
MouseReadsKeys == IF port = "key" THEN "empty" ELSE port   \* faulty: the wrong status bit
MouseReads == IF port = "mouse" THEN "empty" ELSE port

\* rtc_handler reads register C.
RtcRead == FALSE

\* One turn of irq_handler's loop; what the handler returns is not used.
\* sched_handler returns with interrupts off only to a thread that is not in
\* the state running, as the boot's never is.
Handle ==
    /\ InHandler /\ ~Left
    /\ LET h == irq[Top.line][Top.next]
       IN  /\ frames' = [frames EXCEPT ![running][1].next = @ + 1, ![running][1].called = Append(@, h)]
           /\ port' = CASE h = "keyboard" -> KeyboardReads [] h = "mouse" -> MouseReads
                        [] OTHER -> port
           /\ regC' = IF h = "rtc" THEN RtcRead ELSE regC
           /\ IF h = "sched"
              THEN \/ running # BootThread /\ running' \in Scheduled /\ enabled' = TRUE
                   \/ UNCHANGED <<running, enabled>>
              ELSE UNCHANGED <<running, enabled>>
    /\ UNCHANGED <<cpu, irr, isr>>

\* pic_eoi: the end of the highest line in service, at each of the two.
HighestOf(lines) == {l \in lines : \A k \in lines : l <= k}
EoiMaster(line) == isr \ HighestOf({l \in isr : l < 8})   \* faulty: not at the slave
Eoi(line) ==
    (isr \ HighestOf({l \in isr : l < 8}))
         \ (IF line >= 8 THEN HighestOf({l \in isr : l >= 8}) ELSE {})

Announce ==
    /\ InHandler /\ Left
    /\ isr' = Eoi(Top.line)
    /\ frames' = [frames EXCEPT ![running][1].announced = TRUE]
    /\ UNCHANGED <<cpu, enabled, irr, running, port, regC>>

\* irq_common's sti and iret
Iret ==
    /\ frames[running] # << >> /\ Top.announced
    /\ frames' = [frames EXCEPT ![running] = Tail(@)]
    /\ enabled' = TRUE
    /\ UNCHANGED <<cpu, irr, isr, running, port, regC>>

\* A thread gives the processor up outside of interrupts; sched_switch ends
\* with interrupts on.
Yield ==
    /\ boot = << >> /\ frames[running] = << >>
    /\ running' \in Scheduled \ {running}
    /\ enabled' = TRUE
    /\ UNCHANGED <<cpu, irr, isr, frames, port, regC>>

-----------------------------------------------------------------------------
Init ==
    /\ boot = Boot /\ installed = {}
    /\ irq = [l \in Line |-> << >>]
    /\ enabled = FALSE
    /\ irr = {} /\ isr = {}
    /\ running = BootThread
    /\ frames = [t \in Thread |-> << >>]
    /\ port = "empty" /\ regC = FALSE

Next ==
    \/ BootStep \/ PitTick \/ Byte("key", 1) \/ Byte("mouse", 12) \/ RtcTick \/ IdeDone
    \/ \E l \in Line : Accept(l)
    \/ Handle \/ Announce \/ Iret \/ Yield

Spec == Init /\ [][Next]_vars

-----------------------------------------------------------------------------
(* Properties                                                              *)

Served(t) == {i \in DOMAIN frames[t] : ~frames[t][i].announced}

\* What the 8259s hold in service is the interrupt whose end is not announced,
\* of the running thread or of one preempted in the middle: no end is
\* announced twice or at the wrong controller, and there is one at a time.
InServiceMatches ==
    /\ Cardinality(UNION {{<<t, i>> : i \in Served(t)} : t \in Thread}) <= 1
    /\ isr = UNION {UNION {{frames[t][i].line, AtMaster(frames[t][i].line)} : i \in Served(t)} : t \in Thread}

Awaits(h, l) ==
    \/ l \in irr
    \/ \E t \in Thread : \E i \in Served(t) :
           frames[t][i].line = l /\ \A c \in DOMAIN frames[t][i].called : frames[t][i].called[c] # h

\* A byte in the 8042 will be read: its line's request waits or its handler has
\* still to run.  Otherwise the controller would take no further byte.
InputPending ==
    /\ port = "key" => Awaits("keyboard", 1)
    /\ port = "mouse" => Awaits("mouse", 12) \/ Awaits("keyboard", 1)

\* The clock's next interrupt is not lost: register C will be read.
ClockPending == regC => Awaits("rtc", 8)

\* In every interrupt that ends all handlers of the line have run, once each and
\* in the order they were set: the timer's count, then the scheduler.
AllHandlersRun ==
    \A t \in Thread : \A i \in DOMAIN frames[t] :
        frames[t][i].announced => frames[t][i].called = irq[frames[t][i].line]

\* No interrupt comes before the table has its gate, in the boot's window
\* between the first sched_unlock and irq_handler_set either.
Gated == enabled => {32 + l : l \in Line} \subseteq installed

\* sched_handler follows sched_thread without asking whether there is one: it
\* is not called before sched_init has assigned it.
ThreadBeforeHandler ==
    \A t \in Thread : \A i \in DOMAIN frames[t] : \A c \in DOMAIN frames[t][i].called :
        frames[t][i].called[c] = "sched" => \A k \in DOMAIN boot : boot[k] # "thread"

\* However interrupts nest and threads change between them, all are served.
ServedInTurn ==
    /\ TypeOK /\ InServiceMatches /\ AllHandlersRun
    /\ Gated /\ ThreadBeforeHandler

\* What idt.c:88 says, "Add all ISR`s on the IDT", and its log at line 122, "IDT:
\* Added ISR 0..31": every exception has its gate.  Line 111 gives isr22 to
\* vector 21, and 22 has none.
AllExceptionsInstalled == boot # Boot => 0..31 \subseteq installed

\* No device waits for ever to be read.
NothingLost == InputPending /\ ClockPending
=============================================================================
