--------------------------- MODULE InterruptsProofs ---------------------------
(***************************************************************************)
(* Proofs about the interrupts.  All rests on one fact: an interrupt whose *)
(* end is not announced is the innermost of its thread and the only one of *)
(* all threads; and only the timer's lets another thread or an interrupt   *)
(* in, when the 8259s offer nothing because line 0 is in service.          *)
(***************************************************************************)
EXTENDS Interrupts, SequenceTheorems, FiniteSetTheorems, TLAPS

\* What lies on a thread's stack.
Frame == [line : Line, next : Nat \ {0}, called : Seq(Handler), announced : BOOLEAN]

\* The place of a handler in the boot, and whether its step is behind when so many
\* are left.
BootOrder(h) == CASE h = "pit" -> 2 [] h = "keyboard" -> 3 [] h = "mouse" -> 4
                  [] h = "rtc" -> 5 [] h = "ide" -> 6 [] h = "sched" -> 9
Behind(h, left) == BootOrder(h) + left <= 10

Step == Handler \cup Unlocking \cup {"idt"}

\* The boot goes on at the place its rest says.
BootInv ==
    /\ boot \in Seq(Step) /\ Len(boot) <= 10
    /\ \A k \in 1..Len(boot) : boot[k] = Boot[10 - Len(boot) + k]
    /\ installed = IF Len(boot) = 10 THEN {} ELSE IdtInit

\* Each line has the handlers of the steps behind; those of the devices that
\* wait to be read have got their place.
LinesInv ==
    /\ irq \in [Line -> Seq(Handler)]
    /\ \A l \in Line :
          /\ Len(irq[l]) <= Depth
          /\ \A j \in 1..Len(irq[l]) : LineOf(irq[l][j]) = l /\ Behind(irq[l][j], Len(boot))
          /\ \A i, j \in 1..Len(irq[l]) : irq[l][i] = irq[l][j] => i = j
    /\ \A h \in {"keyboard", "mouse", "rtc"} : Behind(h, Len(boot)) => irq[LineOf(h)] = <<h>>

\* The handlers of an interrupt are called in turn.
InTurn(f, handlers) ==
    /\ f.next <= Len(handlers[f.line]) + 1
    /\ Len(f.called) = f.next - 1
    /\ \A j \in 1..(f.next - 1) : f.called[j] = handlers[f.line][j]
    /\ f.announced => f.next = Len(handlers[f.line]) + 1

FramesInv ==
    /\ frames \in [Thread -> Seq(Frame)]
    /\ \A t \in Thread :
          /\ Len(frames[t]) <= MaxNested
          /\ Len(frames[t]) > 0 => Len(boot) <= 3 /\ (boot = << >> \/ t = BootThread)
          /\ \A i \in 1..Len(frames[t]) : InTurn(frames[t][i], irq)

\* A thread whose innermost interrupt is in service, and with it no other.
InService(t) == Len(frames[t]) > 0 /\ ~frames[t][1].announced

ServiceInv ==
    /\ \A t \in Thread : \A i \in 2..Len(frames[t]) : frames[t][i].announced
    /\ \A t, u \in Thread : InService(t) /\ InService(u) => t = u
    /\ \A x \in Line \cup {2} : x \in isr <=>
          \E t \in Thread : InService(t) /\ x \in {frames[t][1].line, AtMaster(frames[t][1].line)}
    /\ \A t \in Thread : InService(t) /\ frames[t][1].line # 0 => t = running /\ ~enabled

\* The rest of the state; no interrupt before the boot leaves its first lock,
\* and none lets another thread run in the boot.
RestInv ==
    /\ enabled \in BOOLEAN /\ regC \in BOOLEAN
    /\ irr \subseteq Line /\ isr \subseteq Line \cup {2} /\ running \in Thread
    /\ port \in {"empty", "key", "mouse"}
    /\ enabled => Len(boot) <= 3
    /\ boot # << >> => running = BootThread

\* A request that waits, or a handler that has still to run.
Expects(h, l) ==
    \/ l \in irr
    \/ \E t \in Thread :
          /\ InService(t) /\ frames[t][1].line = l
          /\ \A c \in 1..Len(frames[t][1].called) : frames[t][1].called[c] # h

DevicesInv ==
    /\ port = "key" => Expects("keyboard", 1)
    /\ port = "mouse" => Expects("mouse", 12) \/ Expects("keyboard", 1)
    /\ regC => Expects("rtc", 8)

IInv ==
    /\ BootInv /\ LinesInv /\ FramesInv
    /\ ServiceInv /\ RestInv /\ DevicesInv

-----------------------------------------------------------------------------
(* The boot                                                                *)

\* The steps of the boot that set a handler.
LEMMA HandlerFacts ==
    ASSUME NEW h \in Handler
    PROVE  /\ BootOrder(h) \in 2..9 /\ Boot[BootOrder(h)] = h /\ LineOf(h) \in Line
           /\ \A g \in Handler : BootOrder(g) = BootOrder(h) => g = h
  BY DEF Handler, BootOrder, Boot, LineOf, Line

\* Lines 1, 8 and 12 have one handler each.
LEMMA OnlyHandler ==
    ASSUME NEW g \in Handler, NEW h \in {"keyboard", "mouse", "rtc"}, LineOf(g) = LineOf(h)
    PROVE  g = h
  BY DEF Handler, LineOf

\* The step that is taken.
LEMMA BootStepFacts ==
    ASSUME BootInv, boot # << >>
    PROVE  /\ Len(boot) \in 1..10 /\ Len(Tail(boot)) = Len(boot) - 1
           /\ Tail(boot) \in Seq(Step)
           /\ \A k \in 1..(Len(boot) - 1) : Tail(boot)[k] = boot[k + 1]
           /\ Head(boot) = Boot[11 - Len(boot)]
           /\ Head(boot) \in Handler => BootOrder(Head(boot)) = 11 - Len(boot)
           /\ Head(boot) \in Unlocking => Len(boot) <= 4
           /\ Head(boot) = "schedule" <=> Len(boot) = 1
           /\ Head(boot) = "idt" <=> Len(boot) = 10
<1>1. boot \in Seq(Step) /\ Len(boot) \in Nat /\ Len(boot) <= 10
    BY LenProperties DEF BootInv
<1>2. Len(boot) # 0
    BY <1>1
<1>3. PICK n \in 1..10 : Len(boot) = n
    <2>1. ASSUME NEW n \in Nat, n # 0, n <= 10 PROVE n \in 1..10
        BY <2>1
    <2> QED BY <1>1, <1>2, <2>1, Zenon
<1>4. /\ Len(Tail(boot)) = n - 1 /\ Tail(boot) \in Seq(Step)
      /\ \A k \in 1..(n - 1) : Tail(boot)[k] = boot[k + 1]
      /\ Head(boot) = boot[1]
    BY <1>1, <1>3
<1>5. /\ 11 - n \in 1..10 /\ 10 - n + 1 = 11 - n
      /\ (11 - n = 10 <=> n = 1) /\ (11 - n = 1 <=> n = 10) /\ (11 - n >= 7 => n <= 4)
    OBVIOUS
<1>6. Head(boot) = Boot[11 - n]
    <2>1. boot[1] = Boot[10 - n + 1]
        BY <1>3 DEF BootInv
    <2> QED BY <1>4, <1>5, <2>1
<1>7. ASSUME NEW k \in 1..10
      PROVE  /\ Boot[k] \in Handler => BootOrder(Boot[k]) = k
             /\ Boot[k] \in Unlocking => k >= 7
             /\ Boot[k] = "schedule" <=> k = 10
             /\ Boot[k] = "idt" <=> k = 1
    BY DEF Boot, Handler, BootOrder, Unlocking
<1>8. /\ Head(boot) \in Handler => BootOrder(Head(boot)) = 11 - n
      /\ Head(boot) \in Unlocking => n <= 4
      /\ Head(boot) = "schedule" <=> n = 1
      /\ Head(boot) = "idt" <=> n = 10
    BY <1>5, <1>6, <1>7
<1> QED BY <1>3, <1>4, <1>6, <1>8

\* The table has an entry for each line.
LEMMA Vectors == \A l \in Line : 32 + l \in IdtInit
<1> DEFINE Pair == Nat \X Nat
           First(q) == {q[i][1] : i \in 1..Len(q)}
           a == [i \in 1..21 |-> <<i - 1, i - 1>>]
           b == <<<<21, 21>>, <<21, 22>>>>
           c == [i \in 1..9 |-> <<22 + i, 22 + i>>]
           d == <<<<127, 127>>>>
           e == [i \in 1..16 |-> <<31 + i, 31 + i>>]
<1>1. ASSUME NEW q \in Seq(Pair), NEW r \in Seq(Pair)
      PROVE  q \o r \in Seq(Pair) /\ First(q \o r) = First(q) \cup First(r)
    <2> DEFINE w == q \o r
    <2>1. /\ w \in Seq(Pair) /\ Len(w) = Len(q) + Len(r)
          /\ \A k \in 1..(Len(q) + Len(r)) :
                w[k] = IF k <= Len(q) THEN q[k] ELSE r[k - Len(q)]
        BY ConcatProperties
    <2>2. PICK m \in Nat, n \in Nat : Len(q) = m /\ Len(r) = n
        BY LenProperties, Zenon
    <2> HIDE DEF w, Pair
    <2>3. ASSUME NEW k \in 1..(m + n)
          PROVE  \/ k \in 1..m /\ w[k] = q[k]
                 \/ k - m \in 1..n /\ w[k] = r[k - m]
        BY <2>1, <2>2
    <2>4. ASSUME NEW k \in 1..m PROVE k \in 1..(m + n) /\ w[k] = q[k]
        BY <2>1, <2>2
    <2>5. ASSUME NEW k \in 1..n PROVE k + m \in 1..(m + n) /\ w[k + m] = r[k]
        <3>1. k + m \in 1..(m + n) /\ ~(k + m <= m) /\ (k + m) - m = k
            OBVIOUS
        <3> QED BY <2>1, <2>2, <3>1
    <2>6. ASSUME NEW x \in First(w) PROVE x \in First(q) \cup First(r)
        <3>1. PICK k \in 1..(m + n) : x = w[k][1]
            BY <2>1, <2>2
        <3> QED BY <2>2, <2>3, <3>1
    <2>7. ASSUME NEW x \in First(q) PROVE x \in First(w)
        <3>1. PICK k \in 1..m : x = q[k][1]
            BY <2>2
        <3>2. k \in 1..Len(w) /\ x = w[k][1]
            BY <2>1, <2>2, <2>4, <3>1
        <3> QED BY <3>2
    <2>8. ASSUME NEW x \in First(r) PROVE x \in First(w)
        <3>1. PICK k \in 1..n : x = r[k][1]
            BY <2>2
        <3>2. k + m \in 1..Len(w) /\ x = w[k + m][1]
            BY <2>1, <2>2, <2>5, <3>1
        <3> QED BY <3>2
    <2> HIDE DEF First
    <2>9. First(w) = First(q) \cup First(r)
        BY <2>6, <2>7, <2>8
    <2> QED BY <2>1, <2>9 DEF w
<1>2. ASSUME NEW q, NEW m \in Nat, NEW o \in Int, Len(q) = m,
             \A i \in 1..m : q[i][1] = o + i
      PROVE  \A x : x \in First(q) <=> x \in (o + 1)..(o + m)
    <2>1. ASSUME NEW x \in First(q) PROVE x \in (o + 1)..(o + m)
        <3>1. PICK i \in 1..m : x = q[i][1]
            BY <1>2
        <3>2. x = o + i
            BY <1>2, <3>1
        <3> QED BY <3>2
    <2>2. ASSUME NEW x \in (o + 1)..(o + m) PROVE x \in First(q)
        <3>1. x - o \in 1..m /\ x = o + (x - o)
            OBVIOUS
        <3>2. q[x - o][1] = x
            BY <1>2, <3>1
        <3> QED BY <1>2, <3>1, <3>2
    <2> QED BY <2>1, <2>2
<1>3. a \in Seq(Pair)
    BY IsASeq
<1>4. b \in Seq(Pair)
    OBVIOUS
<1>5. c \in Seq(Pair)
    BY IsASeq
<1>6. d \in Seq(Pair)
    OBVIOUS
<1>7. e \in Seq(Pair) /\ \A x : x \in First(e) <=> x \in 32..47
    <2>1. e \in Seq(Pair) /\ Len(e) = 16
        BY IsASeq
    <2>2. \A i \in 1..16 : e[i][1] = 31 + i
        OBVIOUS
    <2> HIDE DEF e, First
    <2>3. 31 + 1 = 32 /\ 31 + 16 = 47 /\ 31 \in Int /\ 16 \in Nat
        OBVIOUS
    <2>4. \A x : x \in First(e) <=> x \in (31 + 1)..(31 + 16)
        BY <1>2, <2>1, <2>2, <2>3, Zenon
    <2> QED BY <2>1, <2>3, <2>4
<1>8. IdtEntries = a \o b \o c \o d \o e \o d
    BY DEF IdtEntries
<1> HIDE DEF a, b, c, d, e, First, Pair
<1>9. a \o b \in Seq(Pair) /\ First(a \o b) = First(a) \cup First(b)
    BY <1>1, <1>3, <1>4
<1>10. a \o b \o c \in Seq(Pair) /\ First(a \o b \o c) = First(a \o b) \cup First(c)
    BY <1>1, <1>5, <1>9
<1>11. /\ a \o b \o c \o d \in Seq(Pair)
       /\ First(a \o b \o c \o d) = First(a \o b \o c) \cup First(d)
    BY <1>1, <1>6, <1>10
<1>12. /\ a \o b \o c \o d \o e \in Seq(Pair)
       /\ First(a \o b \o c \o d \o e) = First(a \o b \o c \o d) \cup First(e)
    BY <1>1, <1>7, <1>11
<1>13. /\ IdtEntries \in Seq(Pair)
       /\ First(IdtEntries) = First(a \o b \o c \o d \o e) \cup First(d)
    BY <1>1, <1>6, <1>8, <1>12
<1>14. IdtInit = First(IdtEntries)
    <2>1. DOMAIN IdtEntries = 1..Len(IdtEntries)
        BY <1>13
    <2> QED BY <2>1, Zenon DEF IdtInit, First
<1>15. ASSUME NEW x \in 32..47 PROVE x \in IdtInit
    <2>1. x \in First(e)
        BY <1>7, Zenon
    <2> QED BY <1>12, <1>13, <1>14, <2>1, Zenon
<1> QED BY <1>15 DEF Line

-----------------------------------------------------------------------------
(* The invariant is inductive.                                             *)

\* The boot begins with no interrupt on any stack and an empty table.
LEMMA InitIInv == Init => IInv
<1> SUFFICES ASSUME Init PROVE IInv
    OBVIOUS
<1>1. /\ boot = Boot /\ installed = {} /\ irq = [l \in Line |-> << >>]
      /\ enabled = FALSE /\ irr = {} /\ isr = {} /\ running = BootThread
      /\ frames = [t \in Thread |-> << >>] /\ port = "empty" /\ regC = FALSE
    BY DEF Init
<1>2. Boot \in Seq(Step) /\ Len(Boot) = 10
    BY DEF Boot, Handler, Step, Unlocking
<1>3. BootInv
    <2>1. \A k \in 1..10 : 10 - 10 + k = k
        OBVIOUS
    <2> QED BY <1>1, <1>2, <2>1 DEF BootInv
<1>4. ASSUME NEW h \in Handler PROVE ~Behind(h, Len(boot))
    <2>1. BootOrder(h) \in 2..9
        BY HandlerFacts
    <2> QED BY <1>1, <1>2, <2>1 DEF Behind
<1>5. LinesInv
    <2>1. \A l \in Line : irq[l] = << >> /\ Len(irq[l]) = 0
        BY <1>1
    <2>2. irq \in [Line -> Seq(Handler)]
        BY <1>1
    <2>3. {"keyboard", "mouse", "rtc"} \subseteq Handler
        BY DEF Handler
    <2> QED BY <1>4, <2>1, <2>2, <2>3, InterruptsAssumption DEF LinesInv
<1>6. \A t \in Thread : frames[t] = << >> /\ Len(frames[t]) = 0
    BY <1>1
<1>7. FramesInv
    <2>1. frames \in [Thread -> Seq(Frame)]
        BY <1>1
    <2> QED BY <1>6, <2>1, InterruptsAssumption DEF FramesInv
<1>8. \A t \in Thread : ~InService(t)
    BY <1>6 DEF InService
<1>9. ServiceInv
    BY <1>1, <1>6, <1>8 DEF ServiceInv
<1>10. RestInv /\ DevicesInv
    BY <1>1, InterruptsAssumption DEF RestInv, DevicesInv
<1> QED BY <1>3, <1>5, <1>7, <1>9, <1>10 DEF IInv

\* A step of the boot is taken while no interrupt is on any stack.
LEMMA BootStepIsAlone ==
    ASSUME IInv, BootStep
    PROVE  /\ running = BootThread /\ isr = {}
           /\ \A t \in Thread : frames[t] = << >> /\ Len(frames[t]) = 0 /\ ~InService(t)
<1>1. boot # << >> /\ frames[running] = << >>
    BY DEF BootStep
<1>2. running = BootThread
    BY <1>1 DEF IInv, RestInv
<1>3. ASSUME NEW t \in Thread PROVE frames[t] = << >> /\ Len(frames[t]) = 0
    <2>1. frames[t] \in Seq(Frame) /\ (Len(frames[t]) > 0 => t = BootThread)
        BY <1>1 DEF IInv, FramesInv
    <2> QED BY <1>1, <1>2, <2>1
<1>4. \A t \in Thread : ~InService(t)
    BY <1>3 DEF InService
<1>5. \A x \in Line \cup {2} : x \notin isr
    BY <1>4 DEF IInv, ServiceInv
<1>6. isr \subseteq Line \cup {2}
    BY DEF IInv, RestInv
<1> QED BY <1>2, <1>3, <1>4, <1>5, <1>6

\* irq_handler_set appends a handler to its line, which no interrupt uses just now.
LEMMA BootStepLines ==
    ASSUME IInv, BootStep
    PROVE  BootInv' /\ LinesInv'
<1> DEFINE h == Head(boot)
<1>1. /\ boot # << >> /\ boot' = Tail(boot)
      /\ installed' = IF h = "idt" THEN IdtInit ELSE installed
      /\ irq' = IF h \in Handler THEN [irq EXCEPT ![LineOf(h)] = HandlerSet(@, h)] ELSE irq
    BY DEF BootStep
<1>2. PICK n \in 1..10 : Len(boot) = n
    BY <1>1, BootStepFacts, Zenon DEF IInv
<1>a. /\ Len(boot') = n - 1
      /\ boot' \in Seq(Step)
      /\ \A k \in 1..(n - 1) : boot'[k] = boot[k + 1]
      /\ h = Boot[11 - n]
      /\ h \in Handler => BootOrder(h) = 11 - n
      /\ h = "idt" <=> n = 10
    BY <1>1, <1>2, BootStepFacts DEF IInv
<1>3. BootInv'
    <2>1. ASSUME NEW k \in 1..(n - 1) PROVE boot'[k] = Boot[10 - (n - 1) + k]
        <3>1. k + 1 \in 1..n /\ 10 - n + (k + 1) = 10 - (n - 1) + k
            OBVIOUS
        <3>2. boot[k + 1] = Boot[10 - n + (k + 1)]
            BY <1>2, <3>1 DEF IInv, BootInv
        <3> QED BY <1>a, <3>1, <3>2
    <2>2. installed' = IF n - 1 = 10 THEN {} ELSE IdtInit
        <3>1. n - 1 # 10
            OBVIOUS
        <3>2. installed = IF n = 10 THEN {} ELSE IdtInit
            BY <1>2 DEF IInv, BootInv
        <3> QED BY <1>1, <1>a, <3>1, <3>2
    <2>3. n - 1 <= 10
        OBVIOUS
    <2> HIDE DEF h
    <2> QED BY <1>a, <2>1, <2>2, <2>3 DEF BootInv
<1>4. ASSUME NEW g \in Handler
      PROVE  /\ Behind(g, n - 1) <=> Behind(g, n) \/ g = h
             /\ Behind(g, n) => g # h
    <2>1. BootOrder(g) \in 2..9
        BY HandlerFacts
    <2>2. BootOrder(g) + (n - 1) <= 10 <=> BootOrder(g) + n <= 10 \/ BootOrder(g) = 11 - n
        BY <2>1
    <2>3. BootOrder(g) = 11 - n => g = h
        BY <1>a, HandlerFacts
    <2>4. g = h => BootOrder(g) = 11 - n /\ ~(BootOrder(g) + n <= 10)
        BY <1>a, <2>1
    <2> QED BY <2>2, <2>3, <2>4 DEF Behind
<1>5. /\ irq \in [Line -> Seq(Handler)] /\ {"keyboard", "mouse", "rtc"} \subseteq Handler
      /\ \A l \in Line :
            /\ Len(irq[l]) <= Depth /\ Len(irq[l]) \in Nat
            /\ \A j \in 1..Len(irq[l]) :
                  irq[l][j] \in Handler /\ LineOf(irq[l][j]) = l /\ Behind(irq[l][j], n)
            /\ \A i, j \in 1..Len(irq[l]) : irq[l][i] = irq[l][j] => i = j
    <2>1. irq \in [Line -> Seq(Handler)]
        BY DEF IInv, LinesInv
    <2>2. ASSUME NEW l \in Line
          PROVE  /\ Len(irq[l]) <= Depth
                 /\ \A j \in 1..Len(irq[l]) : LineOf(irq[l][j]) = l /\ Behind(irq[l][j], n)
                 /\ \A i, j \in 1..Len(irq[l]) : irq[l][i] = irq[l][j] => i = j
        BY <1>2 DEF IInv, LinesInv
    <2>3. ASSUME NEW l \in Line
          PROVE  Len(irq[l]) \in Nat /\ \A j \in 1..Len(irq[l]) : irq[l][j] \in Handler
        <3>1. irq[l] \in Seq(Handler)
            BY <2>1
        <3> QED BY <3>1
    <2>4. {"keyboard", "mouse", "rtc"} \subseteq Handler
        BY DEF Handler
    <2> QED BY <2>1, <2>2, <2>3, <2>4
<1>6. \A g \in {"keyboard", "mouse", "rtc"} : Behind(g, n) => irq[LineOf(g)] = <<g>>
    BY <1>2 DEF IInv, LinesInv
<1> HIDE DEF h
<1>7. CASE h \notin Handler
    <2>1. irq' = irq
        BY <1>1, <1>7
    <2>2. \A g \in Handler : Behind(g, n - 1) <=> Behind(g, n)
        BY <1>4, <1>7
    <2>3. ASSUME NEW l \in Line, NEW j \in 1..Len(irq[l]) PROVE Behind(irq[l][j], n - 1)
        BY <1>5, <2>2
    <2> QED BY <1>3, <1>5, <1>6, <1>a, <2>1, <2>2, <2>3 DEF LinesInv
<1>8. CASE h \in Handler
    <2> DEFINE m == LineOf(h)
    <2>1. /\ m \in Line /\ irq' = [irq EXCEPT ![m] = HandlerSet(irq[m], h)]
        BY <1>1, <1>8, HandlerFacts
    <2> HIDE DEF m
    <2>2. ASSUME NEW l \in Line
          PROVE  \/ irq'[l] = irq[l]
                 \/ /\ l = m /\ Len(irq[l]) < Depth
                    /\ irq'[l] = Append(irq[l], h)
        BY <1>5, <2>1 DEF HandlerSet
    <2>3. ASSUME NEW l \in Line
          PROVE  /\ irq'[l] \in Seq(Handler) /\ Len(irq'[l]) <= Depth
                 /\ \A j \in 1..Len(irq'[l]) : LineOf(irq'[l][j]) = l /\ Behind(irq'[l][j], n - 1)
                 /\ \A i, j \in 1..Len(irq'[l]) : irq'[l][i] = irq'[l][j] => i = j
        <3>1. irq[l] \in Seq(Handler) /\ Len(irq[l]) \in Nat
            BY <1>5
        <3>2. ASSUME NEW j \in 1..Len(irq[l])
              PROVE  /\ irq[l][j] \in Handler /\ LineOf(irq[l][j]) = l
                     /\ Behind(irq[l][j], n - 1) /\ irq[l][j] # h
            BY <1>4, <1>5
        <3>3. CASE irq'[l] = irq[l]
            BY <1>5, <3>1, <3>2, <3>3
        <3>4. CASE l = m /\ Len(irq[l]) < Depth /\ irq'[l] = Append(irq[l], h)
            <4> DEFINE q == irq[l]
                       r == irq'[l]
            <4>1. /\ r \in Seq(Handler) /\ Len(r) = Len(q) + 1
                  /\ \A j \in 1..Len(q) : r[j] = q[j]
                  /\ r[Len(q) + 1] = h
                BY <1>8, <3>1, <3>4
            <4>2. Len(r) <= Depth
                BY <3>1, <3>4, <4>1, InterruptsAssumption
            <4>3. LineOf(h) = l /\ Behind(h, n - 1)
                BY <1>4, <1>8, <3>4 DEF m
            <4> HIDE DEF r
            <4>4. ASSUME NEW j \in 1..Len(r)
                  PROVE  j \in 1..Len(q) \/ j = Len(q) + 1
                BY <3>1, <4>1
            <4>5. ASSUME NEW j \in 1..Len(r) PROVE LineOf(r[j]) = l /\ Behind(r[j], n - 1)
                <5>1. CASE j \in 1..Len(q)
                    BY <3>2, <4>1, <5>1
                <5>2. CASE j = Len(q) + 1
                    BY <4>1, <4>3, <5>2
                <5> QED BY <4>4, <5>1, <5>2
            <4>6. ASSUME NEW i \in 1..Len(r), NEW j \in 1..Len(r), r[i] = r[j] PROVE i = j
                <5>1. CASE i \in 1..Len(q) /\ j \in 1..Len(q)
                    BY <1>5, <4>1, <4>6, <5>1
                <5>2. CASE i \in 1..Len(q) /\ j = Len(q) + 1
                    BY <3>2, <4>1, <4>6, <5>2
                <5>3. CASE i = Len(q) + 1 /\ j \in 1..Len(q)
                    BY <3>2, <4>1, <4>6, <5>3
                <5> QED BY <4>4, <5>1, <5>2, <5>3
            <4> HIDE DEF q
            <4>7. /\ r \in Seq(Handler) /\ Len(r) <= Depth
                  /\ \A j \in 1..Len(r) : LineOf(r[j]) = l /\ Behind(r[j], n - 1)
                  /\ \A i, j \in 1..Len(r) : r[i] = r[j] => i = j
                BY <4>1, <4>2, <4>5, <4>6
            <4> QED BY <4>7 DEF r
        <3> QED BY <2>2, <3>3, <3>4
    <2>4. ASSUME NEW g \in {"keyboard", "mouse", "rtc"}, Behind(g, n - 1)
          PROVE  irq'[LineOf(g)] = <<g>>
        <3>1. g \in Handler /\ LineOf(g) \in Line
            BY <1>5, HandlerFacts
        <3>2. CASE Behind(g, n)
            <4>1. irq[LineOf(g)] = <<g>> /\ g # h
                BY <1>4, <1>6, <3>1, <3>2
            <4>2. LineOf(g) # m
                BY <1>8, <4>1, OnlyHandler DEF m
            <4> QED BY <2>2, <3>1, <4>1, <4>2
        <3>3. CASE ~Behind(g, n)
            <4>1. g = h
                BY <1>4, <2>4, <3>1, <3>3
            <4>2. irq[m] \in Seq(Handler) /\ Len(irq[m]) \in Nat
                BY <1>5, <2>1
            <4>3. Len(irq[m]) = 0
                <5> SUFFICES ASSUME Len(irq[m]) # 0 PROVE FALSE
                    OBVIOUS
                <5>1. 1 \in 1..Len(irq[m])
                    BY <4>2
                <5>2. irq[m][1] \in Handler /\ LineOf(irq[m][1]) = m /\ Behind(irq[m][1], n)
                    BY <1>5, <2>1, <5>1
                <5>3. irq[m][1] = g
                    BY <4>1, <5>2, OnlyHandler DEF m
                <5> QED BY <3>3, <5>2, <5>3
            <4>4. irq[m] = << >>
                BY <4>2, <4>3
            <4>5. irq'[m] = Append(irq[m], h)
                BY <1>5, <2>1, <4>3, InterruptsAssumption DEF HandlerSet
            <4> QED BY <4>1, <4>4, <4>5 DEF m
        <3> QED BY <3>2, <3>3
    <2>5. irq' \in [Line -> Seq(Handler)]
        <3>1. irq' = [l \in Line |-> irq'[l]]
            BY <1>5, <2>1
        <3> QED BY <2>3, <3>1
    <2> QED BY <1>3, <1>a, <2>3, <2>4, <2>5 DEF LinesInv
<1> QED BY <1>3, <1>7, <1>8

\* idt_init, the handlers that the boot sets, and the locks it leaves.
LEMMA BootStepKeeps ==
    ASSUME IInv, BootStep
    PROVE  IInv'
<1>1. boot # << >> /\ boot' = Tail(boot) /\ frames' = frames /\ isr' = isr /\ regC' = regC
    BY DEF BootStep
<1>2. BootInv' /\ LinesInv'
    BY BootStepLines
<1>3. /\ running = BootThread /\ isr = {}
      /\ \A t \in Thread : frames[t] = << >> /\ Len(frames[t]) = 0 /\ ~InService(t)
    BY BootStepIsAlone
<1>4. frames \in [Thread -> Seq(Frame)]
    BY DEF IInv, FramesInv
<1>5. FramesInv'
    <2>1. \A t \in Thread : Len(frames'[t]) = 0
        BY <1>1, <1>3
    <2> QED BY <1>1, <1>4, <2>1, InterruptsAssumption DEF FramesInv
<1>6. ServiceInv'
    <2>1. \A t \in Thread : Len(frames'[t]) = 0 /\ ~InService(t)'
        BY <1>1, <1>3 DEF InService
    <2> QED BY <1>1, <1>3, <2>1 DEF ServiceInv
<1>7. /\ irr' \subseteq Line /\ irr \subseteq irr'
      /\ \/ port' = port
         \/ port' \in {"empty", "key", "mouse"} /\ {1, 12} \subseteq irr'
    <2>1. irr \subseteq Line /\ {1, 12} \subseteq Line
        BY DEF IInv, RestInv, Line
    <2>2. \/ irr' = irr /\ port' = port
          \/ irr' = irr \cup {1, 12} /\ port' \in {"empty", "key", "mouse"}
        BY DEF BootStep
    <2> QED BY <2>1, <2>2
<1>8. /\ Len(boot) \in 1..10 /\ Len(boot') = Len(boot) - 1
      /\ boot' \in Seq(Step)
      /\ Head(boot) \in Unlocking => Len(boot) <= 4
      /\ Head(boot) = "schedule" <=> Len(boot) = 1
    BY <1>1, BootStepFacts DEF IInv
<1>9. RestInv'
    <2>1. enabled' => Len(boot') <= 3
        <3> SUFFICES ASSUME enabled' PROVE Len(boot') <= 3
            OBVIOUS
        <3>1. enabled \/ Head(boot) \in Unlocking
            BY DEF BootStep
        <3>2. enabled => Len(boot) <= 3
            BY DEF IInv, RestInv
        <3>3. Len(boot) <= 4
            BY <1>8, <3>1, <3>2
        <3> QED BY <1>8, <3>3
    <2>2. running' \in Thread /\ (boot' # << >> => running' = BootThread)
        <3>1. CASE Head(boot) = "schedule"
            <4>1. running' \in Thread
                BY <3>1 DEF BootStep, Scheduled
            <4>2. boot' = << >>
                BY <1>8, <3>1
            <4> QED BY <4>1, <4>2
        <3>2. CASE Head(boot) # "schedule"
            <4>1. running' = running
                BY <3>2 DEF BootStep
            <4> QED BY <1>3, <4>1, InterruptsAssumption
        <3> QED BY <3>1, <3>2
    <2>3. enabled' \in BOOLEAN
        BY DEF BootStep
    <2>4. port' \in {"empty", "key", "mouse"}
        BY <1>7 DEF IInv, RestInv
    <2> QED BY <1>1, <1>7, <2>1, <2>2, <2>3, <2>4 DEF IInv, RestInv
<1>10. DevicesInv'
    <2>1. \A h : \A l : Expects(h, l) => l \in irr
        BY <1>3 DEF Expects
    <2>2. \A h : \A l : l \in irr' => Expects(h, l)'
        BY DEF Expects
    <2>3. /\ port = "key" => 1 \in irr
          /\ port = "mouse" => 12 \in irr \/ 1 \in irr
          /\ regC => 8 \in irr
        BY <2>1 DEF IInv, DevicesInv
    <2>4. /\ port' = "key" => 1 \in irr'
          /\ port' = "mouse" => 12 \in irr' \/ 1 \in irr'
          /\ regC' => 8 \in irr'
        BY <1>1, <1>7, <2>3
    <2> QED BY <2>2, <2>4 DEF DevicesInv
<1> QED BY <1>2, <1>5, <1>6, <1>9, <1>10 DEF IInv

\* A step of a device asks for a line, and for nothing else at the processor.
LEMMA DeviceKeeps ==
    ASSUME IInv, UNCHANGED Device,
           irr \subseteq irr', irr' \subseteq Line,
           regC' \in BOOLEAN, port' \in {"empty", "key", "mouse"},
           port' # port => \/ port' = "key" /\ 1 \in irr'
                           \/ port' = "mouse" /\ 12 \in irr',
           regC' # regC => 8 \in irr'
    PROVE  IInv'
<1>1. /\ boot' = boot /\ installed' = installed /\ irq' = irq /\ enabled' = enabled
      /\ isr' = isr /\ running' = running /\ frames' = frames
    BY DEF Device, cpu
<1>2. BootInv' /\ LinesInv' /\ FramesInv' /\ ServiceInv'
    <2>1. BootInv'
        BY <1>1 DEF IInv, BootInv
    <2>2. LinesInv'
        BY <1>1 DEF IInv, LinesInv
    <2>3. FramesInv'
        BY <1>1 DEF IInv, FramesInv
    <2>4. ServiceInv'
        BY <1>1 DEF IInv, ServiceInv, InService
    <2> QED BY <2>1, <2>2, <2>3, <2>4
<1>3. RestInv'
    BY <1>1 DEF IInv, RestInv
<1>4. \A h : \A l : Expects(h, l) => Expects(h, l)'
    BY <1>1 DEF Expects, InService
<1>5. \A h : \A l : l \in irr' => Expects(h, l)'
    BY DEF Expects
<1>6. DevicesInv'
    <2>1. port' = "key" => Expects("keyboard", 1)'
        BY <1>4, <1>5 DEF IInv, DevicesInv
    <2>2. port' = "mouse" => Expects("mouse", 12)' \/ Expects("keyboard", 1)'
        BY <1>4, <1>5 DEF IInv, DevicesInv
    <2>3. regC' => Expects("rtc", 8)'
        BY <1>4, <1>5 DEF IInv, DevicesInv, RestInv
    <2> QED BY <2>1, <2>2, <2>3 DEF DevicesInv
<1> QED BY <1>2, <1>3, <1>6 DEF IInv

\* The clock, the timer, the keyboard and the mouse only ask.
LEMMA DevicesKeep ==
    ASSUME IInv, PitTick \/ Byte("key", 1) \/ Byte("mouse", 12) \/ RtcTick \/ IdeDone
    PROVE  IInv'
<1>1. irr \subseteq Line /\ regC \in BOOLEAN /\ port \in {"empty", "key", "mouse"}
    BY DEF IInv, RestInv
<1>2. {0, 1, 8, 12, 14} \subseteq Line
    BY DEF Line
<1>3. CASE PitTick
    BY <1>1, <1>2, <1>3, DeviceKeeps DEF PitTick
<1>4. CASE Byte("key", 1)
    BY <1>1, <1>2, <1>4, DeviceKeeps DEF Byte
<1>5. CASE Byte("mouse", 12)
    BY <1>1, <1>2, <1>5, DeviceKeeps DEF Byte
<1>6. CASE RtcTick
    BY <1>1, <1>2, <1>6, DeviceKeeps DEF RtcTick
<1>7. CASE IdeDone
    BY <1>1, <1>2, <1>7, DeviceKeeps DEF IdeDone
<1> QED BY <1>3, <1>4, <1>5, <1>6, <1>7

\* What one knows of an interrupt on a stack.
LEMMA FrameFacts ==
    ASSUME IInv, NEW t \in Thread
    PROVE  /\ frames[t] \in Seq(Frame) /\ Len(frames[t]) \in Nat /\ Len(frames[t]) <= MaxNested
           /\ \A i \in 1..Len(frames[t]) :
                 /\ frames[t][i] \in Frame
                 /\ frames[t][i].line \in Line /\ frames[t][i].next \in Nat \ {0}
                 /\ frames[t][i].called \in Seq(Handler) /\ frames[t][i].announced \in BOOLEAN
                 /\ irq[frames[t][i].line] \in Seq(Handler)
                 /\ Len(irq[frames[t][i].line]) \in Nat /\ Len(irq[frames[t][i].line]) <= Depth
<1>1. frames[t] \in Seq(Frame) /\ Len(frames[t]) <= MaxNested
    BY DEF IInv, FramesInv
<1>2. Len(frames[t]) \in Nat
    BY <1>1
<1>3. ASSUME NEW i \in 1..Len(frames[t])
      PROVE  /\ frames[t][i] \in Frame
             /\ frames[t][i].line \in Line /\ frames[t][i].next \in Nat \ {0}
             /\ frames[t][i].called \in Seq(Handler) /\ frames[t][i].announced \in BOOLEAN
    <2>1. frames[t][i] \in Frame
        BY <1>1
    <2> QED BY <2>1 DEF Frame
<1>4. \A l \in Line : irq[l] \in Seq(Handler) /\ Len(irq[l]) \in Nat /\ Len(irq[l]) <= Depth
    BY DEF IInv, LinesInv
<1> QED BY <1>1, <1>2, <1>3, <1>4

\* The 8259s offer a line only while none is in service.
LEMMA AcceptIsAlone ==
    ASSUME IInv, NEW l \in Line, Accept(l)
    PROVE  isr = {} /\ \A t \in Thread : ~InService(t)
<1>1. enabled /\ Offered(l)
    BY DEF Accept
<1>2. ASSUME NEW t \in Thread, InService(t) PROVE FALSE
    <2>1. frames[t][1].line = 0
        BY <1>1, <1>2 DEF IInv, ServiceInv
    <2>2. 0 \in isr
        BY <1>2, <2>1 DEF IInv, ServiceInv, Line
    <2>3. AtMaster(l) < 0
        BY <1>1, <2>2 DEF Offered
    <2>4. AtMaster(l) \in {0, 1, 2}
        BY DEF AtMaster, Line
    <2> QED BY <2>3, <2>4
<1>3. \A x \in Line \cup {2} : x \notin isr
    BY <1>2 DEF IInv, ServiceInv
<1>4. isr \subseteq Line \cup {2}
    BY DEF IInv, RestInv
<1> QED BY <1>2, <1>3, <1>4

\* irq_common pushes the line that the 8259s deliver, in service alone.
LEMMA AcceptKeeps ==
    ASSUME IInv, NEW l \in Line, Accept(l)
    PROVE  IInv'
<1> DEFINE f == [line |-> l, next |-> 1, called |-> << >>, announced |-> FALSE]
           s == frames[running]
<1>1. /\ enabled /\ l \in irr /\ Len(s) < MaxNested
      /\ irr' = irr \ {l} /\ isr' = isr \cup {l, AtMaster(l)} /\ enabled' = FALSE
      /\ frames' = [frames EXCEPT ![running] = <<f>> \o s]
      /\ boot' = boot /\ installed' = installed /\ irq' = irq
      /\ running' = running /\ port' = port /\ regC' = regC
    BY DEF Accept, Offered, cpu
<1>2. /\ running \in Thread /\ Len(boot) <= 3 /\ irr \subseteq Line
      /\ boot # << >> => running = BootThread
      /\ port \in {"empty", "key", "mouse"} /\ regC \in BOOLEAN
    BY <1>1 DEF IInv, RestInv
<1>3. isr = {} /\ \A t \in Thread : ~InService(t)
    BY AcceptIsAlone
<1>4. frames \in [Thread -> Seq(Frame)]
    BY DEF IInv, FramesInv
<1>5. /\ f \in Frame /\ f.line = l /\ f.next = 1 /\ f.called = << >> /\ f.announced = FALSE
    BY DEF Frame
<1> HIDE DEF f
<1>6. s \in Seq(Frame) /\ Len(s) \in Nat
    BY <1>2, <1>4
<1>7. /\ frames'[running] \in Seq(Frame) /\ Len(frames'[running]) = Len(s) + 1
      /\ frames'[running][1] = f
      /\ \A i \in 2..(Len(s) + 1) : i - 1 \in 1..Len(s) /\ frames'[running][i] = s[i - 1]
      /\ \A t \in Thread : t # running => frames'[t] = frames[t]
    <2> DEFINE r == <<f>> \o s
    <2>1. <<f>> \in Seq(Frame) /\ Len(<<f>>) = 1 /\ <<f>>[1] = f
        BY <1>5
    <2>2. /\ r \in Seq(Frame) /\ Len(r) = 1 + Len(s)
          /\ \A i \in 1..(1 + Len(s)) : r[i] = IF i <= 1 THEN <<f>>[i] ELSE s[i - 1]
        BY <1>6, <2>1, ConcatProperties
    <2>3. frames'[running] = r /\ \A t \in Thread : t # running => frames'[t] = frames[t]
        BY <1>1, <1>2, <1>4
    <2> HIDE DEF r, s
    <2>4. r[1] = f
        BY <1>6, <2>1, <2>2
    <2>5. \A i \in 2..(Len(s) + 1) : i - 1 \in 1..Len(s) /\ r[i] = s[i - 1]
        BY <1>6, <2>2
    <2> QED BY <1>6, <2>2, <2>3, <2>4, <2>5
<1>8. BootInv' /\ LinesInv'
    BY <1>1 DEF IInv, BootInv, LinesInv
<1>9. FramesInv'
    <2>1. frames' \in [Thread -> Seq(Frame)]
        <3>1. \A t \in Thread : frames'[t] \in Seq(Frame)
            BY <1>4, <1>7
        <3>2. frames' = [t \in Thread |-> frames'[t]]
            BY <1>1, <1>4
        <3> QED BY <3>1, <3>2
    <2>2. \A t \in Thread : \A i \in 1..Len(frames[t]) : InTurn(frames[t][i], irq)
        BY DEF IInv, FramesInv
    <2>3. InTurn(f, irq)
        <3>1. Len(irq[l]) \in Nat
            BY DEF IInv, LinesInv
        <3> QED BY <1>5, <3>1 DEF InTurn
    <2>4. ASSUME NEW t \in Thread, NEW i \in 1..Len(frames'[t]) PROVE InTurn(frames'[t][i], irq)
        <3>1. CASE t # running
            BY <1>7, <2>2, <3>1
        <3>2. CASE t = running
            <4>1. i = 1 \/ i \in 2..(Len(s) + 1)
                BY <1>6, <1>7, <3>2
            <4> QED BY <1>2, <1>7, <2>2, <2>3, <3>2, <4>1
        <3> QED BY <3>1, <3>2
    <2>5. ASSUME NEW t \in Thread PROVE Len(frames'[t]) <= MaxNested
        <3>1. Len(frames[t]) <= MaxNested
            BY DEF IInv, FramesInv
        <3>2. Len(s) + 1 <= MaxNested
            BY <1>1, <1>6, InterruptsAssumption
        <3> QED BY <1>7, <3>1, <3>2
    <2>6. \A t \in Thread :
             Len(frames'[t]) > 0 => Len(boot') <= 3 /\ (boot' = << >> \/ t = BootThread)
        BY <1>1, <1>2, <1>7 DEF IInv, FramesInv
    <2> QED BY <1>1, <2>1, <2>4, <2>5, <2>6 DEF FramesInv
<1>10. ASSUME NEW t \in Thread PROVE InService(t)' <=> t = running
    <2>1. CASE t = running
        <3>1. Len(frames'[t]) > 0
            BY <1>6, <1>7, <2>1
        <3> QED BY <1>5, <1>7, <2>1, <3>1 DEF InService
    <2>2. CASE t # running
        BY <1>3, <1>7, <2>2 DEF InService
    <2> QED BY <2>1, <2>2
<1>11. ServiceInv'
    <2>1. ASSUME NEW t \in Thread, NEW i \in 2..Len(frames'[t]) PROVE frames'[t][i].announced
        <3>1. CASE t # running
            BY <1>7, <3>1 DEF IInv, ServiceInv
        <3>2. CASE t = running
            <4>1. i - 1 \in 1..Len(s) /\ frames'[t][i] = s[i - 1]
                BY <1>7, <3>2
            <4>2. i - 1 = 1 \/ i - 1 \in 2..Len(s)
                BY <1>6, <4>1
            <4>3. CASE i - 1 = 1
                <5>1. Len(s) > 0
                    BY <1>6, <4>1
                <5> QED BY <1>2, <1>3, <4>1, <4>3, <5>1 DEF InService
            <4>4. CASE i - 1 \in 2..Len(s)
                BY <1>2, <4>1, <4>4 DEF IInv, ServiceInv
            <4> QED BY <4>2, <4>3, <4>4
        <3> QED BY <3>1, <3>2
    <2>2. \A x \in Line \cup {2} : x \in isr' <=>
             \E t \in Thread : /\ InService(t)'
                               /\ x \in {frames'[t][1].line, AtMaster(frames'[t][1].line)}
        BY <1>1, <1>2, <1>3, <1>5, <1>7, <1>10
    <2> QED BY <1>1, <1>10, <2>1, <2>2 DEF ServiceInv
<1>12. RestInv'
    <2>1. {l, AtMaster(l)} \subseteq Line \cup {2}
        BY DEF AtMaster, Line
    <2> QED BY <1>1, <1>2, <1>3, <2>1 DEF RestInv
<1>13. ASSUME NEW h, NEW m, Expects(h, m) PROVE Expects(h, m)'
    <2>1. m \in irr
        BY <1>3, <1>13 DEF Expects
    <2>2. CASE m # l
        BY <1>1, <2>1, <2>2 DEF Expects
    <2>3. CASE m = l
        <3>1. Len(frames'[running][1].called) = 0 /\ frames'[running][1].line = l
            BY <1>5, <1>7
        <3> QED BY <1>2, <1>10, <2>3, <3>1 DEF Expects
    <2> QED BY <2>2, <2>3
<1>14. DevicesInv'
    BY <1>1, <1>13 DEF IInv, DevicesInv
<1> QED BY <1>8, <1>9, <1>11, <1>12, <1>14 DEF IInv

\* Replacing the innermost interrupt of the running thread.
LEMMA TopFacts ==
    ASSUME IInv, frames[running] # << >>, NEW f \in Frame,
           frames' = [frames EXCEPT ![running] = [@ EXCEPT ![1] = f]]
    PROVE  /\ running \in Thread /\ Len(frames[running]) > 0 /\ Len(boot) <= 3
           /\ frames[running][1] = Top /\ Top \in Frame
           /\ Top.line \in Line /\ Top.next \in Nat \ {0} /\ Top.called \in Seq(Handler)
           /\ frames' \in [Thread -> Seq(Frame)]
           /\ frames'[running][1] = f
           /\ \A t \in Thread : Len(frames'[t]) = Len(frames[t])
           /\ \A t \in Thread : t # running => frames'[t] = frames[t]
           /\ \A t \in Thread : \A i \in 2..Len(frames[t]) : frames'[t][i] = frames[t][i]
<1> DEFINE s == frames[running]
           r == [s EXCEPT ![1] = f]
<1>1. running \in Thread /\ frames \in [Thread -> Seq(Frame)]
    BY DEF IInv, RestInv, FramesInv
<1>2. s \in Seq(Frame) /\ Len(s) \in Nat /\ Len(s) > 0
    <2>1. s \in Seq(Frame)
        BY <1>1
    <2> HIDE DEF s
    <2>2. s # << >>
        BY DEF s
    <2> QED BY <2>1, <2>2
<1>3. Len(boot) <= 3
    BY <1>1, <1>2 DEF IInv, FramesInv
<1>4. s[1] = Top /\ s[1] \in Frame
    BY <1>2 DEF Top
<1>5. frames'[running] = r /\ \A t \in Thread : t # running => frames'[t] = frames[t]
    BY <1>1
<1>6. /\ r \in Seq(Frame) /\ Len(r) = Len(s) /\ r[1] = f
      /\ \A i \in 2..Len(s) : r[i] = s[i]
    <2> HIDE DEF s
    <2>1. 1 \in 1..Len(s)
        BY <1>2
    <2> QED BY <1>2, <2>1, ExceptSeq
<1> HIDE DEF r
<1>7. frames' \in [Thread -> Seq(Frame)]
    <2>1. \A t \in Thread : frames'[t] \in Seq(Frame)
        BY <1>1, <1>5, <1>6
    <2>2. frames' = [t \in Thread |-> frames'[t]]
        BY <1>1
    <2> QED BY <2>1, <2>2
<1>8. Top.line \in Line /\ Top.next \in Nat \ {0} /\ Top.called \in Seq(Handler)
    BY <1>4 DEF Frame
<1> QED BY <1>1, <1>2, <1>3, <1>4, <1>5, <1>6, <1>7, <1>8

\* The interrupt in service is the running thread's innermost.
LEMMA HandlerIsAlone ==
    ASSUME IInv, InHandler
    PROVE  /\ frames[running] # << >> /\ running \in Thread /\ Len(frames[running]) > 0
           /\ frames[running][1] = Top /\ Top \in Frame /\ ~Top.announced
           /\ InTurn(Top, irq)
           /\ \A t \in Thread : InService(t) <=> t = running
<1>1. running \in Thread /\ frames[running] \in Seq(Frame) /\ frames[running] # << >>
    BY DEF IInv, RestInv, FramesInv, InHandler
<1>2. Len(frames[running]) \in Nat /\ Len(frames[running]) > 0
    BY <1>1
<1>3. frames[running][1] = Top /\ Top \in Frame
    BY <1>1, <1>2 DEF Top
<1>4. ~Top.announced
    BY DEF InHandler, Top
<1>5. InService(running)
    BY <1>2, <1>3, <1>4 DEF InService
<1>6. \A t \in Thread : InService(t) <=> t = running
    BY <1>1, <1>5 DEF IInv, ServiceInv
<1>7. InTurn(Top, irq)
    BY <1>1, <1>2, <1>3 DEF IInv, FramesInv
<1> QED BY <1>1, <1>2, <1>3, <1>4, <1>6, <1>7

\* The handler that is called, and the frame when it has returned.
LEMMA HandleFrame ==
    ASSUME IInv, Handle
    PROVE  \E h \in Handler, f \in Frame :
              /\ h = irq[Top.line][Top.next] /\ LineOf(h) = Top.line
              /\ frames' = [frames EXCEPT ![running] = [@ EXCEPT ![1] = f]]
              /\ f.line = Top.line /\ f.announced = Top.announced
              /\ f.called = Append(Top.called, h)
              /\ InTurn(f, irq)
              /\ port' = CASE h = "keyboard" -> KeyboardReads [] h = "mouse" -> MouseReads
                           [] OTHER -> port
              /\ regC' = IF h = "rtc" THEN RtcRead ELSE regC
              /\ IF h = "sched"
                 THEN \/ running # BootThread /\ running' \in Scheduled /\ enabled' = TRUE
                      \/ UNCHANGED <<running, enabled>>
                 ELSE UNCHANGED <<running, enabled>>
<1> DEFINE h == irq[Top.line][Top.next]
           s == frames[running]
           f0 == [s[1] EXCEPT !.next = @ + 1]
           f == [f0 EXCEPT !.called = Append(@, h)]
<1>1. /\ running \in Thread /\ Len(s) > 0 /\ s[1] = Top /\ Top \in Frame /\ ~Top.announced
      /\ InTurn(Top, irq)
    BY HandlerIsAlone DEF Handle
<1>2. /\ Top.line \in Line /\ Top.next \in Nat \ {0} /\ Top.called \in Seq(Handler)
      /\ Top.next <= Len(irq[Top.line]) /\ irq[Top.line] \in Seq(Handler)
    <2>1. Top.line \in Line /\ Top.next \in Nat \ {0} /\ Top.called \in Seq(Handler)
        BY <1>1 DEF Frame
    <2>2. irq[Top.line] \in Seq(Handler)
        BY <2>1 DEF IInv, LinesInv
    <2>3. ~(Top.next > Len(irq[Top.line]))
        BY DEF Handle, Left
    <2> QED BY <2>1, <2>2, <2>3
<1>3. Top.next \in 1..Len(irq[Top.line])
    BY <1>2
<1>4. h \in Handler /\ LineOf(h) = Top.line
    BY <1>2, <1>3 DEF IInv, LinesInv
<1>5. frames \in [Thread -> Seq(Frame)] /\ s \in Seq(Frame)
    BY <1>1 DEF IInv, FramesInv
<1>6. frames' = [frames EXCEPT ![running][1].next = @ + 1, ![running][1].called = Append(@, h)]
    BY DEF Handle
<1>7. frames' = [frames EXCEPT ![running] = [s EXCEPT ![1] = f]]
    <2> DEFINE one == [s EXCEPT ![1] = f0]
               g == [frames EXCEPT ![running] = one]
    <2> HIDE DEF h, f0
    <2>1. g[running] = one /\ one[1] = f0
        BY <1>1, <1>5
    <2>2. frames' = [g EXCEPT ![running] = [g[running] EXCEPT ![1] =
                         [g[running][1] EXCEPT !.called = Append(g[running][1].called, h)]]]
        BY <1>6 DEF f0
    <2>3. frames' = [g EXCEPT ![running] = [one EXCEPT ![1] = f]]
        BY <2>1, <2>2, Zenon
    <2> HIDE DEF f
    <2>4. [one EXCEPT ![1] = f] = [s EXCEPT ![1] = f]
        BY <1>5
    <2> HIDE DEF one
    <2>5. [g EXCEPT ![running] = [one EXCEPT ![1] = f]]
             = [frames EXCEPT ![running] = [one EXCEPT ![1] = f]]
        BY <1>5
    <2> QED BY <2>3, <2>4, <2>5, Zenon
<1> HIDE DEF h, s
<1>8. /\ f \in Frame /\ f.line = Top.line /\ f.announced = Top.announced
      /\ f.next = Top.next + 1 /\ f.called = Append(Top.called, h)
    <2>1. f0 \in Frame /\ f0.line = Top.line /\ f0.announced = Top.announced
          /\ f0.next = Top.next + 1 /\ f0.called = Top.called
        BY <1>1, <1>2 DEF Frame
    <2> HIDE DEF f0
    <2>2. Append(Top.called, h) \in Seq(Handler)
        BY <1>2, <1>4
    <2> QED BY <2>1, <2>2 DEF Frame
<1> HIDE DEF f
<1>9. InTurn(f, irq)
    <2> DEFINE n == Top.next
               q == Top.called
               r == f.called
    <2>1. /\ n \in Nat \ {0} /\ n <= Len(irq[Top.line]) /\ Len(q) = n - 1
          /\ \A j \in 1..(n - 1) : q[j] = irq[Top.line][j]
        BY <1>1, <1>2 DEF InTurn
    <2>2. /\ Len(r) = Len(q) + 1 /\ r[Len(q) + 1] = h
          /\ \A j \in 1..Len(q) : r[j] = q[j]
        BY <1>2, <1>4, <1>8
    <2> HIDE DEF n, q, r
    <2>3. Len(r) = n /\ r[n] = h /\ \A j \in 1..(n - 1) : r[j] = irq[Top.line][j]
        BY <2>1, <2>2
    <2>4. h = irq[Top.line][n]
        BY DEF h, n
    <2>5. \A j \in 1..n : j \in 1..(n - 1) \/ j = n
        BY <2>1
    <2>6. \A j \in 1..n : r[j] = irq[Top.line][j]
        BY <2>3, <2>4, <2>5
    <2>7. Len(irq[Top.line]) \in Nat
        BY <1>2
    <2>8. f.next = n + 1 /\ f.line = Top.line /\ ~f.announced
        BY <1>1, <1>8 DEF n
    <2>9. f.next <= Len(irq[f.line]) + 1 /\ Len(r) = f.next - 1 /\ f.next - 1 = n
        BY <2>1, <2>3, <2>7, <2>8
    <2> QED BY <2>6, <2>8, <2>9 DEF InTurn, r
<1>10. /\ port' = CASE h = "keyboard" -> KeyboardReads [] h = "mouse" -> MouseReads
                    [] OTHER -> port
       /\ regC' = IF h = "rtc" THEN RtcRead ELSE regC
       /\ IF h = "sched"
          THEN \/ running # BootThread /\ running' \in Scheduled /\ enabled' = TRUE
               \/ UNCHANGED <<running, enabled>>
          ELSE UNCHANGED <<running, enabled>>
    BY Zenon DEF Handle, h
<1>11. frames' = [frames EXCEPT ![running] = [@ EXCEPT ![1] = f]]
    BY <1>7 DEF s
<1> QED BY <1>4, <1>8, <1>9, <1>10, <1>11 DEF h

\* With another innermost interrupt of the running thread, all is in turn still.
LEMMA TopInTurn ==
    ASSUME IInv, frames[running] # << >>, NEW f \in Frame, InTurn(f, irq),
           frames' = [frames EXCEPT ![running] = [@ EXCEPT ![1] = f]],
           boot' = boot, irq' = irq
    PROVE  FramesInv'
<1>1. /\ running \in Thread
      /\ frames' \in [Thread -> Seq(Frame)]
      /\ frames'[running][1] = f
      /\ \A t \in Thread : Len(frames'[t]) = Len(frames[t])
      /\ \A t \in Thread : t # running => frames'[t] = frames[t]
      /\ \A t \in Thread : \A i \in 2..Len(frames[t]) : frames'[t][i] = frames[t][i]
    BY TopFacts
<1>2. /\ \A t \in Thread : Len(frames[t]) <= MaxNested
      /\ \A t \in Thread :
             Len(frames[t]) > 0 => Len(boot) <= 3 /\ (boot = << >> \/ t = BootThread)
      /\ \A t \in Thread : \A i \in 1..Len(frames[t]) : InTurn(frames[t][i], irq)
    BY DEF IInv, FramesInv
<1>3. ASSUME NEW t \in Thread, NEW i \in 1..Len(frames'[t]) PROVE InTurn(frames'[t][i], irq)
    <2>1. i \in 1..Len(frames[t]) /\ Len(frames[t]) \in Nat
        BY <1>1, FrameFacts
    <2>2. CASE t = running /\ i = 1
        BY <1>1, <2>2
    <2>3. CASE i # 1
        <3>1. i \in 2..Len(frames[t])
            BY <2>1, <2>3
        <3> QED BY <1>1, <1>2, <2>1, <3>1
    <2>4. CASE t # running
        BY <1>1, <1>2, <2>1, <2>4
    <2> QED BY <2>2, <2>3, <2>4
<1> QED BY <1>1, <1>2, <1>3 DEF FramesInv

\* irq_handler calls the next handler of the line at the top of the stack.
LEMMA HandleKeeps ==
    ASSUME IInv, Handle
    PROVE  IInv'
<1>1. PICK h \in Handler, f \in Frame :
              /\ h = irq[Top.line][Top.next] /\ LineOf(h) = Top.line
              /\ frames' = [frames EXCEPT ![running] = [@ EXCEPT ![1] = f]]
              /\ f.line = Top.line /\ f.announced = Top.announced
              /\ f.called = Append(Top.called, h)
              /\ InTurn(f, irq)
              /\ port' = CASE h = "keyboard" -> KeyboardReads [] h = "mouse" -> MouseReads
                           [] OTHER -> port
              /\ regC' = IF h = "rtc" THEN RtcRead ELSE regC
              /\ IF h = "sched"
                 THEN \/ running # BootThread /\ running' \in Scheduled /\ enabled' = TRUE
                      \/ UNCHANGED <<running, enabled>>
                 ELSE UNCHANGED <<running, enabled>>
    BY HandleFrame
<1>2. /\ boot' = boot /\ installed' = installed /\ irq' = irq /\ irr' = irr /\ isr' = isr
    BY DEF Handle, cpu
<1>3. /\ frames[running] # << >> /\ running \in Thread /\ Len(frames[running]) > 0
      /\ frames[running][1] = Top /\ ~Top.announced
      /\ \A t \in Thread : InService(t) <=> t = running
    BY HandlerIsAlone DEF Handle
<1>4. /\ Top.called \in Seq(Handler)
      /\ frames'[running][1] = f
      /\ \A t \in Thread : Len(frames'[t]) = Len(frames[t])
      /\ \A t \in Thread : t # running => frames'[t] = frames[t]
      /\ \A t \in Thread : \A i \in 2..Len(frames[t]) : frames'[t][i] = frames[t][i]
    BY <1>1, <1>3, TopFacts
<1>5. BootInv' /\ LinesInv' /\ FramesInv'
    BY <1>1, <1>2, <1>3, TopInTurn DEF IInv, BootInv, LinesInv
<1>6. ASSUME NEW t \in Thread
      PROVE  (InService(t)' <=> t = running) /\ (t = running => frames'[t][1].line = Top.line)
    BY <1>1, <1>3, <1>4 DEF InService
<1>7. \/ /\ h = "sched" /\ Top.line = 0 /\ running # BootThread
         /\ running' \in Thread /\ enabled' = TRUE
      \/ running' = running /\ enabled' = enabled
    BY <1>1 DEF LineOf, Scheduled
<1>8. ServiceInv'
    <2>1. \A t \in Thread : \A i \in 2..Len(frames'[t]) : frames'[t][i].announced
        BY <1>4 DEF IInv, ServiceInv
    <2>2. \A x \in Line \cup {2} : x \in isr <=> x \in {Top.line, AtMaster(Top.line)}
        BY <1>3 DEF IInv, ServiceInv
    <2>3. \A x \in Line \cup {2} : x \in isr' <=>
             \E t \in Thread : /\ InService(t)'
                               /\ x \in {frames'[t][1].line, AtMaster(frames'[t][1].line)}
        BY <1>2, <1>3, <1>6, <2>2
    <2>4. ASSUME NEW t \in Thread, InService(t)', frames'[t][1].line # 0
          PROVE  t = running' /\ ~enabled'
        <3>1. t = running /\ Top.line # 0
            BY <1>6, <2>4
        <3>2. running' = running /\ enabled' = enabled
            BY <1>7, <3>1
        <3>3. ~enabled
            BY <1>3, <3>1 DEF IInv, ServiceInv
        <3> QED BY <3>1, <3>2, <3>3
    <2> QED BY <1>6, <2>1, <2>3, <2>4 DEF ServiceInv
<1>9. /\ port' = "key" => port = "key" /\ h # "keyboard"
      /\ port' = "mouse" => port = "mouse" /\ h # "keyboard" /\ h # "mouse"
      /\ port' \in {"empty", "key", "mouse"}
      /\ regC' => regC /\ h # "rtc"
      /\ regC' \in BOOLEAN
    <2>1. port \in {"empty", "key", "mouse"} /\ regC \in BOOLEAN
        BY DEF IInv, RestInv
    <2>2. CASE h = "keyboard"
        BY <1>1, <2>1, <2>2 DEF KeyboardReads
    <2>3. CASE h = "mouse"
        BY <1>1, <2>1, <2>3 DEF MouseReads
    <2>4. CASE h # "keyboard" /\ h # "mouse"
        <3>1. port' = port
            BY <1>1, <2>4
        <3> QED BY <1>1, <2>1, <2>4, <3>1 DEF RtcRead
    <2> QED BY <2>2, <2>3, <2>4
<1>10. RestInv'
    <2>1. Len(boot) <= 3
        BY <1>1, <1>3, TopFacts
    <2>2. (running' = running \/ boot = << >>) /\ running' \in Thread /\ enabled' \in BOOLEAN
        BY <1>3, <1>7 DEF IInv, RestInv
    <2> QED BY <1>2, <1>9, <2>1, <2>2 DEF IInv, RestInv
<1>11. ASSUME NEW g \in Handler, g # h, NEW m, Expects(g, m) PROVE Expects(g, m)'
    <2>1. CASE m \in irr
        BY <1>2, <2>1 DEF Expects
    <2>2. CASE m \notin irr
        <3>1. /\ frames[running][1].line = m
              /\ \A c \in 1..Len(Top.called) : Top.called[c] # g
            BY <1>3, <1>11, <2>2 DEF Expects
        <3>2. /\ Len(f.called) = Len(Top.called) + 1 /\ f.called[Len(Top.called) + 1] = h
              /\ \A c \in 1..Len(Top.called) : f.called[c] = Top.called[c]
              /\ Len(Top.called) \in Nat
            BY <1>1, <1>4
        <3>3. ASSUME NEW c \in 1..Len(f.called) PROVE f.called[c] # g
            <4>1. c \in 1..Len(Top.called) \/ c = Len(Top.called) + 1
                BY <3>2
            <4> QED BY <1>11, <3>1, <3>2, <4>1
        <3> QED BY <1>1, <1>3, <1>4, <1>6, <3>1, <3>3 DEF Expects
    <2> QED BY <2>1, <2>2
<1>12. DevicesInv'
    <2>1. {"keyboard", "mouse", "rtc"} \subseteq Handler
        BY DEF Handler
    <2>2. port' = "key" => Expects("keyboard", 1)'
        BY <1>9, <1>11, <2>1 DEF IInv, DevicesInv
    <2>3. port' = "mouse" => Expects("mouse", 12)' \/ Expects("keyboard", 1)'
        BY <1>9, <1>11, <2>1 DEF IInv, DevicesInv
    <2>4. regC' => Expects("rtc", 8)'
        BY <1>9, <1>11, <2>1 DEF IInv, DevicesInv
    <2> QED BY <2>2, <2>3, <2>4 DEF DevicesInv
<1> QED BY <1>5, <1>8, <1>10, <1>12 DEF IInv

\* The end of the highest lines in service is that of the interrupt at hand.
LEMMA EoiFacts ==
    ASSUME NEW l \in Line, isr = {l, AtMaster(l)}
    PROVE  Eoi(l) = {}
<1>1. CASE l < 8
    <2>1. isr = {l}
        BY <1>1 DEF AtMaster, Line
    <2>2. HighestOf({k \in isr : k < 8}) = {l}
        BY <1>1, <2>1 DEF HighestOf, Line
    <2> QED BY <1>1, <2>1, <2>2 DEF Eoi
<1>2. CASE l >= 8
    <2>1. isr = {l, 2}
        BY <1>2 DEF AtMaster
    <2>2. {k \in isr : k < 8} = {2} /\ {k \in isr : k >= 8} = {l}
        BY <1>2, <2>1 DEF Line
    <2>3. HighestOf({2}) = {2} /\ HighestOf({l}) = {l}
        BY DEF HighestOf, Line
    <2> QED BY <1>2, <2>1, <2>2, <2>3 DEF Eoi
<1> QED BY <1>1, <1>2 DEF Line

\* irq_handler has pic_eoi write the end of interrupt to the 8259s, after the last handler.
LEMMA AnnounceKeeps ==
    ASSUME IInv, Announce
    PROVE  IInv'
<1> DEFINE s == frames[running]
           f == [Top EXCEPT !.announced = TRUE]
<1>1. /\ s # << >> /\ running \in Thread /\ Len(s) > 0
      /\ s[1] = Top /\ Top \in Frame /\ ~Top.announced /\ InTurn(Top, irq)
      /\ \A t \in Thread : InService(t) <=> t = running
    BY HandlerIsAlone DEF Announce
<1>2. /\ boot' = boot /\ installed' = installed /\ irq' = irq /\ irr' = irr
      /\ isr' = Eoi(Top.line) /\ enabled' = enabled /\ running' = running
      /\ port' = port /\ regC' = regC
      /\ frames' = [frames EXCEPT ![running][1].announced = TRUE]
      /\ Left
    BY DEF Announce, cpu
<1>3. /\ Top.line \in Line /\ Top.next \in Nat \ {0}
      /\ Len(irq[Top.line]) \in Nat /\ Len(irq[Top.line]) <= Depth
      /\ Top.next <= Len(irq[Top.line]) + 1
    <2>1. Top.line \in Line /\ Top.next \in Nat \ {0}
        BY <1>1 DEF Frame
    <2>2. irq[Top.line] \in Seq(Handler) /\ Len(irq[Top.line]) <= Depth
        BY <2>1 DEF IInv, LinesInv
    <2> QED BY <1>1, <2>1, <2>2 DEF InTurn
<1>4. Top.next = Len(irq[Top.line]) + 1
    BY <1>2, <1>3, InterruptsAssumption DEF Left
<1>5. frames' = [frames EXCEPT ![running] = [@ EXCEPT ![1] = f]]
    BY <1>1, <1>2
<1>6. /\ f \in Frame /\ f.line = Top.line /\ f.next = Top.next /\ f.called = Top.called
      /\ f.announced = TRUE
    BY <1>1 DEF Frame
<1> HIDE DEF f, s
<1>7. InTurn(f, irq)
    BY <1>1, <1>4, <1>6 DEF InTurn
<1>8. BootInv' /\ LinesInv' /\ FramesInv'
    BY <1>1, <1>2, <1>5, <1>6, <1>7, TopInTurn DEF IInv, BootInv, LinesInv, s
<1>9. /\ Len(boot) <= 3 /\ frames'[running][1] = f
      /\ \A t \in Thread : Len(frames'[t]) = Len(frames[t])
      /\ \A t \in Thread : t # running => frames'[t] = frames[t]
      /\ \A t \in Thread : \A i \in 2..Len(frames[t]) : frames'[t][i] = frames[t][i]
    BY <1>1, <1>5, <1>6, TopFacts DEF s
<1>10. \A t \in Thread : ~InService(t)'
    BY <1>1, <1>6, <1>9 DEF InService
<1>11. isr' = {}
    <2>1. \A x \in Line \cup {2} : x \in isr <=> x \in {Top.line, AtMaster(Top.line)}
        BY <1>1 DEF IInv, ServiceInv, s
    <2>2. isr \subseteq Line \cup {2} /\ AtMaster(Top.line) \in Line \cup {2}
        BY <1>3 DEF IInv, RestInv, AtMaster
    <2>3. isr = {Top.line, AtMaster(Top.line)}
        BY <1>3, <2>1, <2>2
    <2> QED BY <1>2, <1>3, <2>3, EoiFacts
<1>12. ServiceInv'
    <2>1. \A t \in Thread : \A i \in 2..Len(frames'[t]) : frames'[t][i].announced
        BY <1>9 DEF IInv, ServiceInv
    <2> QED BY <1>10, <1>11, <2>1 DEF ServiceInv
<1>13. RestInv'
    BY <1>2, <1>11 DEF IInv, RestInv
<1>14. ASSUME NEW g \in {"keyboard", "mouse", "rtc"}, Expects(g, LineOf(g))
       PROVE  Expects(g, LineOf(g))'
    <2>1. CASE LineOf(g) \in irr
        BY <1>2, <2>1 DEF Expects
    <2>2. CASE LineOf(g) \notin irr
        <3>1. Top.line = LineOf(g) /\ \A c \in 1..Len(Top.called) : Top.called[c] # g
            BY <1>1, <1>14, <2>2 DEF Expects, s
        <3>2. irq[LineOf(g)] = <<g>>
            <4>1. g \in Handler
                BY DEF Handler
            <4>2. BootOrder(g) <= 5 /\ BootOrder(g) \in Nat
                BY <4>1 DEF BootOrder
            <4>3. Len(boot) <= 3 /\ Len(boot) \in Nat
                BY <1>9 DEF IInv, BootInv
            <4>4. Behind(g, Len(boot))
                BY <4>2, <4>3 DEF Behind
            <4> QED BY <4>4 DEF IInv, LinesInv
        <3>3. Top.next = 2 /\ Len(Top.called) = 1 /\ Top.called[1] = irq[LineOf(g)][1]
            BY <1>1, <1>4, <3>1, <3>2 DEF InTurn
        <3> QED BY <3>1, <3>2, <3>3
    <2> QED BY <2>1, <2>2
<1>15. DevicesInv'
    <2>1. LineOf("keyboard") = 1 /\ LineOf("mouse") = 12 /\ LineOf("rtc") = 8
        BY DEF LineOf
    <2>2. Expects("keyboard", 1) => Expects("keyboard", 1)'
        BY <1>14, <2>1
    <2>3. Expects("mouse", 12) => Expects("mouse", 12)'
        BY <1>14, <2>1
    <2>4. Expects("rtc", 8) => Expects("rtc", 8)'
        BY <1>14, <2>1
    <2> QED BY <1>2, <2>2, <2>3, <2>4 DEF IInv, DevicesInv
<1> QED BY <1>8, <1>12, <1>13, <1>15 DEF IInv

\* irq_common pops the interrupt and returns to what it had stopped.
LEMMA IretKeeps ==
    ASSUME IInv, Iret
    PROVE  IInv'
<1> DEFINE s == frames[running]
<1>1. /\ s # << >> /\ Top.announced
      /\ frames' = [frames EXCEPT ![running] = Tail(s)] /\ enabled' = TRUE
      /\ boot' = boot /\ installed' = installed /\ irq' = irq /\ irr' = irr /\ isr' = isr
      /\ running' = running /\ port' = port /\ regC' = regC
    BY DEF Iret, cpu
<1>2. running \in Thread /\ frames \in [Thread -> Seq(Frame)]
    BY DEF IInv, RestInv, FramesInv
<1>3. s \in Seq(Frame) /\ Len(s) \in Nat /\ Len(s) > 0 /\ s[1] = Top
    <2>1. s \in Seq(Frame)
        BY <1>2
    <2> QED BY <1>1, <2>1 DEF Top
<1>4. Len(boot) <= 3 /\ (boot = << >> \/ running = BootThread)
    BY <1>2, <1>3 DEF IInv, FramesInv
<1>5. /\ frames'[running] = Tail(s)
      /\ \A t \in Thread : t # running => frames'[t] = frames[t]
    BY <1>1, <1>2
<1> HIDE DEF s
<1>6. /\ Tail(s) \in Seq(Frame) /\ Len(Tail(s)) = Len(s) - 1
      /\ \A i \in 1..(Len(s) - 1) : Tail(s)[i] = s[i + 1] /\ i + 1 \in 2..Len(s)
    BY <1>1, <1>3
<1>7. BootInv' /\ LinesInv'
    BY <1>1 DEF IInv, BootInv, LinesInv
<1>8. FramesInv'
    <2>1. frames' \in [Thread -> Seq(Frame)]
        BY <1>1, <1>2, <1>6
    <2>2. /\ \A t \in Thread : Len(frames[t]) <= MaxNested
          /\ \A t \in Thread : \A i \in 1..Len(frames[t]) : InTurn(frames[t][i], irq)
        BY DEF IInv, FramesInv
    <2>3. ASSUME NEW t \in Thread
          PROVE  /\ Len(frames'[t]) <= MaxNested
                 /\ \A i \in 1..Len(frames'[t]) : InTurn(frames'[t][i], irq)
        <3>1. CASE t # running
            BY <1>5, <2>2, <3>1
        <3>2. CASE t = running
            <4>1. Len(s) <= MaxNested /\ \A i \in 1..Len(s) : InTurn(s[i], irq)
                BY <1>2, <2>2 DEF s
            <4>2. Len(Tail(s)) <= MaxNested
                BY <1>3, <1>6, <4>1, InterruptsAssumption
            <4>3. \A i \in 1..Len(Tail(s)) : InTurn(Tail(s)[i], irq)
                BY <1>3, <1>6, <4>1
            <4> QED BY <1>5, <3>2, <4>2, <4>3
        <3> QED BY <3>1, <3>2
    <2>4. \A t \in Thread :
             Len(frames'[t]) > 0 => Len(boot') <= 3 /\ (boot' = << >> \/ t = BootThread)
        BY <1>1, <1>4, <1>5 DEF IInv, FramesInv
    <2> QED BY <1>1, <2>1, <2>3, <2>4 DEF FramesInv
<1>9. \A i \in 2..Len(s) : s[i].announced
    BY <1>2 DEF IInv, ServiceInv, s
<1>10. ASSUME NEW t \in Thread
       PROVE  (InService(t)' <=> InService(t)) /\ (InService(t) => t # running)
    <2>1. CASE t # running
        BY <1>5, <2>1 DEF InService
    <2>2. CASE t = running
        <3>1. ~InService(t)
            BY <1>1, <1>3, <2>2 DEF InService, s
        <3>2. ~InService(t)'
            <4>1. Len(Tail(s)) > 0 => Tail(s)[1].announced
                BY <1>3, <1>6, <1>9
            <4> QED BY <1>5, <2>2, <4>1 DEF InService
        <3> QED BY <2>2, <3>1, <3>2
    <2> QED BY <2>1, <2>2
<1>11. ServiceInv'
    <2>1. ASSUME NEW t \in Thread, NEW i \in 2..Len(frames'[t]) PROVE frames'[t][i].announced
        <3>1. CASE t # running
            BY <1>5, <3>1 DEF IInv, ServiceInv
        <3>2. CASE t = running
            <4>1. i \in 1..(Len(s) - 1) /\ frames'[t][i] = s[i + 1]
                BY <1>3, <1>5, <1>6, <3>2
            <4> QED BY <1>6, <1>9, <4>1
        <3> QED BY <3>1, <3>2
    <2>2. ASSUME NEW t \in Thread, InService(t) PROVE frames'[t] = frames[t] /\ frames[t][1].line = 0
        BY <1>5, <1>10, <2>2 DEF IInv, ServiceInv
    <2>3. \A x \in Line \cup {2} : x \in isr' <=>
             \E t \in Thread : /\ InService(t)'
                               /\ x \in {frames'[t][1].line, AtMaster(frames'[t][1].line)}
        BY <1>1, <1>10, <2>2 DEF IInv, ServiceInv
    <2>4. \A t, u \in Thread : InService(t)' /\ InService(u)' => t = u
        BY <1>10 DEF IInv, ServiceInv
    <2>5. \A t \in Thread : InService(t)' /\ frames'[t][1].line # 0 => t = running' /\ ~enabled'
        BY <1>10, <2>2
    <2> QED BY <2>1, <2>3, <2>4, <2>5 DEF ServiceInv
<1>12. RestInv'
    BY <1>1, <1>4 DEF IInv, RestInv
<1>13. ASSUME NEW g, NEW m, Expects(g, m) PROVE Expects(g, m)'
    BY <1>1, <1>5, <1>10, <1>13 DEF Expects
<1>14. DevicesInv'
    BY <1>1, <1>13 DEF IInv, DevicesInv
<1> QED BY <1>7, <1>8, <1>11, <1>12, <1>14 DEF IInv

\* A thread gives the processor up, outside of interrupts.
LEMMA YieldKeeps ==
    ASSUME IInv, Yield
    PROVE  IInv'
<1>1. /\ boot = << >> /\ frames[running] = << >> /\ running' \in Thread /\ enabled' = TRUE
      /\ boot' = boot /\ installed' = installed /\ irq' = irq /\ irr' = irr /\ isr' = isr
      /\ frames' = frames /\ port' = port /\ regC' = regC
    BY DEF Yield, cpu, Scheduled
<1>2. ASSUME NEW t \in Thread, InService(t) PROVE frames[t][1].line = 0
    <2>1. t # running
        BY <1>1, <1>2 DEF InService
    <2> QED BY <1>2, <2>1 DEF IInv, ServiceInv
<1>3. BootInv' /\ LinesInv'
    BY <1>1 DEF IInv, BootInv, LinesInv
<1>4. FramesInv'
    BY <1>1 DEF IInv, FramesInv
<1>5. ServiceInv'
    BY <1>1, <1>2 DEF IInv, ServiceInv, InService
<1>6. RestInv'
    <2>1. Len(boot') <= 3
        BY <1>1
    <2> QED BY <1>1, <2>1 DEF IInv, RestInv
<1>7. DevicesInv'
    BY <1>1 DEF IInv, DevicesInv, Expects, InService
<1> QED BY <1>3, <1>4, <1>5, <1>6, <1>7 DEF IInv

\* Each step of the boot, of a device, of the 8259s and of irq_handler keeps IInv.
LEMMA Inductive == IInv /\ [Next]_vars => IInv'
<1> SUFFICES ASSUME IInv, [Next]_vars PROVE IInv'
    OBVIOUS
<1>1. CASE UNCHANGED vars
    <2>1. /\ UNCHANGED Device /\ irr' = irr /\ port' = port /\ regC' = regC
        BY <1>1 DEF vars, Device, cpu
    <2>2. irr \subseteq Line /\ regC \in BOOLEAN /\ port \in {"empty", "key", "mouse"}
        BY DEF IInv, RestInv
    <2> QED BY <2>1, <2>2, DeviceKeeps
<1>2. CASE Next
    BY <1>2, BootStepKeeps, DevicesKeep, AcceptKeeps, HandleKeeps, AnnounceKeeps,
       IretKeeps, YieldKeeps DEF Next
<1> QED BY <1>1, <1>2

\* The invariant of the interrupts holds from the boot on.
THEOREM IInvInvariant == Spec => []IInv
<1>1. Init => IInv
    BY InitIInv
<1>2. IInv /\ [Next]_vars => IInv'
    BY Inductive
<1> QED BY <1>1, <1>2, PTL DEF Spec

-----------------------------------------------------------------------------
(* What follows from it                                                    *)

\* The invariant gives each variable its type.
LEMMA TypeHolds == ASSUME IInv PROVE TypeOK
<1>1. boot \in {SubSeq(Boot, i, Len(Boot)) : i \in 1..(Len(Boot) + 1)}
    <2> DEFINE S == Step
    <2>1. Boot \in Seq(S) /\ Len(Boot) = 10
        BY DEF Boot, Handler, Step, Unlocking
    <2>2. /\ boot \in Seq(S) /\ Len(boot) <= 10 /\ Len(boot) \in Nat
          /\ \A k \in 1..Len(boot) : boot[k] = Boot[10 - Len(boot) + k]
        BY DEF IInv, BootInv
    <2> HIDE DEF S
    <2>3. PICK n \in 0..10 : Len(boot) = n
        <3>1. ASSUME NEW n \in Nat, n <= 10 PROVE n \in 0..10
            BY <3>1
        <3> QED BY <2>2, <3>1, Zenon
    <2> DEFINE i == 11 - n
               r == SubSeq(Boot, i, 10)
    <2>4. i \in 1..11 /\ i \in 1..(10 + 1) /\ 10 - i + 1 = n /\ (i <= 10 \/ n = 0)
        OBVIOUS
    <2>5. \A k \in 1..n : 10 - n + k = i + k - 1
        OBVIOUS
    <2>6. r \in Seq(S) /\ Len(r) = n /\ \A k \in 1..n : r[k] = Boot[i + k - 1]
        <3>1. /\ r \in Seq(S)
              /\ Len(r) = IF i <= 10 THEN 10 - i + 1 ELSE 0
              /\ \A k \in 1..(10 - i + 1) : r[k] = Boot[i + k - 1]
            <4>1. i \in Int /\ 10 \in Int /\ \A k \in i..10 : k \in 1..10
                BY <2>4
            <4>2. \A k \in 1..10 : Boot[k] \in S
                BY <2>1, ElementOfSeq
            <4>3. \A k \in i..10 : Boot[k] \in S
                BY <4>1, <4>2, Zenon
            <4> HIDE DEF i
            <4> QED BY <4>1, <4>3, SubSeqProperties
        <3> HIDE DEF i, r
        <3> QED BY <2>4, <3>1
    <2> HIDE DEF i, r
    <2>7. boot = r
        <3>1. \A k \in 1..n : boot[k] = r[k]
            BY <2>2, <2>3, <2>5, <2>6
        <3> QED BY <2>2, <2>3, <2>6, <3>1, SeqEqual
    <2> QED BY <2>1, <2>4, <2>7 DEF r
<1>2. ASSUME NEW l \in Line
      PROVE  /\ irq[l] \in Seq(Handler) /\ Len(irq[l]) <= Depth
             /\ \A i, j \in DOMAIN irq[l] : irq[l][i] = irq[l][j] => i = j
    <2>1. irq[l] \in Seq(Handler)
        BY DEF IInv, LinesInv
    <2>2. DOMAIN irq[l] = 1..Len(irq[l])
        BY <2>1
    <2> QED BY <2>1, <2>2 DEF IInv, LinesInv
<1>3. \A t \in Thread : Len(frames[t]) <= MaxNested
    BY DEF IInv, FramesInv
<1>4. /\ enabled \in BOOLEAN /\ regC \in BOOLEAN
      /\ irr \subseteq Line /\ isr \subseteq Line \cup {2}
      /\ running \in Thread /\ port \in {"empty", "key", "mouse"}
    BY DEF IInv, RestInv
<1> QED BY <1>1, <1>2, <1>3, <1>4 DEF TypeOK

\* No interrupt comes before idt_init.
LEMMA GatesHold == ASSUME IInv PROVE Gated
<1> SUFFICES ASSUME enabled PROVE {32 + l : l \in Line} \subseteq installed
    BY DEF Gated
<1>1. Len(boot) <= 3
    BY DEF IInv, RestInv
<1>2. installed = IdtInit
    <2>1. Len(boot) # 10
        BY <1>1
    <2> QED BY <2>1 DEF IInv, BootInv
<1> QED BY <1>2, Vectors

\* When sched_handler has been set, only sched_schedule is left of the boot.
LEMMA ThreadHolds == ASSUME IInv PROVE ThreadBeforeHandler
<1> SUFFICES ASSUME NEW t \in Thread, NEW i \in DOMAIN frames[t],
                    NEW c \in DOMAIN frames[t][i].called, frames[t][i].called[c] = "sched",
                    NEW k \in DOMAIN boot
             PROVE  boot[k] # "thread"
    BY DEF ThreadBeforeHandler
<1> DEFINE f == frames[t][i]
           q == irq[f.line]
<1>1. i \in 1..Len(frames[t])
    BY FrameFacts
<1>2. /\ f.line \in Line /\ f.next \in Nat \ {0} /\ f.called \in Seq(Handler)
      /\ q \in Seq(Handler) /\ Len(q) \in Nat
    BY <1>1, FrameFacts
<1>3. InTurn(f, irq)
    BY <1>1 DEF IInv, FramesInv
<1>4. c \in 1..Len(q) /\ q[c] = "sched"
    <2>1. c \in 1..Len(f.called)
        BY <1>2
    <2>2. Len(f.called) = f.next - 1 /\ f.next - 1 <= Len(q) /\ f.called[c] = q[c]
        BY <1>2, <1>3, <2>1 DEF InTurn
    <2> HIDE DEF f, q
    <2>3. c \in 1..Len(q)
        BY <1>2, <2>1, <2>2
    <2> QED BY <2>2, <2>3 DEF f
<1>5. Behind("sched", Len(boot))
    BY <1>2, <1>4 DEF IInv, LinesInv
<1> HIDE DEF f, q
<1>6. BootOrder("sched") = 9
    BY DEF BootOrder
<1>7. Len(boot) \in Nat /\ DOMAIN boot = 1..Len(boot)
    BY LenProperties DEF IInv, BootInv
<1>8. Len(boot) = 1 /\ k = 1
    BY <1>5, <1>6, <1>7 DEF Behind
<1>9. boot[k] = Boot[10]
    <2>1. boot[k] = Boot[10 - 1 + 1]
        BY <1>7, <1>8 DEF IInv, BootInv
    <2> QED BY <2>1
<1> QED BY <1>9 DEF Boot

\* At most one interrupt is served, as the innermost of its thread.
LEMMA ServedIs ==
    ASSUME IInv, NEW t \in Thread
    PROVE  Served(t) = IF InService(t) THEN {1} ELSE {}
<1>1. frames[t] \in Seq(Frame) /\ Len(frames[t]) \in Nat
    BY FrameFacts
<1>2. DOMAIN frames[t] = 1..Len(frames[t])
    BY <1>1
<1>3. ASSUME NEW i PROVE i \in Served(t) <=> i = 1 /\ InService(t)
    <2>1. i \in Served(t) <=> i \in 1..Len(frames[t]) /\ ~frames[t][i].announced
        BY <1>2 DEF Served
    <2>2. i \in 1..Len(frames[t]) => i = 1 \/ i \in 2..Len(frames[t])
        BY <1>1
    <2>3. \A k \in 2..Len(frames[t]) : frames[t][k].announced
        BY DEF IInv, ServiceInv
    <2>4. InService(t) <=> 1 \in 1..Len(frames[t]) /\ ~frames[t][1].announced
        BY <1>1 DEF InService
    <2> QED BY <2>1, <2>2, <2>3, <2>4
<1> QED BY <1>3

\* It ties the lines in service to the one interrupt that is served.
LEMMA ServiceHolds == ASSUME IInv PROVE InServiceMatches
<1> DEFINE All == UNION {{<<t, i>> : i \in Served(t)} : t \in Thread}
           Lines == UNION {UNION {{frames[t][i].line, AtMaster(frames[t][i].line)} :
                                     i \in Served(t)} : t \in Thread}
<1>1. \A t, u \in Thread : InService(t) /\ InService(u) => t = u
    BY DEF IInv, ServiceInv
<1>2. Cardinality(All) <= 1
    <2>1. ASSUME NEW x \in All PROVE \E t \in Thread : InService(t) /\ x = <<t, 1>>
        <3>1. PICK t \in Thread : x \in {<<t, i>> : i \in Served(t)}
            OBVIOUS
        <3> QED BY <3>1, ServedIs
    <2> HIDE DEF All
    <2>2. CASE All = {}
        BY <2>2, FS_EmptySet
    <2>3. CASE All # {}
        <3>1. PICK x : x \in All
            BY <2>3
        <3>2. All = {x}
            BY <1>1, <2>1, <3>1
        <3>3. Cardinality({x}) = 1
            BY FS_Singleton, Zenon
        <3> QED BY <3>2, <3>3
    <2> QED BY <2>2, <2>3
<1>3. isr = Lines
    <2>1. ASSUME NEW x
          PROVE  x \in Lines <=> \E t \in Thread : InService(t)
                                     /\ x \in {frames[t][1].line, AtMaster(frames[t][1].line)}
        <3> DEFINE Of(t) == UNION {{frames[t][i].line, AtMaster(frames[t][i].line)} :
                                      i \in Served(t)}
        <3>0. \A t : x \in Of(t) <=> \E i \in Served(t) :
                           x \in {frames[t][i].line, AtMaster(frames[t][i].line)}
            OBVIOUS
        <3>1. x \in Lines <=>
                 \E t \in Thread : \E i \in Served(t) :
                     x \in {frames[t][i].line, AtMaster(frames[t][i].line)}
            <4>1. Lines = UNION {Of(t) : t \in Thread}
                OBVIOUS
            <4> HIDE DEF Of, Lines
            <4>2. x \in Lines <=> \E t \in Thread : x \in Of(t)
                BY <4>1
            <4> QED BY <3>0, <4>2
        <3>2. \A t \in Thread : \A i : i \in Served(t) <=> i = 1 /\ InService(t)
            BY ServedIs
        <3> HIDE DEF Lines
        <3> QED BY <3>1, <3>2, Zenon
    <2> HIDE DEF Lines
    <2>2. ASSUME NEW x \in isr PROVE x \in Lines
        <3>1. x \in Line \cup {2}
            BY DEF IInv, RestInv
        <3> QED BY <2>1, <3>1 DEF IInv, ServiceInv
    <2>3. ASSUME NEW x \in Lines PROVE x \in isr
        <3>1. PICK t \in Thread : /\ InService(t)
                                  /\ x \in {frames[t][1].line, AtMaster(frames[t][1].line)}
            BY <2>1
        <3>2. frames[t][1].line \in Line
            <4>1. 1 \in 1..Len(frames[t])
                BY <3>1, FrameFacts DEF InService
            <4> QED BY <4>1, FrameFacts
        <3>3. x \in Line \cup {2}
            BY <3>1, <3>2 DEF AtMaster
        <3> QED BY <3>1, <3>3 DEF IInv, ServiceInv
    <2> QED BY <2>2, <2>3
<1> QED BY <1>2, <1>3 DEF InServiceMatches

\* It has all handlers of a line run before its end is announced.
LEMMA HandlersHold == ASSUME IInv PROVE AllHandlersRun
<1> SUFFICES ASSUME NEW t \in Thread, NEW i \in DOMAIN frames[t], frames[t][i].announced
             PROVE  frames[t][i].called = irq[frames[t][i].line]
    BY DEF AllHandlersRun
<1> DEFINE f == frames[t][i]
<1>1. i \in 1..Len(frames[t])
    BY FrameFacts
<1>2. InTurn(f, irq)
    BY <1>1 DEF IInv, FramesInv
<1>3. f.called \in Seq(Handler) /\ irq[f.line] \in Seq(Handler) /\ Len(irq[f.line]) \in Nat
    BY <1>1, FrameFacts
<1>4. Len(f.called) = Len(irq[f.line])
      /\ \A j \in 1..Len(f.called) : f.called[j] = irq[f.line][j]
    BY <1>2, <1>3 DEF InTurn
<1> HIDE DEF f
<1>5. f.called = irq[f.line]
    BY <1>3, <1>4, SeqEqual
<1> QED BY <1>5 DEF f

\* However interrupts nest and threads change between them, in the boot's window
\* too, each is served by all handlers of its line, and the end that is announced
\* is its own.
THEOREM EachIsServedInTurn == Spec => []ServedInTurn
<1>1. IInv => ServedInTurn
    BY TypeHolds, GatesHold, ThreadHolds, ServiceHolds, HandlersHold DEF ServedInTurn
<1> QED BY <1>1, IInvInvariant, PTL

\* Whatever the devices do at the same time: a byte of the keyboard or the mouse
\* and the clock's register are always about to be read.
THEOREM NoDeviceWaitsForEver == Spec => []NothingLost
<1>1. ASSUME IInv, NEW h, NEW l, Expects(h, l) PROVE Awaits(h, l)
    <2>1. CASE l \in irr
        BY <2>1 DEF Awaits
    <2>2. CASE l \notin irr
        <3>1. PICK t \in Thread :
                 /\ InService(t) /\ frames[t][1].line = l
                 /\ \A c \in 1..Len(frames[t][1].called) : frames[t][1].called[c] # h
            BY <1>1, <2>2 DEF Expects
        <3>2. 1 \in Served(t)
            BY <1>1, <3>1, ServedIs
        <3>3. DOMAIN frames[t][1].called = 1..Len(frames[t][1].called)
            <4>1. 1 \in 1..Len(frames[t])
                BY <1>1, <3>1, FrameFacts DEF InService
            <4>2. frames[t][1].called \in Seq(Handler)
                BY <1>1, <4>1, FrameFacts
            <4> QED BY <4>2
        <3> QED BY <3>1, <3>2, <3>3 DEF Awaits
    <2> QED BY <2>1, <2>2
<1>2. IInv => NothingLost
    BY <1>1 DEF IInv, DevicesInv, NothingLost, InputPending, ClockPending
<1> QED BY <1>2, IInvInvariant, PTL
=============================================================================
