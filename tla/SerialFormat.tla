----------------------------- MODULE SerialFormat -----------------------------
(***************************************************************************)
(* kernel/arch/x86/boot/serial.c: serial_early_kprintf, which formats into *)
(* a buffer on its stack with a vsprintf of its own, and sends the buffer  *)
(* to a serial port that is not always ready.  The formatter knows h, l    *)
(* and L only, and makes numbers with the width of a long, which is that   *)
(* of an int.                                                              *)
(***************************************************************************)
EXTENDS FormatText

CONSTANTS BufferSize,  \* char buffer[1024]
          Calls        \* the formats with the words of their arguments

VARIABLES
    format, words,
    at, next,  \* as in Format
    begins,    \* length of the text at each directive that was begun
    buffer,    \* the text
    phase,     \* "idle", "scan", "send", "wild": the stack is overwritten
    i,         \* characters that serial_early_write has sent
    ready,     \* inb(SERIAL_PORT + 5) & 0x20
    port       \* what went out
vars == <<format, words, at, next, begins, buffer, phase, i, ready, port>>

TypeOK ==
    /\ at \in 1..(Len(format) + 1)
    /\ next \in 1..(Len(words) + 1)
    /\ Len(begins) = at - 1
    /\ phase \in {"idle", "scan", "send", "wild"}
    /\ phase # "wild" => Len(buffer) <= BufferSize
    /\ i \in 0..Len(buffer)
    /\ ready \in BOOLEAN

-----------------------------------------------------------------------------
\* The characters of a qualifier that the scan does not know, which come to
\* the switch as a conversion: %zd is "%z" and a plain d
Odd(d) ==
    CASE d.qualifier = "z"  -> <<"%", "z", d.conversion>>
      [] d.qualifier = "ll" -> <<"%", "l", d.conversion>>
      [] OTHER              -> <<>>

\* How many words va_arg takes: a number is one of them
SerialTaken(d) ==
    IF Odd(d) = <<>> /\ d.conversion \in Numbers \cup {"c", "s", "p", "n"} THEN Stars(d) + 1
    ELSE Stars(d)

\* faulty: a short is widened without its sign
SerialNumberUnsigned(d, args) ==
    LET low == args[Stars(d) + 1]
    IN IF d.qualifier = "h" THEN low % Shorts ELSE low

\* The argument of a number, as a long
SerialNumber(d, args) ==
    LET low == args[Stars(d) + 1]
    IN IF d.qualifier # "h" THEN low
       ELSE IF d.conversion = "d" THEN Signed(low % Shorts, Shorts) % Ints
       ELSE low % Shorts

\* serial_early_vsprintf_number, with long numbers and capitals by default
SerialFormatted(n, base, field, precision, flags) ==
    LET negative == "sign" \in flags /\ 2 * n >= Ints
        digits   == Digits(IF negative THEN Ints - n ELSE n, base,
                           IF "small" \in flags THEN Digit ELSE Large)
        sign     == IF negative THEN <<"-">>
                    ELSE IF "sign" \notin flags THEN <<>>
                    ELSE IF "plus" \in flags THEN <<"+">>
                    ELSE IF "space" \in flags THEN <<Blank>>
                    ELSE <<>>
        prefix   == IF "special" \notin flags THEN <<>>
                    ELSE CASE base = 16 -> <<"0", IF "small" \in flags THEN "x" ELSE "X">>
                           [] base = 8  -> <<"0">>
                           [] OTHER     -> <<>>
    IN Laid(sign \o prefix, Filled(digits, precision), field, flags)

\* serial_early_vsprintf_strnlen: no precision is the greatest length, and a
\* NULL is read as any other address
SerialString(address, precision) ==
    IF precision = None \/ precision >= Len(Memory[address]) THEN Memory[address]
    ELSE SubSeq(Memory[address], 1, precision)

SerialPointer(word, field, precision, flags) ==
    IF field = None THEN SerialFormatted(word, 16, PointerDigits, precision, flags \cup {"zeropad"})
    ELSE SerialFormatted(word, 16, field, precision, flags)

SerialText(d, args) ==
    LET r    == ReadStars(d, args)
        word == args[Stars(d) + 1]
        InBase(base, flags) == SerialFormatted(SerialNumber(d, args), base, r.field, r.precision, flags)
    IN IF Odd(d) # <<>> THEN Odd(d)
       ELSE CASE d.conversion = "lit" -> <<"t">>
              [] d.conversion = "c" -> InField(<<Character(word)>>, r.field, r.flags)
              [] d.conversion = "s" -> InField(SerialString(word, r.precision), r.field, r.flags)
              [] d.conversion = "p" -> SerialPointer(word, r.field, r.precision, r.flags)
              [] d.conversion \in {"%", "end"} -> <<"%">>   \* at the format's end, --format
              [] d.conversion = "?" -> <<"%", "?">>
              [] d.conversion = "n" -> <<>>
              [] d.conversion = "o" -> InBase(8, r.flags)
              [] d.conversion = "x" -> InBase(16, r.flags \cup {"small"})
              [] d.conversion = "X" -> InBase(16, r.flags)
              [] d.conversion = "d" -> InBase(10, r.flags \cup {"sign"})
              [] OTHER              -> InBase(10, r.flags)

-----------------------------------------------------------------------------
Init ==
    /\ \E c \in Calls : format = c.format /\ words = c.words
    /\ at = 1 /\ next = 1 /\ begins = <<>>
    /\ buffer = <<>> /\ port = <<>> /\ i = 0
    /\ phase = "scan"
    /\ ready \in BOOLEAN

\* A turn of the loop of serial_early_vsprintf.  Nothing bounds p_str: the
\* text that passes the buffer, or its NUL, goes over the stack
Directive ==
    /\ phase = "scan" /\ at <= Len(format)
    /\ LET d    == format[at]
           text == buffer \o SerialText(d, SubSeq(words, next, Len(words)))
       IN /\ buffer' = text
          /\ next' = next + SerialTaken(d)
          /\ phase' = IF Len(text) > BufferSize THEN "wild" ELSE phase
    /\ begins' = Append(begins, Len(buffer))
    /\ at' = at + 1
    /\ UNCHANGED <<format, words, i, ready, port>>

Terminate ==
    /\ phase = "scan" /\ at > Len(format)
    /\ phase' = IF Len(buffer) < BufferSize THEN "send" ELSE "wild"
    /\ UNCHANGED <<format, words, at, next, begins, buffer, i, ready, port>>

\* serial_early_write_char, once the port is ready; it is busy behind it
WriteChar ==
    /\ phase = "send" /\ i < Len(buffer) /\ ready
    /\ port' = Append(port, buffer[i + 1])
    /\ i' = i + 1 /\ ready' = FALSE
    /\ UNCHANGED <<format, words, at, next, begins, buffer, phase>>

Return ==
    /\ phase = "send" /\ i = Len(buffer)
    /\ phase' = "idle"
    /\ UNCHANGED <<format, words, at, next, begins, buffer, i, ready, port>>

\* The device, on its own
PortReady ==
    /\ ~ready /\ ready' = TRUE
    /\ UNCHANGED <<format, words, at, next, begins, buffer, phase, i, port>>

Kprintf == Directive \/ Terminate \/ WriteChar \/ Return
Next == Kprintf \/ PortReady

Spec == Init /\ [][Next]_vars /\ WF_vars(Kprintf) /\ WF_vars(PortReady)

-----------------------------------------------------------------------------
(* A directive that both formatters know makes the same text in both, but    *)
(* that pointers have capitals in this one: log_info and serial_early_kprintf *)
(* may be exchanged as long as a format has no long long, no size_t and no   *)
(* NULL string.                                                              *)
Capital(c) == IF \E v \in 11..16 : c = Digit[v] THEN Large[CHOOSE v \in 11..16 : c = Digit[v]]
              ELSE IF c = "x" THEN "X" ELSE c
Shared(d) == d.qualifier \in {"", "h", "l"} /\ d.conversion \in {"c", "s", "p"} \cup Numbers
AgreesWithKernel ==
    \A k \in 1..Len(begins) :
        LET text == SubSeq(buffer, begins[k] + 1, IF k < Len(begins) THEN begins[k + 1] ELSE Len(buffer))
            kernel == Text(format[k], SubSeq(words, TakenUpTo(format)[k - 1] + 1, Len(words)))
        IN  (\A j \in 1..k : Shared(format[j]) \/ format[j].conversion \in {"lit", "%", "n"}) =>
                CASE format[k].conversion \in {"lit", "n"} -> TRUE
                  [] format[k].conversion = "p" -> text = [j \in 1..Len(kernel) |-> Capital(kernel[j])]
                  [] OTHER -> text = kernel

(* However slow the port, it gets the characters of the text, each once and  *)
(* in order.                                                                 *)
SentInOrder == port = SubSeq(buffer, 1, i)

(* serial_early_kprintf returns, unless its text passed the end of its       *)
(* buffer: the scan ends, also in a format that ends inside a directive, and  *)
(* every wait for the port does.                                             *)
Returns == <>(phase \in {"idle", "wild"})

(* What a caller of serial_early_kprintf relies on.                          *)
ConsolePrints == [](TypeOK /\ AgreesWithKernel /\ SentInOrder) /\ Returns
=============================================================================
