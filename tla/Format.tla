------------------------------- MODULE Format -------------------------------
(***************************************************************************)
(* vsnprintf of kernel/utils/stdio.c, and sprintf and snprintf, which call *)
(* it: one action per directive.  The text of a directive is in            *)
(* FormatText, what it promises in Directives.  libs/c/stdio.c is the same *)
(* code for programs.  Lengths are whole numbers: a text that is longer    *)
(* than an int can say fits into no memory.                                *)
(***************************************************************************)
EXTENDS FormatText

CONSTANTS BufferSizes, \* sizes of the buffer, as ints; sprintf's is INT_MAX
          Calls        \* the formats with the words of their arguments

ASSUME FormatAssumption ==
    /\ BufferSizes \subseteq Int
    /\ \A c \in Calls : WellFormed(c.format, c.words)

VARIABLES
    size, format, words,
    at,       \* the directive that format points to
    next,     \* the word that ap points to
    begins,   \* Len(out) at each directive that was begun
    out,      \* all characters so far, kept or not: buffer - str is its length
    str,      \* what was stored, by its offset
    told,     \* what %n stored, by the directive
    phase,    \* "scan", "done", "wild": format is behind its end
    length    \* what is returned
textVars == <<size, format, words, at, next, begins, out, str, told, phase, length>>

TextTypeOK ==
    /\ size \in BufferSizes
    /\ at \in 1..(Len(format) + 1)
    /\ next \in 1..(Len(words) + 1)
    /\ Len(begins) = at - 1
    /\ \A i \in DOMAIN str : i \in Nat
    /\ DOMAIN told \subseteq 1..Len(format)
    /\ phase \in {"scan", "done", "wild"}
    /\ length \in Nat

-----------------------------------------------------------------------------

\* if (buffer < end) *buffer = c; buffer++, for each character
Stored(text) ==
    LET from == Len(out)
        kept == {i \in from..(from + Len(text) - 1) : i < size}
    IN [i \in DOMAIN str \cup kept |-> IF i \in kept THEN text[i - from + 1] ELSE str[i]]

Put(text) == out' = out \o text /\ str' = Stored(text)

\* va_list ap
Rest == SubSeq(words, next, Len(words))

\* The scan of a directive: what it takes from the arguments
Scan(conversions) ==
    /\ phase = "scan" /\ size >= 0
    /\ at <= Len(format) /\ format[at].conversion \in conversions
    /\ at' = at + 1
    /\ next' = next + TakenBy(format[at])
    /\ begins' = Append(begins, Len(out))
    /\ UNCHANGED <<size, format, words, length>>

-----------------------------------------------------------------------------
TextInit ==
    /\ \E c \in Calls : format = c.format /\ words = c.words
    /\ size \in BufferSizes
    /\ at = 1 /\ next = 1 /\ begins = <<>> /\ out = <<>>
    /\ str = <<>> /\ told = <<>>
    /\ phase = "scan" /\ length = 0

\* (int)size < 0
Refuse ==
    /\ phase = "scan" /\ size < 0
    /\ phase' = "done"
    /\ UNCHANGED <<size, format, words, at, next, begins, out, str, told, length>>

Literal ==
    /\ Scan({"lit"})
    /\ Put(<<"t">>)
    /\ UNCHANGED <<told, phase>>

Convert ==
    /\ Scan({"c", "s", "p", "%"} \cup Numbers)
    /\ Put(Text(format[at], Rest))
    /\ UNCHANGED <<told, phase>>

\* %n
Count ==
    /\ Scan({"n"})
    /\ told' = [i \in DOMAIN told \cup {at} |-> IF i = at THEN Len(out) ELSE told[i]]
    /\ UNCHANGED <<out, str, phase>>

\* No conversion: the percent sign and the character
Unknown ==
    /\ Scan({"?"})
    /\ Put(<<"%", "?">>)
    /\ UNCHANGED <<told, phase>>

\* The format ends inside a directive: format++, and the loop's, pass the end
RunOff ==
    /\ Scan({"end"})
    /\ Put(<<"%">>)
    /\ phase' = "wild"
    /\ UNCHANGED told

\* The end of the text, or the character behind the buffer
Finish ==
    /\ phase = "scan" /\ size >= 0 /\ at > Len(format)
    /\ LET end == {IF Len(out) < size THEN Len(out) ELSE size} \ (IF size = 0 THEN {0} ELSE {})
       IN str' = [i \in DOMAIN str \cup end |-> IF i \in end THEN "NUL" ELSE str[i]]
    /\ phase' = "done" /\ length' = Len(out)
    /\ UNCHANGED <<size, format, words, at, next, begins, out, told>>

TextNext == Refuse \/ Literal \/ Convert \/ Count \/ Unknown \/ RunOff \/ Finish

TextSpec == TextInit /\ [][TextNext]_textVars

-----------------------------------------------------------------------------
(* The buffer holds the text as far as it goes, and nothing else is stored   *)
(* but the NUL: behind the text, or, of a text that does not fit, one        *)
(* character behind the buffer, where *end is.                               *)
BufferHoldsText ==
    LET kept == {i \in 0..(Len(out) - 1) : i < size}
        end  == DOMAIN str \ kept
    IN /\ kept \subseteq DOMAIN str
       /\ \A i \in kept : str[i] = out[i + 1]
       /\ end # {} => phase = "done"
       /\ \A i \in end : str[i] = "NUL" /\ i = (IF Len(out) < size THEN Len(out) ELSE size)
       /\ phase = "done" /\ size > 0 => end # {}

(* Every directive, whatever stands before it, makes the text it promises    *)
(* from its own arguments, and %n stores the length of the text before it.   *)
PiecesAsPromised ==
    \A i \in 1..Len(begins) :
        LET text == SubSeq(out, begins[i] + 1, IF i < Len(begins) THEN begins[i + 1] ELSE Len(out))
        IN /\ Promised(text, format[i], SubSeq(words, TakenUpTo(format)[i - 1] + 1, Len(words)))
           /\ format[i].conversion = "n" => told[i] = begins[i]

(* The scan goes past the end of a format only if the format ends inside a   *)
(* directive, and what it returns is the length of the whole text.           *)
ScanStops ==
    /\ phase = "wild" <=> begins # <<>> /\ format[Len(begins)].conversion = "end"
    /\ phase = "done" /\ size >= 0 => Len(begins) = Len(format) /\ length = Len(out)

(* What a caller of vsnprintf relies on.                                     *)
TextAsPromised == TextTypeOK /\ PiecesAsPromised /\ BufferHoldsText /\ ScanStops
=============================================================================
