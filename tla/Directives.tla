----------------------------- MODULE Directives -----------------------------
(***************************************************************************)
(* What a directive of a format promises, whoever formats it: said by      *)
(* reading the text back, not by making it.  kernel/utils/stdio.c,         *)
(* libs/c/stdio.c (the same code) and kernel/arch/x86/boot/serial.c are    *)
(* three formatters of these directives.                                   *)
(*                                                                         *)
(* A format is a sequence of directives; a character that is not part of   *)
(* one is the directive whose conversion is "lit"; "end" is that of a      *)
(* directive inside which the format ends.  An argument is one or two      *)
(* words of the stack, as va_arg reads them.                               *)
(***************************************************************************)
EXTENDS Integers, Sequences

CONSTANTS Shorts,         \* how many values a short has: 2^16
          Ints,           \* an int, a long, a pointer: 2^32
          PointerDigits,  \* 2*sizeof(void *): 8
          NullPage,       \* a string below this address is taken for NULL: 4096
          Memory          \* the strings, by their addresses

\* A long long is two ints
LongLongs == Ints * Ints

ASSUME DirectivesAssumption ==
    /\ Shorts \in Nat \ {0} /\ Ints \in Nat /\ Shorts % 2 = 0 /\ Ints % 2 = 0
    /\ Shorts <= Ints
    /\ PointerDigits \in Nat /\ NullPage \in Nat
    /\ DOMAIN Memory \subseteq NullPage .. Ints - 1
    /\ \A a \in DOMAIN Memory : Memory[a] \in Seq(STRING)

None == -1      \* no field, or no precision
Star == -2      \* taken from the arguments

\* A word of so many values, read with a sign
Signed(word, values) == IF 2 * word >= values THEN word - values ELSE word
Larger(m, n) == IF m > n THEN m ELSE n
Repeat(c, n) == [i \in 1..n |-> c]
Blank == " "

Digit == <<"0", "1", "2", "3", "4", "5", "6", "7", "8", "9", "a", "b", "c", "d", "e", "f">>
Large == <<"0", "1", "2", "3", "4", "5", "6", "7", "8", "9", "A", "B", "C", "D", "E", "F">>

\* The character that a word stands for: one of sixteen here
Character(word) == Digit[(word % 16) + 1]

Numbers == {"o", "X", "x", "d", "u"}
AnyDirective ==
    [flags      : SUBSET {"left", "plus", "space", "special", "zeropad"},
     field      : Nat \cup {None, Star},
     precision  : Nat \cup {None, Star},
     qualifier  : {"", "h", "l", "L", "ll", "z"},
     conversion : Numbers \cup {"lit", "c", "s", "p", "n", "%", "?", "end"}]
BaseOf(d) == CASE d.conversion = "o" -> 8 [] d.conversion \in {"x", "X", "p"} -> 16 [] OTHER -> 10

\* How many words the stars of a directive take
Stars(d) == (IF d.field = Star THEN 1 ELSE 0) + (IF d.precision = Star THEN 1 ELSE 0)

\* How many words all of it takes
TakenBy(d) ==
    Stars(d) + IF d.conversion \in Numbers THEN IF d.qualifier \in {"L", "ll"} THEN 2 ELSE 1
               ELSE IF d.conversion \in {"c", "s", "p", "n"} THEN 1 ELSE 0

\* and how many the directives of a format up to the i-th take
TakenUpTo(format) ==
    LET Sum[i \in 0..Len(format)] == IF i = 0 THEN 0 ELSE Sum[i - 1] + TakenBy(format[i])
    IN Sum

\* A call passes the words that its format takes, strings where it says so, and
\* no field of INT_MIN, of which the code takes the negative
WellFormed(format, words) ==
    /\ format \in Seq(AnyDirective) /\ words \in Seq(0 .. Ints - 1)
    /\ \A i \in 1..Len(format) :
          /\ TakenUpTo(format)[i] <= Len(words)
          /\ format[i].field = Star => 2 * words[TakenUpTo(format)[i - 1] + 1] # Ints
          /\ format[i].conversion = "s" =>
                words[TakenUpTo(format)[i]] \in 0 .. NullPage - 1 \cup DOMAIN Memory

-----------------------------------------------------------------------------
\* The field and the precision that are asked for, with the stars' arguments
AskedField(d, words) ==
    IF d.field # Star THEN d.field
    ELSE LET w == Signed(words[1], Ints) IN IF w < 0 THEN -w ELSE w
AskedLeft(d, words) ==
    \/ "left" \in d.flags
    \/ d.field = Star /\ 2 * words[1] >= Ints
AskedPrecision(d, words) ==
    IF d.precision # Star THEN d.precision ELSE Larger(0, Signed(words[Stars(d)], Ints))

\* The number that is passed: of the qualifier's width, with a sign for %d
Meant(d, words) ==
    LET low == words[Stars(d) + 1]
        Of(word, values) == IF d.conversion = "d" THEN Signed(word, values) ELSE word
    IN IF d.conversion = "p" THEN low
       ELSE CASE d.qualifier \in {"L", "ll"} -> low + Of(words[Stars(d) + 2], Ints) * Ints
              [] d.qualifier = "h"           -> Of(low % Shorts, Shorts)
              [] d.qualifier = "z"           -> low
              [] OTHER                       -> Of(low, Ints)

\* The value of a digit, and of digits in base
ValueOf(c, digit) == CHOOSE v \in 0..15 : c = digit[v + 1]
Value(digits, base, digit) ==
    LET Sum[i \in 0..Len(digits)] ==
            IF i = 0 THEN 0 ELSE Sum[i - 1] * base + ValueOf(digits[i], digit)
    IN Sum[Len(digits)]

\* Digits read back; "9" in octal, or "A" for "a", is not a number
ReadsAs(digits, d, n) ==
    LET digit == IF d.conversion = "X" THEN Large ELSE Digit
    IN  /\ \A i \in 1..Len(digits) : \E v \in 0..(BaseOf(d) - 1) : digits[i] = digit[v + 1]
        /\ Value(digits, BaseOf(d), digit) = n

SignOf(d, n) ==
    IF d.conversion # "d" THEN <<>>
    ELSE IF n < 0 THEN <<"-">>
    ELSE IF "plus" \in d.flags THEN <<"+">>
    ELSE IF "space" \in d.flags THEN <<Blank>>
    ELSE <<>>
PrefixOf(d) ==
    IF "special" \notin d.flags THEN <<>>
    ELSE CASE d.conversion = "o"          -> <<"0">>
           [] d.conversion = "X"          -> <<"0", "X">>
           [] d.conversion \in {"x", "p"} -> <<"0", "x">>
           [] OTHER                       -> <<>>

\* text is inner, moved to its side of the field by blanks
Justified(text, inner, field, left) ==
    LET blanks == Repeat(Blank, field - Len(inner))
    IN text = (IF left THEN inner \o blanks ELSE blanks \o inner)

\* A number: the sign, the prefix and digits that mean it, at least as many as
\* the precision says; more zeros only to fill the field, and then no blanks
IsNumber(text, d, words) ==
    LET n     == Meant(d, words)
        front == SignOf(d, n) \o PrefixOf(d)
        left  == AskedLeft(d, words)
        short == d.conversion = "p" /\ AskedField(d, words) = None
        field == IF short THEN PointerDigits ELSE AskedField(d, words)
        zeros == ("zeropad" \in d.flags \/ short) /\ ~left
    IN \E i, j \in 1..Len(text) :
          LET digits == SubSeq(text, i, j)
          IN /\ ReadsAs(digits, d, IF n < 0 THEN -n ELSE n)
             /\ Len(digits) >= Larger(1, AskedPrecision(d, words))
             /\ digits[1] = "0" =>
                   \/ Len(digits) = Larger(1, AskedPrecision(d, words))
                   \/ zeros /\ Len(text) = field
             /\ Justified(text, front \o digits, field, left)
             /\ zeros => text = front \o digits

\* What the text of a directive has to be
Promised(text, d, words) ==
    LET field == AskedField(d, words)
        left  == AskedLeft(d, words)
        word  == words[Stars(d) + 1]
    IN CASE d.conversion = "lit" -> text = <<"t">>
         [] d.conversion = "%"   -> text = <<"%">>
         [] d.conversion = "?"   -> text = <<"%", "?">>
         [] d.conversion = "end" -> text = <<"%">>
         [] d.conversion = "n"   -> text = <<>>
         [] d.conversion = "c"   -> Justified(text, <<Character(word)>>, field, left)
         [] d.conversion = "s"   ->
               LET string == IF word < NullPage THEN <<"(", "N", "U", "L", "L", ")">> ELSE Memory[word]
                   p      == AskedPrecision(d, words)
               IN Justified(text, IF p \in 0..Len(string) THEN SubSeq(string, 1, p) ELSE string, field, left)
         [] OTHER -> IsNumber(text, d, words)
=============================================================================
