----------------------------- MODULE FormatText -----------------------------
(***************************************************************************)
(* The text that vsnprintf of kernel/utils/stdio.c makes of a directive,   *)
(* from the words of its arguments.                                        *)
(***************************************************************************)
EXTENDS Directives

\* faulty: a negative field is not moved to the left
ReadStarsRight(d, words) ==
    [field |-> AskedField(d, words), precision |-> AskedPrecision(d, words), flags |-> d.flags]

\* The field and the precision, given or taken from the arguments, and the
\* flags, as the scan of the directive leaves them
ReadStars(d, words) ==
    LET w == Signed(words[1], Ints)
        p == Signed(words[Stars(d)], Ints)
    IN [field     |-> IF d.field # Star THEN d.field ELSE IF w < 0 THEN -w ELSE w,
        flags     |-> d.flags \cup (IF d.field = Star /\ w < 0 THEN {"left"} ELSE {}),
        precision |-> IF d.precision # Star THEN d.precision ELSE IF p < 0 THEN 0 ELSE p]

\* The argument of a number, as an unsigned long long
Number(d, words) ==
    LET low    == words[Stars(d) + 1]
        sign   == d.conversion = "d"
        Widened(word, values) == (IF sign THEN Signed(word, values) ELSE word) % LongLongs
    IN CASE d.qualifier \in {"L", "ll"} -> low + words[Stars(d) + 2] * Ints
         [] d.qualifier = "z"           -> low
         [] d.qualifier = "h"           -> Widened(low % Shorts, Shorts)
         [] OTHER                       -> Widened(low, Ints)

\* The digits of a number in base, the most significant first
Tmp(base, digit) ==
    LET tmp[n \in Nat] == IF n < base THEN <<digit[n + 1]>>
                          ELSE Append(tmp[n \div base], digit[(n % base) + 1])
    IN tmp
Digits(n, base, digit) == Tmp(base, digit)[n]

\* The zeros that the precision asks for, and the field: blanks on its side, or
\* zeros behind what stands in front
Filled(digits, precision) == Repeat("0", precision - Len(digits)) \o digits
Laid(front, digits, field, flags) ==
    LET rest == field - Len(front \o digits)
    IN IF "left" \in flags THEN front \o digits \o Repeat(Blank, rest)
       ELSE IF "zeropad" \in flags THEN front \o Repeat("0", rest) \o digits
       ELSE Repeat(Blank, rest) \o (front \o digits)

\* vsnprintf_number: the sign, the prefix and the digits in their field
Formatted(n, base, field, precision, flags) ==
    LET negative == "sign" \in flags /\ 2 * n >= LongLongs
        digit    == IF "large" \in flags THEN Large ELSE Digit
        digits   == Digits(IF negative THEN LongLongs - n ELSE n, base, digit)
        sign     == IF negative THEN <<"-">>
                    ELSE IF "sign" \notin flags THEN <<>>
                    ELSE IF "plus" \in flags THEN <<"+">>
                    ELSE IF "space" \in flags THEN <<Blank>>
                    ELSE <<>>
        prefix   == IF "special" \notin flags THEN <<>>
                    ELSE CASE base = 16 -> <<"0", IF "large" \in flags THEN "X" ELSE "x">>
                           [] base = 8  -> <<"0">>
                           [] OTHER     -> <<>>
    IN Laid(sign \o prefix, Filled(digits, precision), field, flags)

\* Text and the blanks of its field
InField(text, field, flags) ==
    LET blanks == Repeat(Blank, field - Len(text))
    IN IF "left" \in flags THEN text \o blanks ELSE blanks \o text

\* The string of %s: as many characters as the precision allows
String(address, precision) ==
    LET string == IF address < NullPage THEN <<"(", "N", "U", "L", "L", ")">> ELSE Memory[address]
    IN IF precision = None \/ precision > Len(string) THEN string
       ELSE SubSeq(string, 1, precision)

\* %p without a field is as wide as a pointer, with zeros
Pointer(word, field, precision, flags) ==
    IF field = None THEN Formatted(word, 16, PointerDigits, precision, flags \cup {"zeropad"})
    ELSE Formatted(word, 16, field, precision, flags)

\* The switch over the conversion
Text(d, words) ==
    LET r    == ReadStars(d, words)
        word == words[Stars(d) + 1]
    IN CASE d.conversion = "c" -> InField(<<Character(word)>>, r.field, r.flags)
         [] d.conversion = "s" -> InField(String(word, r.precision), r.field, r.flags)
         [] d.conversion = "p" -> Pointer(word, r.field, r.precision, r.flags)
         [] d.conversion = "%" -> <<"%">>
         [] d.conversion = "d" -> Formatted(Number(d, words), 10, r.field, r.precision, r.flags \cup {"sign"})
         [] d.conversion = "X" -> Formatted(Number(d, words), 16, r.field, r.precision, r.flags \cup {"large"})
         [] OTHER -> Formatted(Number(d, words), BaseOf(d), r.field, r.precision, r.flags)
=============================================================================
