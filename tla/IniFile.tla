------------------------------ MODULE IniFile ------------------------------
(***************************************************************************)
(* What a configuration file says, line by line, and how it is written:    *)
(* base/etc/system.ini, and the lines that libs/core/ini.c has a branch    *)
(* for.  A line that begins with a blank continues the entry above it.     *)
(***************************************************************************)
EXTENDS Integers, Sequences

Written(l) ==
    CASE l.kind = "section" -> l.indent \o <<"[">> \o l.name \o <<"]">> \o l.rest
      [] l.kind = "entry"   -> l.indent \o l.name \o <<" ", "=">> \o l.value \o l.rest
      [] l.kind = "more"    -> <<" ">> \o l.value
      [] l.kind = "note"    -> l.indent \o <<"#">> \o l.rest
      [] l.kind = "blank"   -> l.indent
      [] l.kind = "bad"     -> l.name

\* The file; the last line may lack its line feed
Spelled(lines, closed) ==
    LET To[n \in 0..Len(lines)] ==
            IF n = 0 THEN <<>>
            ELSE To[n - 1] \o Written(lines[n]) \o (IF n < Len(lines) \/ closed THEN <<"lf">> ELSE <<>>)
    IN To[Len(lines)]

\* What stands in it: the entries with their sections, in order
Entries(lines) ==
    LET After[n \in 0..Len(lines)] ==
            IF n = 0 THEN [section |-> <<>>, name |-> <<>>, entries |-> <<>>]
            ELSE LET s == After[n - 1]
                     l == lines[n]
                     With(name) == [s EXCEPT !.name = name,
                         !.entries = Append(@, [section |-> s.section, name |-> name, value |-> l.value])]
                 IN CASE l.kind = "section"                  -> [s EXCEPT !.section = l.name, !.name = <<>>]
                      [] l.kind = "entry"                    -> With(l.name)
                      [] l.kind = "more" /\ s.name # <<>>    -> With(s.name)
                      [] OTHER                               -> s
    IN After[Len(lines)].entries
=============================================================================
