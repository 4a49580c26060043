--------------------------------- MODULE Ini ---------------------------------
(***************************************************************************)
(* libs/core/ini.c, the parser of the configuration, with the handler of   *)
(* services/system/main.c that starts a service for every entry: one       *)
(* action per turn of ini_parse's loop.                                    *)
(*                                                                         *)
(* A character is what the parser tells apart: its special characters, a   *)
(* blank, the line ends, the byte order mark (three characters in the      *)
(* code, one here) and letters.  Behind the file, which is read into a     *)
(* block of just its size, come the bytes that malloc rounds the size up   *)
(* with, which nobody clears: calloc clears the size it was asked for, and *)
(* mmap and brk hand out frames as they are.  Behind them is the header of *)
(* the next block.                                                         *)
(***************************************************************************)
EXTENDS IniFile

CONSTANTS Files,    \* what /etc/system.ini may hold: its lines, and whether the
                    \* last one has a line feed
          LineMax,  \* INI_LINE_MAX: 200
          NameMax,  \* INI_NAME_MAX - 1 and INI_SECTION_MAX - 1: 49
          Stale     \* what three bytes of memory may hold that nobody has cleared

VARIABLES
    file,      \* what was written there
    buffer,    \* the file and what follows it
    size,      \* stat.st_size
    p_buffer,  \* characters consumed
    line,      \* as a string
    section, prev_name,
    i_line, result,
    started,   \* what the handler was called with
    phase      \* "open", "parse", "line", "done", "exited", "wild"
vars == <<file, buffer, size, p_buffer, line, section, prev_name, i_line, result, started, phase>>

Space == {" ", "cr", "lf"}
Char == Space \cup {"[", "]", "=", ":", ";", "#", "bom", "a", "b", "c", "nul", "junk"}

TypeOK ==
    /\ \A i \in DOMAIN buffer : buffer[i] \in Char
    /\ size \in 0..Len(buffer) /\ p_buffer \in Nat
    /\ Len(section) <= NameMax /\ Len(prev_name) <= NameMax
    /\ i_line \in Nat /\ result \in 0..i_line
    /\ \A i \in DOMAIN started : \A j \in DOMAIN started[i].value :
          started[i].value[j] \notin {"nul", "lf"}
    /\ phase \in {"open", "parse", "line", "done", "exited", "wild"}

-----------------------------------------------------------------------------
\* ini_strip and ini_skip: without the blanks at the end, at the beginning
Stripped(s) ==
    SubSeq(s, 1, CHOOSE n \in 0..Len(s) : (n = 0 \/ s[n] \notin Space)
                     /\ \A i \in (n + 1)..Len(s) : s[i] \in Space)
Skipped(s) ==
    SubSeq(s, CHOOSE n \in 1..(Len(s) + 1) : (n > Len(s) \/ s[n] \notin Space)
                     /\ \A i \in 1..(n - 1) : s[i] \in Space, Len(s))


\* ini_find: where the first of chars is, or a comment behind a blank, or the end
Find(s, chars) ==
    LET stops == {i \in DOMAIN s : \/ s[i] \in chars
                                   \/ i > 1 /\ s[i - 1] \in Space /\ s[i] = ";"}
    IN IF stops = {} THEN Len(s) + 1 ELSE CHOOSE i \in stops : \A j \in stops : i <= j

\* The characters that ini_line_get copies, of those it takes
Cut(s) == SelectSeq(s, LAMBDA c : c # "cr")

\* How many characters ini_line_get takes: up to the line feed, or all it may
Consumed ==
    LET ends == {i \in 1..LineMax : p_buffer + i <= Len(buffer) /\ buffer[p_buffer + i] = "lf"}
    IN IF ends = {} THEN LineMax ELSE CHOOSE i \in ends : \A j \in ends : i <= j

\* The line as a string, which ends at its first NUL
NextLine ==
    LET to    == p_buffer + Consumed
        from  == SubSeq(buffer, p_buffer + 1, IF to > Len(buffer) THEN Len(buffer) ELSE to)
        whole == Cut(IF from # <<>> /\ from[Len(from)] = "lf" THEN SubSeq(from, 1, Len(from) - 1) ELSE from)
        nuls  == {i \in DOMAIN whole : whole[i] = "nul"}
    IN IF nuls = {} THEN whole
       ELSE SubSeq(whole, 1, (CHOOSE i \in nuls : \A j \in nuls : i <= j) - 1)

\* No NUL behind the line: ini_strip would look for one in other memory
Unterminated ==
    /\ Consumed = LineMax /\ p_buffer + LineMax <= Len(buffer)
    /\ \A i \in 1..LineMax : buffer[p_buffer + i] \notin {"lf", "cr", "nul"}

\* strncpy into section or prev_name
Copied(s) == IF Len(s) > NameMax THEN SubSeq(s, 1, NameMax) ELSE s

-----------------------------------------------------------------------------
\* The bytes malloc adds to a size: whatever was in the memory
Added(n) == {SubSeq(s, 1, (4 - (n % 4)) % 4) : s \in Stale}
Init ==
    /\ file \in Files
    /\ \E f \in {Spelled(file.lines, file.closed)} : \E added \in Added(Len(f)) :
          /\ size = Len(f)
          /\ buffer = f \o added \o <<"junk", "nul">>
    /\ p_buffer = 0 /\ line = <<>> /\ section = <<>> /\ prev_name = <<>>
    /\ i_line = 0 /\ result = 0 /\ started = <<>>
    /\ phase = "open"

\* ini_open: a missing file, a failed fstat, calloc or read ends the service
Open ==
    /\ phase = "open"
    /\ phase' \in (IF size = 0 THEN {} ELSE {"parse"}) \cup {"exited"}
    /\ UNCHANGED <<file, buffer, size, p_buffer, line, section, prev_name, i_line, result, started>>

\* ini_line_get; an empty line is not counted
GetLine ==
    /\ phase = "parse"
    /\ p_buffer < size /\ buffer[p_buffer + 1] # "nul" /\ ~Unterminated
    /\ \E l \in {NextLine} :
          /\ line' = l
          /\ p_buffer' = p_buffer + Consumed
          /\ i_line' = IF l = <<>> THEN i_line ELSE i_line + 1
          /\ phase' = IF l = <<>> THEN "parse" ELSE "line"
    /\ UNCHANGED <<file, buffer, size, section, prev_name, result, started>>

\* start, behind the byte order mark, the strip and the skip
Text ==
    LET start == IF i_line = 1 /\ line[1] = "bom" THEN Tail(line) ELSE line
    IN Skipped(Stripped(start))

\* What is done with a line
Indented == line[1] \in Space \cup (IF i_line = 1 THEN {"bom"} ELSE {})
Comment(start) == IF start = <<>> THEN TRUE ELSE start[1] \in {";", "#"}
Continued == prev_name # <<>> /\ Indented
Handle(A(_)) ==
    /\ phase = "line" /\ phase' = "parse" /\ line' = <<>>
    /\ \E start \in {Text} : A(start)
    /\ UNCHANGED <<file, buffer, size, p_buffer, i_line>>

Commented ==
    /\ Handle(Comment)
    /\ UNCHANGED <<section, prev_name, result, started>>

\* system_ini_handler forks; the child becomes the service or stops the
\* machine, so that only the parent comes back, with INI_SUCCESS, which is 0
Handler(name, value) ==
    /\ started' = Append(started, [section |-> section, name |-> name, value |-> value])
    /\ result' = IF result = 0 THEN i_line ELSE result

More(start) ==
    /\ ~Comment(start) /\ Continued
    /\ Handler(prev_name, start)
Continuation == Handle(More) /\ UNCHANGED <<section, prev_name>>

\* "]" or, of an entry, "=" or ":", before a comment and the end
Marked(text, marks) == LET end == Find(text, marks) IN end <= Len(text) /\ text[end] \in marks
Before(text, marks) == SubSeq(text, 1, Find(text, marks) - 1)
Behind(text, marks) == SubSeq(text, Find(text, marks) + 1, Len(text))

Named(start) ==
    /\ ~Comment(start) /\ ~Continued /\ start[1] = "["
    /\ Marked(Tail(start), {"]"})
    /\ section' = Copied(Before(Tail(start), {"]"}))
    /\ prev_name' = <<>>
Section == Handle(Named) /\ UNCHANGED <<result, started>>

Assigned(start) ==
    /\ ~Comment(start) /\ ~Continued /\ start[1] # "["
    /\ Marked(start, {"=", ":"})
    /\ \E name \in {Stripped(Before(start, {"=", ":"}))},
          after \in {Behind(start, {"=", ":"})} :
          /\ prev_name' = Copied(name)
          /\ Handler(name, Stripped(Skipped(Before(after, {}))))
Entry == Handle(Assigned) /\ UNCHANGED section

\* No "]", or neither "=" nor ":"
Unmarked(start) ==
    /\ ~Comment(start) /\ ~Continued
    /\ IF start[1] = "[" THEN ~Marked(Tail(start), {"]"}) ELSE ~Marked(start, {"=", ":"})
Malformed ==
    /\ Handle(Unmarked)
    /\ result' = IF result = 0 THEN i_line ELSE result
    /\ UNCHANGED <<section, prev_name, started>>

End ==
    /\ phase = "parse"
    /\ p_buffer < Len(buffer) /\ buffer[p_buffer + 1] = "nul"
    /\ phase' = "done"
    /\ UNCHANGED <<file, buffer, size, p_buffer, line, section, prev_name, i_line, result, started>>

\* Behind the file there is something, or nothing is known; or a line fills
\* the buffer of lines
Overrun ==
    /\ phase = "parse"
    /\ IF p_buffer < size THEN Unterminated
       ELSE p_buffer < Len(buffer) => buffer[p_buffer + 1] # "nul"
    /\ phase' = "wild"
    /\ UNCHANGED <<file, buffer, size, p_buffer, line, section, prev_name, i_line, result, started>>

Next == Open \/ GetLine \/ Commented \/ Continuation \/ Section \/ Entry \/ Malformed \/ End \/ Overrun

Spec == Init /\ [][Next]_vars /\ WF_vars(Next)

-----------------------------------------------------------------------------
(* Every entry of the file starts its service, in the order of the file,     *)
(* however its line is written, and if the parser comes to an end, nothing   *)
(* else is started.  Of a file whose last line has no line feed, the entry   *)
(* in it may have more in its value than the file says.                      *)
StartsServices ==
    LET whole == Entries(file.lines)
        sure  == IF file.closed THEN whole ELSE Entries(SubSeq(file.lines, 1, Len(file.lines) - 1))
    IN /\ phase = "done" /\ file.closed => started = whole
       /\ p_buffer >= size /\ phase \in {"parse", "done", "wild"} => SubSeq(started, 1, Len(sure)) = sure

(* The parser leaves the file's memory only when nothing ends the file in    *)
(* it: no line feed behind the last line, or a byte behind the file that     *)
(* happens not to be zero (of a size that malloc does not round up, it is    *)
(* the next header's), or a line that is too long.                           *)
LeavesFileRarely ==
    phase = "wild" => \/ ~file.closed \/ buffer[size + 1] # "nul"
                      \/ \E i \in DOMAIN file.lines : Len(Written(file.lines[i])) >= LineMax

(* The parser comes to an end on every file.                                 *)
ParseEnds == <>(phase \in {"done", "exited", "wild"})

=============================================================================
