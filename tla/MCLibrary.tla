------------------------------ MODULE MCLibrary ------------------------------
(***************************************************************************)
(* The code that every program or every part of the kernel calls: malloc   *)
(* of the C library (UserHeap), the kernel's vsnprintf (Format), which the *)
(* C library has again, the serial console's (SerialFormat), and the       *)
(* parser of configuration files with the init service (Ini).  They share  *)
(* no variable; a behaviour is one of them, the others at rest.            *)
(***************************************************************************)
EXTENDS UserHeap, Format

VARIABLES part,                              \* "heap", "kernel", "console", "init"
          cformat, cwords, cat, cnext, cbegins, text, cphase, sent, ready, port, \* of SerialFormat
          file, buffer, st_size, p_buffer, line, section, prev_name, i_line, result,
          started, stage                                                         \* of Ini

-----------------------------------------------------------------------------
(* The user heap: pages of eight bytes, headers and words of two, requests *)
(* that fill a page with their header exactly, that leave a rest, and that *)
(* cross one; up to four pages, so that blocks are split and reused in     *)
(* every order.  Values in the configuration.                              *)

(* Formats: shorts of 4 bits, ints of 8 and long longs of 16; strings of   *)
(* none and of three characters.  Every set of flags with and without a    *)
(* field and a precision; every qualifier; stars with either sign; each    *)
(* alone and between two characters, two directives in a row, and formats  *)
(* that end inside a directive.  Texts shorter and longer than the buffer, *)
(* and exactly as long.                                                    *)
Strings == [a \in {20, 21} |-> IF a = 20 THEN <<>> ELSE <<"s", "t", "r">>]
SmallBuffers == {-1, 0, 3, 20}

D(flags, field, precision, qualifier, conversion) ==
    [flags : flags, field : field, precision : precision, qualifier : qualifier, conversion : conversion]
Flags == {"left", "plus", "space", "special", "zeropad"}
Few == {{}, {"left"}, {"zeropad"}, {"special"}}

Plain     == D(SUBSET Flags, {None, 5}, {None, 2}, {""}, Numbers)
Qualified == D({{}, {"special"}, {"plus"}, {"zeropad"}}, {None, 6}, {None}, {"h", "l", "L", "ll", "z"}, Numbers)
Starred   == D({{}, {"left"}, {"zeropad"}}, {None, Star}, {None, Star}, {""}, {"d", "x", "s", "c"})
Texts     == D(Few, {None, 5}, {None, 0, 2}, {""}, {"c", "s", "p"})
Others    == D({{}}, {None}, {None}, {""}, {"%", "?", "n"})
Lit       == [flags |-> {}, field |-> None, precision |-> None, qualifier |-> "", conversion |-> "lit"]
End       == [Lit EXCEPT !.conversion = "end"]
Wide      == [Lit EXCEPT !.conversion = "d", !.field = 10]

\* The arguments of a directive
Stack(d, strings, longs, numbers) ==
    LET star == {<<4>>, <<252>>}
        one  == CASE d.conversion = "s" -> strings
                  [] d.conversion \in {"%", "?", "end", "lit"} -> {<<>>}
                  [] d.qualifier \in {"L", "ll"} -> longs
                  [] OTHER -> numbers
    IN  IF d.field = Star /\ d.precision = Star
        THEN {f \o q \o v : f \in star, q \in star, v \in one}
        ELSE IF d.field = Star \/ d.precision = Star THEN {f \o v : f \in star, v \in one} ELSE one
KernelStack(d) == Stack(d, {<<9>>, <<20>>, <<21>>}, {<<0, 0>>, <<9, 3>>, <<1, 255>>},
                        {<<0>>, <<5>>, <<29>>, <<200>>})
ConsoleStack(d) == Stack(d, {<<20>>, <<21>>}, {<<9, 3>>, <<1, 255>>}, {<<0>>, <<29>>, <<200>>})

Some == {Lit, [Lit EXCEPT !.conversion = "n"], [Lit EXCEPT !.conversion = "d", !.qualifier = "ll"],
         [Lit EXCEPT !.conversion = "x", !.field = Star], [Lit EXCEPT !.conversion = "s"],
         [Lit EXCEPT !.conversion = "%"], End}

KernelCalls ==
    UNION { UNION {{[format |-> <<d>>, words |-> w], [format |-> <<Lit, d, Lit>>, words |-> w]}
                   : w \in KernelStack(d)} : d \in Plain \cup Qualified \cup Starred \cup Texts \cup Others }
    \cup UNION { {[format |-> <<d, e>>, words |-> v \o w] : v \in KernelStack(d), w \in KernelStack(e)}
                 : d \in Some \ {End}, e \in Some }

(* For the console fewer of them, into a buffer of 12: texts that fit, and *)
(* two that pass its end.                                                  *)
ConsoleCalls ==
    UNION { {[format |-> <<Lit, d>>, words |-> w] : w \in ConsoleStack(d)}
            : d \in {e \in Plain : e.field = 5 \/ (e.flags \in Few /\ e.precision = None)}
                    \cup {e \in Qualified : e.flags \in {{}, {"plus"}} /\ e.field = None}
                    \cup Starred \cup Texts \cup Others \cup {End} }
    \cup { [format |-> <<Wide, d>>, words |-> <<200>> \o w] :
           d \in {Wide, [Lit EXCEPT !.conversion = "X"]}, w \in {<<5>>, <<200>>} }
    \cup { [format |-> <<[Wide EXCEPT !.field = 11], Lit>>, words |-> <<5>>] }
BufferSize == 12

(* Files of up to three lines of twelve kinds: sections and entries, with  *)
(* blanks, comments and carriage returns around them, lines that continue  *)
(* an entry, notes, blank and malformed lines, and a line of twelve        *)
(* characters, as long as a line may be.  Sizes with every remainder by 4, *)
(* and first a zero, a line feed or something else in the memory behind.   *)
L(kind, indent, name, value, rest) ==
    [kind |-> kind, indent |-> indent, name |-> name, value |-> value, rest |-> rest]
Lines ==
    { L("section", <<>>, <<"a">>, <<>>, <<>>),
      L("section", <<"bom">>, <<"b">>, <<>>, <<" ">>),
      L("section", <<>>, <<"a", "b">>, <<>>, <<"cr">>),
      L("entry", <<>>, <<"a">>, <<"b">>, <<>>),
      L("entry", <<>>, <<"c">>, <<"a", ";", "b">>, <<" ", ";", "=">>),
      L("entry", <<>>, <<"b">>, <<"c", " ", "c">>, <<" ", "cr">>),
      L("more", <<>>, <<>>, <<"c", "b">>, <<>>),
      L("note", <<" ">>, <<>>, <<>>, <<"a", "=">>),
      L("blank", <<" ", "cr">>, <<>>, <<>>, <<>>),
      L("blank", <<>>, <<>>, <<>>, <<>>),
      L("bad", <<>>, <<"a", "b">>, <<>>, <<>>),
      L("entry", <<>>, <<"a">>, <<"b", "b", "b", "b", "b", "b", "b", "b", "b">>, <<>>) }
Memories == {<<"nul", "junk", "lf">>, <<"lf", "nul", "nul">>, <<"junk", "lf", "nul">>}
\* A byte order mark stands at the beginning of a file only.
IniFiles ==
    [lines : {ls \in UNION {[1..n -> Lines] : n \in 0..3} :
                \A k \in DOMAIN ls : k > 1 => ls[k].indent # <<"bom">>},
     closed : BOOLEAN]

Console == INSTANCE SerialFormat WITH Calls <- ConsoleCalls,
               format <- cformat, words <- cwords, at <- cat, next <- cnext, begins <- cbegins,
               buffer <- text, phase <- cphase, i <- sent
Service == INSTANCE Ini WITH Files <- IniFiles, LineMax <- 12, NameMax <- 2, Stale <- Memories,
               size <- st_size, phase <- stage

-----------------------------------------------------------------------------
console == <<cformat, cwords, cat, cnext, cbegins, text, cphase, sent, ready, port>>
service == <<file, buffer, st_size, p_buffer, line, section, prev_name, i_line, result, started, stage>>
all == <<part, vars, textVars, console, service>>

KernelRests ==
    /\ size = 0 /\ format = <<>> /\ words = <<>> /\ at = 1 /\ next = 1 /\ begins = <<>>
    /\ out = <<>> /\ str = <<>> /\ told = <<>> /\ phase = "scan" /\ length = 0
ConsoleRests ==
    /\ cformat = <<>> /\ cwords = <<>> /\ cat = 1 /\ cnext = 1 /\ cbegins = <<>>
    /\ text = <<>> /\ cphase = "idle" /\ sent = 0 /\ ready = TRUE /\ port = <<>>
ServiceRests ==
    /\ file = [lines |-> <<>>, closed |-> TRUE] /\ buffer = <<>> /\ st_size = 0
    /\ p_buffer = 0 /\ line = <<>> /\ section = <<>> /\ prev_name = <<>>
    /\ i_line = 0 /\ result = 0 /\ started = <<>> /\ stage = "exited"

LibraryInit ==
    /\ part \in {"heap", "kernel", "console", "init"}
    /\ Init
    /\ IF part = "kernel" THEN TextInit ELSE KernelRests
    /\ IF part = "console" THEN Console!Init ELSE ConsoleRests
    /\ IF part = "init" THEN Service!Init ELSE ServiceRests

HeapStep == part = "heap" /\ Next /\ UNCHANGED <<part, textVars, console, service>>
KernelStep == part = "kernel" /\ TextNext /\ UNCHANGED <<part, vars, console, service>>
NotConsole == UNCHANGED <<part, vars, textVars, service>>
ConsoleStep == part = "console" /\ Console!Kprintf /\ NotConsole
PortStep == part = "console" /\ Console!PortReady /\ NotConsole
ServiceStep == part = "init" /\ Service!Next /\ UNCHANGED <<part, vars, textVars, console>>

LibraryNext == HeapStep \/ KernelStep \/ ConsoleStep \/ PortStep \/ ServiceStep

\* The fairness of the parts.
LibrarySpec ==
    /\ LibraryInit /\ [][LibraryNext]_all
    /\ WF_all(ConsoleStep) /\ WF_all(PortStep) /\ WF_all(ServiceStep)

-----------------------------------------------------------------------------
\* The properties of the parts, under one roof: the texts of the two formatters,
\* and the services that are started.
ConsolePrints == Console!ConsolePrints
=============================================================================
