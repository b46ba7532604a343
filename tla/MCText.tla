------------------------------- MODULE MCText -------------------------------
(***************************************************************************)
(* Text for TLC: a call formats its arguments, a memory is worked on, or a *)
(* screen is written to.  An int has 8 bits and a pointer 16.              *)
(***************************************************************************)
EXTENDS Printf, TLC

CONSTANTS Size, Byte,
          VGA_TEXTDISP_WIDTH, VGA_TEXTDISP_HEIGHT, Letter, Colour, blank, MaxWrites

VARIABLES kind,  \* what is at work
          mem, buffer, offset, colour, writes

B == INSTANCE Bytes
V == INSTANCE Vga WITH Char <- Letter

screen == <<buffer, offset, colour, writes>>

\* Directives that are whole, padded, precise, long, unknown and cut off.
Directives == {<<"%">> \o f \o w \o p \o s :
                 f \in {<< >>, <<"0">>, <<"-">>, <<" ">>}, w \in {<< >>, <<"6">>}, p \in {<< >>, <<".", "4">>},
                 s \in {<<"d">>, <<"o">>, <<"l", "x">>, <<"u">>, <<"f">>, <<"c">>, <<"s">>, <<"p">>,
                        <<"l", "l", "u">>, <<"l", "l", "l", "u">>, <<"l", "l", "d">>, <<"%">>, << >>}}
MCFormats == {<<"a">> \o d \o <<"\n">> : d \in Directives} \cup {<<"%", "d">> \o d : d \in Directives}
MCWords == {0, 7, 8, 100, 127, 128, 129, 200, 255, 256, 4096, 43981, 65535}
MCStrings == {<< >>, <<"s">>, <<"s", "t">>}

FormatIdle == fmt = <<"%", "d", "%", "s">> /\ sink = "vsprintf"
ScreenIdle == \A o \in DOMAIN buffer : buffer[o] = blank

\* Colours are copied, never compared.
ColourSymmetry == Permutations(Colour)

TextInit == /\ kind \in {"format", "memory", "screen"}
            /\ Init /\ B!Init /\ V!Init
            /\ kind = "format" \/ FormatIdle
            /\ kind = "screen" \/ ScreenIdle

TextNext == /\ UNCHANGED kind
            /\ \/ kind = "format" /\ Next /\ UNCHANGED <<mem, screen>>
               \/ kind = "memory" /\ B!Next /\ UNCHANGED <<vars, screen>>
               \/ kind = "screen" /\ V!Next /\ UNCHANGED <<vars, mem>>

TextSpec == TextInit /\ [][TextNext]_<<kind, vars, mem, screen>>

\* The memory and string functions of lib/freestdc/src/string.c do what their names say,
\* within the limits that Bytes names.
LibraryAgrees == kind = "memory" => B!MemoryAgrees /\ B!StringsAgree

\* The screen is a terminal (vga.cc:61-97, 380-386): offsets and copies move
\* characters and cursor as lines and columns promise.
ImplementsTerminal == V!ImplementsTerminal
=============================================================================
