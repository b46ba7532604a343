------------------------------- MODULE Printf -------------------------------
(***************************************************************************)
(* Formatted output: the directive parser and the digits of lib/freestdc   *)
(* (src/common/format.c, mathex.c) and the three copies of the loop over   *)
(* a format, into a buffer (vsprintf), to the kernel log (do_vprintf) and  *)
(* to the screen (vga_vprintf).  A character is a string of length one.    *)
(***************************************************************************)
EXTENDS Integers, Sequences, SequencesExt, FiniteSetsExt

CONSTANTS INT_BITS,  \* width of an int; a pointer has twice as many bits
          Formats,   \* the formats of the calls
          Words,     \* arguments that are numbers, as the bits of a pointer
          Strings    \* arguments that are strings

ASSUME WidthAssumption == INT_BITS \in Nat \ {0} /\ INT_BITS % 4 = 0

VARIABLES sink,      \* "vsprintf", "do_vprintf" or "vga_vprintf"
          fmt, i,    \* the format and the place in it
          text,      \* what is printed
          len,       \* printed_len, len_printed
          pc,        \* "loop", "done", "invalid" or "fault"
          last       \* the directive that was printed last, and its argument

vars == <<sink, fmt, i, text, len, pc, last>>

Sinks == {"vsprintf", "do_vprintf", "vga_vprintf"}
None == [spec |-> "", width |-> 0, precision |-> 0, n |-> 0]

Init == /\ sink \in Sinks /\ fmt \in Formats
        /\ i = 1 /\ text = << >> /\ len = 0 /\ pc = "loop"
        /\ last = [info |-> None, arg |-> 0, text |-> << >>, len |-> 0]

-----------------------------------------------------------------------------
\* Numbers.  Division and remainder truncate, and negation of the least int
\* leaves it as it is.
INT_MOD == 2 ^ INT_BITS
Signed(w) == LET u == w % INT_MOD IN IF u < INT_MOD \div 2 THEN u ELSE u - INT_MOD
Negated(x) == IF x = - (INT_MOD \div 2) THEN x ELSE - x
Quotient(x, d) == IF x < 0 THEN - ((- x) \div d) ELSE x \div d
Remainder(x, d) == x - d * Quotient(x, d)

\* How many digits x has in the base, 1 for 0.
digcount(x, base) ==
    Max({1} \cup {n \in 1 .. (2 * INT_BITS) \div 3 + 1 : Quotient(x, base ^ (n - 1)) # 0})

\* The n-th digit from the right, -1 when there is none.
getdigit(x, n) ==
    IF n > digcount(x, 10) \/ n < 1 THEN -1
    ELSE Remainder(Quotient(IF x < 0 THEN Negated(x) ELSE x, 10 ^ (n - 1)), 10)

getudigit(x, n, base) ==
    IF n > digcount(x, base) \/ n < 1 THEN -1 ELSE (x \div base ^ (n - 1)) % base

\* The character '0' + d, or 'a' + d - 10.
Glyph(d) == <<"(", ")", "*", "+", ",", "-", ".", "/", "0", "1", "2", "3", "4", "5", "6", "7",
             "8", "9", "a", "b", "c", "d", "e", "f">>[d + 9]

\* What the digits from the right look like.
Digits(digits) == [k \in DOMAIN digits |-> Glyph(digits[Len(digits) + 1 - k])]

-----------------------------------------------------------------------------
\* fmtctl_parse.  Behind the end of the format is its terminator.
At(k) == IF k <= Len(fmt) THEN fmt[k] ELSE "nul"
Numerals == <<"0", "1", "2", "3", "4", "5", "6", "7", "8", "9">>

\* The place behind the numerals that start at k, and the number they make.
Behind(k) == Min({j \in k .. Len(fmt) + 1 : At(j) \notin Range(Numerals)})
Number(k) == FoldLeft(LAMBDA x, c : 10 * x + IndexFirstSubSeq(<<c>>, Numerals) - 1, 0,
                      SubSeq(fmt, k, Behind(k) - 1))

\* A blank is not taken as a flag.
BehindFlag(k) == IF At(k) \in {"-", "+", "#", "0"} THEN k + 1 ELSE k

BehindPrecision(k) == IF At(k) = "." THEN Behind(k + 1) ELSE k
Precision(k) == IF At(k) = "." THEN Number(k + 1) ELSE 0

BehindLength(k) == IF At(k) \in {"h", "l", "L"} THEN k + 1 ELSE k

\* The specifier at k and the length of the directive from i on; length 0 when
\* it is none.  What starts with a second l ends up as a string, and the u of a third is left.
Specifier(k) ==
    CASE At(k) \in {"d", "o", "u", "f", "c", "s", "p"} -> [spec |-> At(k), n |-> k + 1 - i]
      [] At(k) \in {"x", "X"} -> [spec |-> "x", n |-> k + 1 - i]
      [] At(k) \in {"e", "E", "g", "G"} -> [spec |-> "f", n |-> k + 1 - i]
      [] At(k) = "l" /\ (At(k + 1) = "u" \/ (At(k + 1) = "l" /\ At(k + 2) = "u"))
            -> [spec |-> "s", n |-> k + 2 - i]
      [] OTHER -> [spec |-> "", n |-> 0]

fmtctl_parse(flagged, widened, sized) ==
    LET s == Specifier(sized)
    IN  [spec |-> s.spec, n |-> s.n, width |-> Number(flagged), precision |-> Precision(widened)]

Info == LET flagged == BehindFlag(i + 1)
        IN  fmtctl_parse(flagged, Behind(flagged), BehindLength(BehindPrecision(Behind(flagged))))

-----------------------------------------------------------------------------
\* What a directive prints.
Rep(c, n) == [k \in 1 .. n |-> c]
Printed(t) == [text |-> t, len |-> Len(t)]

Padded(info, digits) ==
    LET p == Max({info.precision, Len(digits)})
    IN  Rep(" ", info.width - p) \o Rep("0", p - Len(digits)) \o digits

\* Mutant: the digits of a negative number are not turned into positive ones.
NegativeDigits(info, x) ==
    <<"-">> \o Digits([n \in 1 .. digcount(x, 10) |-> Remainder(Quotient(x, 10 ^ (n - 1)), 10)])

\* The sign comes first, then blanks, and one zero less than the precision.
Negative(info, x) ==
    LET digits == Digits([n \in 1 .. digcount(x, 10) |-> getdigit(x, n)])
        p == Max({info.precision, Len(digits)})
    IN  <<"-">> \o Rep(" ", info.width - p - 1) \o Rep("0", p - Len(digits) - 1) \o digits

Zeros(info) == Rep(" ", info.width - info.precision) \o Rep("0", info.precision)

Decimal(info, x) ==
    IF x < 0 THEN Negative(info, x) ELSE Padded(info, Digits([n \in 1 .. digcount(x, 10) |-> getdigit(x, n)]))

Unsigned(info, x, base) == Padded(info, Digits([n \in 1 .. digcount(x, base) |-> getudigit(x, n, base)]))

Base(spec) == CASE spec = "o" -> 8 [] spec = "x" -> 16 [] spec = "u" -> 10

Pointer(info, digits, count) ==
    Rep(" ", info.width - count - 2) \o <<"0", "x">> \o Rep("0", count - Len(digits)) \o digits

Justified(info, t) == Rep(" ", info.width - Len(t)) \o t

HexDigits == INT_BITS \div 4

-----------------------------------------------------------------------------
\* vsprintf: the 0 of a zero is written and not counted, so that it is overwritten.
vsprintf_dec(info, x) == Printed(IF x = 0 THEN Zeros(info) ELSE Decimal(info, x))

vsprintf_unsigned(info, x) == Printed(Unsigned(info, x, Base(info.spec)))

\* A pointer is read as an unsigned int.
vsprintf_text(info, a) ==
    IF info.spec = "p"
    THEN Printed(Pointer(info, Unsigned(None, a % INT_MOD, 16), HexDigits))
    ELSE Printed(Justified(info, a))

\* The kernel log.  A pointer has all its digits, but those above an int
\* are taken from the int, which has none there.
do_vprintf_dec(info, x) ==
    Printed(IF x = 0 THEN Append(Zeros(info), "0") ELSE Decimal(info, x))

do_vprintf_unsigned(info, x) == Printed(Unsigned(info, x, Base(info.spec)))

do_vprintf_text(info, a) ==
    IF info.spec = "p"
    THEN LET digits == Digits([n \in 1 .. digcount(a, 16) |-> getudigit(a % INT_MOD, n, 16)])
             t == Pointer(info, digits, 2 * HexDigits)
         IN  [text |-> t, len |-> Len(t) - 2]
    ELSE Printed(Justified(info, a))

\* The screen.  The 0 of a zero and the 0x of a pointer are not counted.
vga_vprintf_dec(info, x) ==
    IF x = 0 THEN [text |-> Append(Zeros(info), "0"), len |-> Len(Zeros(info))]
    ELSE Printed(Decimal(info, x))

vga_vprintf_unsigned(info, x) == Printed(Unsigned(info, x, Base(info.spec)))

vga_vprintf_text(info, a) ==
    IF info.spec = "p"
    THEN LET t == Pointer(info, Unsigned(None, a % INT_MOD, 16), HexDigits)
         IN  [text |-> t, len |-> Len(t) - 2]
    ELSE Printed(Justified(info, a))

Output(info, a) ==
    CASE info.spec = "d" -> (CASE sink = "vsprintf" -> vsprintf_dec(info, Signed(a))
                               [] sink = "do_vprintf" -> do_vprintf_dec(info, Signed(a))
                               [] OTHER -> vga_vprintf_dec(info, Signed(a)))
      [] info.spec \in {"o", "x", "u"} ->
                            (CASE sink = "vsprintf" -> vsprintf_unsigned(info, a % INT_MOD)
                               [] sink = "do_vprintf" -> do_vprintf_unsigned(info, a % INT_MOD)
                               [] OTHER -> vga_vprintf_unsigned(info, a % INT_MOD))
      [] info.spec \in {"c", "s", "p"} ->
                            (CASE sink = "vsprintf" -> vsprintf_text(info, a)
                               [] sink = "do_vprintf" -> do_vprintf_text(info, a)
                               [] OTHER -> vga_vprintf_text(info, a))
      [] OTHER -> Printed(<< >>)

-----------------------------------------------------------------------------
\* The port of the log gets a carriage return in front of a line feed.
qemu_console_logger_print(t) ==
    FlattenSeq([k \in 1 .. Len(t) |-> IF t[k] = "\n" THEN <<"\r", "\n">> ELSE <<t[k]>>])

Shown(t) == IF sink = "do_vprintf" THEN qemu_console_logger_print(t) ELSE t

Plain == /\ pc = "loop" /\ i <= Len(fmt) /\ At(i) # "%"
         /\ text' = text \o Shown(<<At(i)>>) /\ len' = len + 1 /\ i' = i + 1
         /\ UNCHANGED <<sink, fmt, pc, last>>

\* What a caller passes for a directive, by what the format says.
Arguments(info) == CASE info.spec = "s" /\ At(i + info.n - 1) = "s" -> Strings
                     [] info.spec = "c" -> {s \in Strings : Len(s) = 1}
                     [] OTHER -> Words

Directive ==
    /\ pc = "loop" /\ At(i) = "%"
    /\ \E info \in {Info} : \E a \in Arguments(info) :
          /\ info.n # 0 /\ (info.spec = "s" => At(i + info.n - 1) = "s")
          /\ \E out \in {Output(info, a)} :
                /\ text' = text \o Shown(out.text) /\ len' = len + out.len
                /\ last' = [info |-> info, arg |-> a, text |-> out.text, len |-> out.len]
          /\ i' = i + info.n
    /\ UNCHANGED <<sink, fmt, pc>>

\* A number where a string is printed: it is used as an address.
LongAsString == /\ pc = "loop" /\ At(i) = "%"
                /\ Info.spec = "s" /\ At(i + Info.n - 1) # "s"
                /\ pc' = "fault"
                /\ UNCHANGED <<sink, fmt, i, text, len, last>>

\* The call returns -1 with what it has printed.
Invalid == /\ pc = "loop" /\ At(i) = "%" /\ Info.n = 0
           /\ pc' = "invalid" /\ len' = -1
           /\ UNCHANGED <<sink, fmt, i, text, last>>

Finish == /\ pc = "loop" /\ i > Len(fmt) /\ pc' = "done"
          /\ UNCHANGED <<sink, fmt, i, text, len, last>>

Next == Plain \/ Directive \/ LongAsString \/ Invalid \/ Finish

Spec == Init /\ [][Next]_vars

-----------------------------------------------------------------------------
\* The number a text shows in a base, by Horner's rule over its digits.
Hexadecimal == Numerals \o <<"a", "b", "c", "d", "e", "f">>
Reads(t, base) ==
    LET digits == SelectSeq(t, LAMBDA c : c \notin {" ", "-"})
        value == FoldLeft(LAMBDA x, c : base * x + IndexFirstSubSeq(<<c>>, Hexadecimal) - 1, 0, digits)
    IN  IF Contains(t, "-") THEN - value ELSE value

\* A text shows v: blanks, a sign and digits, at least one of them, that read back as v.
ShowsNumber(t, base, v) ==
    LET numerals == Range(SubSeq(Hexadecimal, 1, base))
    IN  Range(t) \subseteq {" ", "-"} \cup numerals /\ Range(t) \cap numerals # {} /\ Reads(t, base) = v

\* Every directive prints its argument: the text of a number (mathex.c, and the
\* branches of stdio.c:44-235, logger.cc:79-303, vga.cc:138-326) reads back as the number, a string or
\* character is there with blanks in front, and the count the call returns counts it.  At the
\* edges the three loops differ, in these ways and no other: none prints the least int; a zero
\* is lost by vsprintf, unless a precision makes zeros, and not counted by vga_vprintf; of a
\* pointer above an int vsprintf and vga_vprintf print the low half, and do_vprintf no
\* number; and only vsprintf counts the 0x of a pointer.
PrintsArgument ==
    LET info == last.info
        a == last.arg
        x == Signed(a)
    IN  /\ info.spec = "d"
              => /\ \/ x = - (INT_MOD \div 2)
                    \/ x = 0 /\ sink = "vsprintf" /\ info.precision = 0
                    <=> ~ ShowsNumber(last.text, 10, x)
                 /\ last.len = Len(last.text) - (IF x = 0 /\ sink = "vga_vprintf" THEN 1 ELSE 0)
        /\ info.spec \in {"o", "x", "u"}
              => /\ ShowsNumber(last.text, Base(info.spec), a % INT_MOD)
                 /\ last.len = Len(last.text) /\ Len(last.text) >= info.width
        /\ info.spec = "p"
              => LET digits == SelectSeq(last.text, LAMBDA c : c # "x")
                 IN  /\ IF sink = "do_vprintf" THEN a < INT_MOD <=> ShowsNumber(digits, 16, a)
                        ELSE ShowsNumber(digits, 16, a % INT_MOD)
                     /\ last.len = Len(last.text) - (IF sink = "vsprintf" THEN 0 ELSE 2)
        /\ info.spec \in {"c", "s"}
              => /\ last.text = Rep(" ", info.width - Len(a)) \o a
                 /\ last.len = Len(last.text)
=============================================================================
