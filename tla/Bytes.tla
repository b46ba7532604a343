------------------------------- MODULE Bytes --------------------------------
(***************************************************************************)
(* The memory and string functions of lib/freestdc (src/string.c and       *)
(* src/x86_64/string.c) as functions of the memory they work on, with the  *)
(* units they work in.  strchr and strrchr, which compare the index with   *)
(* the character, have no caller and are left out.                         *)
(***************************************************************************)
EXTENDS Integers, FiniteSetsExt

CONSTANTS Size,  \* the memory is the addresses below Size
          Byte   \* the values of a byte, 0 among them

VARIABLE mem

Addr == 0 .. Size - 1

Init == mem = [a \in Addr |-> 0]

-----------------------------------------------------------------------------
Fill(m, d, n, value(_)) == [a \in Addr |-> IF a \in d .. d + n - 1 THEN value(a - d) ELSE m[a]]

\* The widest unit of at most w bytes that n is a multiple of.
Unit(w, n) == Max({u \in {1, 2, 4, 8} : u <= w /\ n % u = 0})

CopyUnit(m, d, s, u, i) == Fill(m, d + u * i, u, LAMBDA k : m[s + u * i + k])

\* Mutant: the tail of a length that is no multiple of four is left out.
CopyWholeWords(m, d, s, n) ==
    LET copied[i \in 0 .. n \div 4] == IF i = 0 THEN m ELSE CopyUnit(copied[i - 1], d, s, 4, i - 1)
    IN  copied[n \div 4]

memcpy(m, d, s, n) ==
    LET u == Unit(4, n)
        copied[i \in 0 .. n \div u] == IF i = 0 THEN m ELSE CopyUnit(copied[i - 1], d, s, u, i - 1)
    IN  copied[n \div u]

\* From the last unit to the first, unless the source ends below the destination.
memmove(m, d, s, n) ==
    LET u == Unit(4, n)
        k == n \div u
        moved[i \in 0 .. k] == IF i = 0 THEN m ELSE CopyUnit(moved[i - 1], d, s, u, k - i)
    IN  IF s + n < d THEN memcpy(m, d, s, n) ELSE moved[k]

\* The x86_64 one stores the repeated byte in units of 8, and the byte itself,
\* widened, in units of 4 and 2.
memset64(m, d, c, n) ==
    Fill(m, d, n, LAMBDA k : IF Unit(8, n) \in {1, 8} \/ k % Unit(8, n) = 0 THEN c ELSE 0)

\* The general one tests bits 0 and 4 where it means bits 0 and 1.
memset(m, d, c, n) ==
    Fill(m, d, IF n % 2 = 0 /\ (n \div 16) % 2 = 0 THEN n - (n % 4) ELSE n, LAMBDA k : c)

\* The difference of the first two bytes that differ; 0 when there are none.
memcmp(m, a, b, n) ==
    LET D == {i \in 0 .. n - 1 : m[a + i] # m[b + i]}
    IN  IF D = {} THEN 0 ELSE m[a + Min(D)] - m[b + Min(D)]

-----------------------------------------------------------------------------
Terminated(m, s) == \E a \in s .. Size - 1 : m[a] = 0

strlen(m, s) == Min({i \in 0 .. Size - 1 - s : m[s + i] = 0})

strcpy(m, d, s) == Fill(m, d, strlen(m, s) + 1, LAMBDA k : m[s + k])

\* Called with a string of at most num characters: a longer one makes the
\* count wrap, and the padding never ends.
strncpy(m, d, s, num) ==
    Fill(m, d, num + 1, LAMBDA k : IF k <= strlen(m, s) THEN m[s + k] ELSE 0)

strcat(m, d, s) ==
    Fill(m, d + strlen(m, d), strlen(m, s) + 1, LAMBDA k : m[s + k])

strncat(m, d, s, num) ==
    Fill(m, d + strlen(m, d), num + 1, LAMBDA k : IF k < num THEN m[s + k] ELSE 0)

strcmp(m, a, b) ==
    IF strlen(m, a) # strlen(m, b) THEN strlen(m, a) - strlen(m, b)
    ELSE memcmp(m, a, b, strlen(m, a))

\* Goes on behind the terminators, up to num.
strncmp(m, a, b, num) ==
    LET la == Min({strlen(m, a), num})
        lb == Min({strlen(m, b), num})
    IN  IF la # lb THEN la - lb ELSE memcmp(m, a, b, num)

-----------------------------------------------------------------------------
\* kfxx::StringView, the keys of directories: a view is where it starts and its size.
ViewEqual(m, v, w) == v.size = w.size /\ memcmp(m, v.ptr, w.ptr, v.size) = 0

ViewGreater(m, v, w) == v.size > w.size \/ (v.size = w.size /\ memcmp(m, v.ptr, w.ptr, v.size) > 0)

ViewLess(m, v, w) == v.size < w.size \/ (v.size = w.size /\ memcmp(m, v.ptr, w.ptr, v.size) < 0)

-----------------------------------------------------------------------------
Fits(a, n) == a + n <= Size
Apart(a, b, n) == a + n <= b \/ b + n <= a
IsString(s) == Terminated(mem, s)

Next ==
    \/ \E d, s \in Addr, n \in 0 .. Size : Fits(d, n) /\ Fits(s, n) /\ mem' = memmove(mem, d, s, n)
    \/ \E d \in Addr, c \in Byte, n \in 0 .. Size : Fits(d, n) /\ mem' = memset64(mem, d, c, n)
    \/ \E d, s \in Addr : /\ IsString(s) /\ IsString(d)
                          /\ Apart(d, s, strlen(mem, d) + strlen(mem, s) + 1)
                          /\ Fits(d, strlen(mem, d) + strlen(mem, s) + 1)
                          /\ mem' = strcat(mem, d, s)

Spec == Init /\ [][Next]_mem

-----------------------------------------------------------------------------
\* What the memory is when n bytes go from s to d at once, and when they are set.
Copied(d, s, n) == Fill(mem, d, n, LAMBDA k : mem[s + k])
Set(d, c, n) == Fill(mem, d, n, LAMBDA k : c)

\* The string at a, as the set of its positions with their characters.
String(m, a) == {<<i, m[a + i]>> : i \in 0 .. strlen(m, a) - 1}
Prefix(m, a, n) == {p \in String(m, a) : p[1] < n}
Joined(d, s) == String(mem, d) \cup {<<strlen(mem, d) + p[1], p[2]>> : p \in String(mem, s)}

\* Memory functions do what their names say (string.c:127-193, x86_64/string.c:4-44):
\* memcpy for ranges that are apart; memmove for ranges that overlap too, unless
\* the destination starts below the source in it; memset for a zero byte and for
\* lengths in whole units of 8 or odd ones; memcmp tells equal from different.
MemoryAgrees ==
    \A d, s \in Addr, n \in 0 .. Size :
        Fits(d, n) =>
            /\ \A c \in Byte : c = 0 \/ n % 8 = 0 \/ n % 2 = 1 => memset64(mem, d, c, n) = Set(d, c, n)
            /\ \A c \in Byte : n % 4 # 2 => memset(mem, d, c, n) = Set(d, c, n)
            /\ Fits(s, n) =>
                  /\ Apart(d, s, n) => memcpy(mem, d, s, n) = Copied(d, s, n)
                  /\ ~ (d < s /\ s < d + n) => memmove(mem, d, s, n) = Copied(d, s, n)
                  /\ (memcmp(mem, d, s, n) = 0) = (\A k \in 0 .. n - 1 : mem[d + k] = mem[s + k])

\* String functions do what their names say (string.c:5-105), with one byte
\* behind the field written by strncpy, and with strncmp right up to the shorter of
\* two strings; of two views of names (string_view.hh:86-106) exactly one of
\* less, equal and greater holds, and equal means the same name.
StringsAgree ==
    \A d, s \in {a \in Addr : IsString(a)} :
        /\ (strcmp(mem, d, s) = 0) = (String(mem, d) = String(mem, s))
        /\ \A n \in 0 .. Size :
              /\ n <= strlen(mem, d) /\ n <= strlen(mem, s)
                    => (strncmp(mem, d, s, n) = 0) = (Prefix(mem, d, n) = Prefix(mem, s, n))
              /\ Fits(d, n + 1) /\ Fits(s, n + 1) /\ Apart(d, s, n + 1) /\ strlen(mem, s) <= n
                    => /\ String(strncpy(mem, d, s, n), d) = String(mem, s)
                       /\ strncpy(mem, d, s, n)[d + n] = 0
                       /\ String(strcpy(mem, d, s), d) = String(mem, s)
              /\ Fits(d, strlen(mem, d) + n + 1) /\ Fits(s, n + 1) /\ Apart(d, s, strlen(mem, d) + n + 1)
                    => /\ String(strncat(mem, d, s, n), d)
                              = {p \in Joined(d, s) : p[1] < strlen(mem, d) + n}
                       /\ strlen(mem, s) <= n => String(strcat(mem, d, s), d) = Joined(d, s)
        /\ LET v == [ptr |-> d, size |-> strlen(mem, d)]
               w == [ptr |-> s, size |-> strlen(mem, s)]
           IN  /\ ViewEqual(mem, v, w) = (String(mem, d) = String(mem, s))
               /\ ViewLess(mem, v, w) = ViewGreater(mem, w, v)
               /\ {ViewLess(mem, v, w), ViewEqual(mem, v, w), ViewGreater(mem, v, w)} = BOOLEAN
               /\ ~ (ViewLess(mem, v, w) /\ ViewEqual(mem, v, w))
               /\ ~ (ViewLess(mem, v, w) /\ ViewGreater(mem, v, w))
=============================================================================
