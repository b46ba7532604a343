------------------------------ MODULE Terminal ------------------------------
(***************************************************************************)
(* What a text screen promises: characters appear at a cursor that moves   *)
(* on, from line to line, and when it leaves the last line the lines move  *)
(* up and the last one becomes fresh.                                      *)
(***************************************************************************)
EXTENDS Integers, Sequences

CONSTANTS W, H,         \* columns and lines
          Char, Colour,
          blank         \* a cell that vga_clear leaves

VARIABLES line,         \* the lines, each a sequence of cells
          x, y,         \* the cursor, from 0
          fresh         \* what comes in at the bottom

vars == <<line, x, y, fresh>>

Init == /\ line = [r \in 1 .. H |-> [c \in 1 .. W |-> blank]]
        /\ x = 0 /\ y = 0
        /\ fresh \in [1 .. W -> {blank} \cup (Char \X Colour)]

\* The cursor goes to column cx of the line below, in the lines that are now ls.
Below(ls, cx) == /\ x' = cx
                 /\ IF y + 1 < H THEN y' = y + 1 /\ line' = ls
                    ELSE y' = y /\ line' = Append(Tail(ls), fresh)

Right(ls, cx) == IF cx < W THEN x' = cx /\ y' = y /\ line' = ls ELSE Below(ls, cx - W)

Put(cell) == Right([line EXCEPT ![y + 1][x + 1] = cell], x + 1)
Tab == Right(line, x + 4 - (x % 4))
NewLine == Below(line, 0)
Back == x > 0 /\ x' = x - 1 /\ UNCHANGED <<line, y>>
Return == x' = 0 /\ UNCHANGED <<line, y>>
Clear == x' = 0 /\ y' = 0 /\ line' = [r \in 1 .. H |-> [c \in 1 .. W |-> blank]]

Next == /\ UNCHANGED fresh
        /\ \/ \E cell \in Char \X Colour : Put(cell)
           \/ Tab \/ NewLine \/ Back \/ Return \/ Clear

Spec == Init /\ [][Next]_vars
=============================================================================
