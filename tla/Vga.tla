-------------------------------- MODULE Vga ---------------------------------
(***************************************************************************)
(* The text screen (hal/x86_64/display/vga.cc).  The buffer is the cells   *)
(* of the display memory: the lines of the screen, and the line behind     *)
(* them, which scrolling reads too.                                        *)
(***************************************************************************)
EXTENDS Integers, Sequences

CONSTANTS VGA_TEXTDISP_WIDTH, VGA_TEXTDISP_HEIGHT,
          Char, Colour, blank,
          MaxWrites   \* bounds the characters written since the screen was cleared

VARIABLES buffer,     \* cells by their offset
          offset,     \* the cursor, as the two registers of the controller hold it
          colour,     \* _cur_fgcolor, _cur_bgcolor
          writes

vars == <<buffer, offset, colour, writes>>

Cells == VGA_TEXTDISP_WIDTH * VGA_TEXTDISP_HEIGHT
CURSOR_POS_X(lp) == lp % VGA_TEXTDISP_WIDTH
CURSOR_POS_Y(lp) == lp \div VGA_TEXTDISP_WIDTH

\* After vga_clear; nothing is known of the memory behind the screen.
Init == /\ \E cell \in {blank} \cup (Char \X Colour) :
              buffer = [o \in 0 .. Cells + VGA_TEXTDISP_WIDTH - 1 |-> IF o < Cells THEN blank ELSE cell]
        /\ offset = 0 /\ colour \in Colour /\ writes = 0

-----------------------------------------------------------------------------
\* A column and a line are passed as bytes, an offset has 16 bits.
Cell(x, y) == (y % 256) * VGA_TEXTDISP_WIDTH + (x % 256)

vga_setpos(x, y) == Cell(x, y) % 65536

vga_chwrite(c, x, y) == [buffer EXCEPT ![Cell(x, y)] = <<c, colour>>]

\* Mutant: one line too few is moved.
ScrollOneLess(b) ==
    [o \in DOMAIN b |-> IF o < Cells - VGA_TEXTDISP_WIDTH THEN b[o + VGA_TEXTDISP_WIDTH] ELSE b[o]]

\* As many cells as the screen has move up a line, so one line comes from behind it.
vga_scroll(b) == [o \in DOMAIN b |-> IF o < Cells THEN b[o + VGA_TEXTDISP_WIDTH] ELSE b[o]]

\* The end of vga_putcchar with the cursor at o: a cursor below the screen scrolls.
Settle(b, o) ==
    IF CURSOR_POS_Y(o) = VGA_TEXTDISP_HEIGHT
    THEN /\ buffer' = vga_scroll(b)
         /\ offset' = vga_setpos(CURSOR_POS_X(o), VGA_TEXTDISP_HEIGHT - 1)
    ELSE buffer' = b /\ offset' = o

X == CURSOR_POS_X(offset)
Y == CURSOR_POS_Y(offset)

vga_putcchar(c) ==
    /\ CASE c = "LF" -> Settle(buffer, vga_setpos(0, Y + 1))
         [] c = "HT" -> Settle(buffer, vga_setpos(IF X % 4 # 0 THEN X + (4 - (X % 4)) ELSE X + 4, Y))
         [] c = "BS" -> Settle(buffer, IF X # 0 THEN vga_setpos(X - 1, Y) ELSE offset)
         [] c = "CR" -> Settle(buffer, vga_setpos(0, Y))
         [] c = "BEL" -> Settle(buffer, offset)
         [] OTHER -> Settle(vga_chwrite(c, X, Y), vga_setpos(X + 1, Y))
    /\ writes < MaxWrites \/ c \notin Char
    /\ writes' = IF c \in Char THEN writes + 1 ELSE writes
    /\ UNCHANGED colour

vga_setcolor(c) == colour' = c /\ UNCHANGED <<buffer, offset, writes>>

vga_clear == /\ buffer' = [o \in DOMAIN buffer |-> IF o < Cells THEN blank ELSE buffer[o]]
             /\ offset' = 0 /\ writes' = 0 /\ UNCHANGED colour

Next == \/ \E c \in Char \cup {"LF", "HT", "BS", "CR", "BEL"} : vga_putcchar(c)
        \/ \E c \in Colour : vga_setcolor(c)
        \/ vga_clear

Spec == Init /\ [][Next]_vars

-----------------------------------------------------------------------------
Line(r) == [c \in 1 .. VGA_TEXTDISP_WIDTH |-> buffer[r * VGA_TEXTDISP_WIDTH + c - 1]]
T == INSTANCE Terminal WITH
        W <- VGA_TEXTDISP_WIDTH, H <- VGA_TEXTDISP_HEIGHT,
        line <- [r \in 1 .. VGA_TEXTDISP_HEIGHT |-> Line(r - 1)],
        x <- X, y <- Y, fresh <- Line(VGA_TEXTDISP_HEIGHT)

\* The screen is a terminal: cursor arithmetic on linear offsets (vga.cc:61-97) and
\* the copy that scrolls (vga.cc:380-386) move characters and cursor as lines and columns
\* promise, and nothing but the screen is ever written.
ImplementsTerminal == T!Spec
=============================================================================
