-------------------------------- MODULE Vga --------------------------------
(***************************************************************************)
(* The i386 text console, src/kernel/arch/i386/vga.c.                      *)
(*                                                                         *)
(* The driver's state (tx, ty), the memory it writes (VGA_MEM) and the two *)
(* CRTC registers that place the hardware cursor are one record, con, so   *)
(* that a caller which makes several console calls in one uninterrupted    *)
(* handler composes them as functions of the record.  Characters are their *)
(* ASCII codes; a cell holds a character (its attribute byte is always     *)
(* 0x07) or 0, what memset leaves there.                                   *)
(***************************************************************************)
EXTENDS Integers, Sequences

CONSTANTS
  WIDTH,    \* columns of the visible page (80)
  HEIGHT,   \* rows of the visible page (25)
  WINDOW,   \* cells of the VGA window at 0xB8000, visible or not
  CRTCBASE, \* radix of the cursor registers (256)
  Char      \* the characters that are printed

NUL == 0
LF  == 10
CR  == 13

ASSUME VgaAssumption ==
  /\ WIDTH \in Nat /\ WIDTH >= 2
  /\ HEIGHT \in Nat /\ HEIGHT >= 2
  /\ WINDOW \in Nat /\ WINDOW >= WIDTH * HEIGHT
  /\ CRTCBASE \in Nat \ {0}
  /\ Char \subseteq Nat /\ NUL \in Char

VARIABLE con

Cells == 0 .. (WINDOW - 1)
Page  == WIDTH * HEIGHT          \* first cell after the visible page

Console == [tx : Nat, ty : Nat, mem : [Cells -> Char],
            crtc : [lo : 0 .. CRTCBASE - 1, hi : Nat]]

vga_init ==
  [tx |-> 0, ty |-> 0, mem |-> [i \in Cells |-> NUL],
   crtc |-> [lo |-> 0, hi |-> 0]]

-----------------------------------------------------------------------------
(* The driver's functions, as functions of the console record.             *)

At(k, x, y) == [k EXCEPT !.tx = x, !.ty = y]

Paint(k, m) == [k EXCEPT !.mem = m]

cursor(k, x, y) ==
  LET pos == y * WIDTH + x
  IN  [k EXCEPT !.crtc = [lo |-> pos % CRTCBASE, hi |-> pos \div CRTCBASE]]

\* Mutant: the last row is not cleared.
ShiftUp_NoBlank(m) ==
  [i \in Cells |-> IF i < Page - WIDTH THEN m[i + WIDTH] ELSE m[i]]

\* Mutant: the last row is cleared with twice its length.
ShiftUp_LongBlank(m) ==
  [i \in Cells |-> IF i < Page - WIDTH THEN m[i + WIDTH]
                   ELSE IF i < Page + WIDTH THEN NUL ELSE m[i]]

\* memmove of the lower rows up by one, memset of the last row.
ShiftUp(m) ==
  [i \in Cells |-> IF i < Page - WIDTH THEN m[i + WIDTH]
                   ELSE IF i < Page THEN NUL ELSE m[i]]

\* Mutant: the test forgets that rows count from 0.
vga_scroll_Late(k) ==
  IF k.ty > HEIGHT
  THEN At(Paint(k, ShiftUp(k.mem)), k.tx, HEIGHT - 1)
  ELSE k

vga_scroll(k) ==
  IF k.ty >= HEIGHT
  THEN At(Paint(k, ShiftUp(k.mem)), k.tx, HEIGHT - 1)
  ELSE k

\* tx = 0; ty += 1; vga_scroll();
NewLine(k) == vga_scroll(At(k, 0, k.ty + 1))

Store(k, c) ==
  At(Paint(k, [k.mem EXCEPT ![k.ty * WIDTH + k.tx] = c]), k.tx + 1, k.ty)

\* Mutant: the cursor is set before the line wraps.
putc_CursorFirst(k, c) ==
  LET w == IF k.tx >= WIDTH THEN NewLine(k) ELSE k
      n == NewLine(w)
  IN  IF c = NUL THEN k
      ELSE IF c \in {LF, CR} THEN cursor(n, n.tx, n.ty)
      ELSE Store(cursor(w, k.tx + 1, k.ty), c)

putc(k, c) ==
  LET w == IF k.tx >= WIDTH THEN NewLine(k) ELSE k
      n == NewLine(w)
  IN  IF c = NUL THEN k
      ELSE IF c \in {LF, CR} THEN cursor(n, n.tx, n.ty)
      ELSE Store(cursor(w, w.tx + 1, w.ty), c)

puts(k, s) ==
  LET after[n \in 0 .. Len(s)] == IF n = 0 THEN k ELSE putc(after[n - 1], s[n])
  IN  after[Len(s)]

setpos(k, x, y) ==
  IF x > WIDTH THEN k
  ELSE vga_scroll(At(k, x, IF y >= HEIGHT THEN HEIGHT ELSE y))

setpos_x(k, x) == IF x > WIDTH THEN k ELSE At(k, x, k.ty)

\* Mutant: the length is halved once more.
clrline_y_Quarter(k, y) ==
  Paint(k, [i \in Cells |->
     IF y * WIDTH <= i /\ i < y * WIDTH + (WIDTH \div 4) THEN NUL ELSE k.mem[i]])

\* memset is given WIDTH bytes and a cell has two: half of the row is cleared.
\* The row is not checked; behind the window there is nothing to store to.
clrline_y(k, y) ==
  Paint(k, [i \in Cells |->
     IF y * WIDTH <= i /\ i < y * WIDTH + (WIDTH \div 2) THEN NUL ELSE k.mem[i]])

clrline(k) == clrline_y(k, k.ty)

-----------------------------------------------------------------------------
(* The driver on its own, called in any order.  The page is blank; behind  *)
(* it is whatever the firmware has left there.                             *)

Init ==
  \E m \in [Cells -> Char \ {LF, CR}] :
    (\A i \in Cells : i < Page => m[i] = NUL) /\ con = Paint(vga_init, m)

Putc(c) == con' = putc(con, c)

Setpos(x, y) == con' = setpos(con, x, y)

SetposX(x) == con' = setpos_x(con, x)

ClrlineY(y) == con' = clrline_y(con, y)

\* No cell is in a row further down.
LastRow == WINDOW \div WIDTH

Clrline == con' = clrline(con)

Next ==
  \/ \E c \in Char : Putc(c)
  \/ \E x \in 0 .. WIDTH + 1, y \in 0 .. HEIGHT + 1 : Setpos(x, y)
  \/ \E x \in 0 .. WIDTH + 1 : SetposX(x)
  \/ \E y \in 0 .. LastRow : ClrlineY(y)
  \/ Clrline

Spec == Init /\ [][Next]_con

-----------------------------------------------------------------------------

TypeOK == con \in Console

(* Between calls the driver's position is one that putc can continue from: *)
(* a row of the page, and a column of the page or the one past it that     *)
(* makes the next putc wrap (vga.c:44).                                    *)
OnPage == con.tx <= WIDTH /\ con.ty < HEIGHT

(* No call stores behind the visible page, whatever is there and in any    *)
(* order of calls: the unchecked index of vga.c:57, the memmove and memset *)
(* of the scroll and clrline's memset keep to it.  Only clrline_y does     *)
(* not, when its caller names a row that is not on the page (vga.c:87-89). *)
StoresOnPage ==
  [][\/ \A i \in Cells : i >= Page => con'.mem[i] = con.mem[i]
     \/ \E y \in HEIGHT .. LastRow : ClrlineY(y)]_con
=============================================================================
