--------------------------- MODULE ConsoleProofs ---------------------------
(***************************************************************************)
(* Proofs about the two consoles of the kernel.                            *)
(*                                                                         *)
(* The i386 text console: for every page size and every order of calls the *)
(* cursor stays on the page and so does every store, and the page with     *)
(* what has scrolled off it is the roll of paper of Teletype.              *)
(*                                                                         *)
(* The AArch64 serial port, for every size of the FIFOs, every trigger     *)
(* level and every text.  HandlerNeverSpins is not inductive: that the     *)
(* FIFO holds a character when the handler starts follows from what a      *)
(* raised interrupt says about the level, which kmain's reads keep true.   *)
(* Nor is LossBounded: a character is lost only when the handler's echo    *)
(* has filled the FIFO after kmain's test, and LossInv says that this can  *)
(* happen once.                                                            *)
(***************************************************************************)
EXTENDS VgaTeletype, Uart, SequenceTheorems, TLAPS

(* What every call of the driver preserves of a console record.            *)
Good(k) ==
  /\ k \in Console
  /\ k.tx <= WIDTH

(* What is in memory behind the page.                                      *)
Beyond(k) == [i \in {j \in Cells : j >= Page} |-> k.mem[i]]

(* A cell of a row and column of the page is a cell of the page, and a row *)
(* of the page ends inside it.                                             *)
LEMMA CellBound ==
  ASSUME NEW y \in 0 .. HEIGHT - 1
  PROVE  /\ y * WIDTH \in Nat
         /\ y * WIDTH + WIDTH <= Page
         /\ Page \in Nat
         /\ Page <= WINDOW
<1>1. PICK d \in Nat : HEIGHT = y + 1 + d
  <2>1. HEIGHT - y - 1 \in Nat /\ HEIGHT = y + 1 + (HEIGHT - y - 1)
    BY VgaAssumption
  <2> QED BY <2>1
<1>2. HEIGHT * WIDTH = y * WIDTH + WIDTH + d * WIDTH
  BY <1>1, VgaAssumption
<1>3. d * WIDTH \in Nat /\ y * WIDTH \in Nat
  BY VgaAssumption
<1> QED BY <1>2, <1>3, VgaAssumption DEF Page

(* Moving the position leaves the cells alone.                             *)
LEMMA AtGood ==
  ASSUME NEW k, Good(k), NEW x \in Nat, x <= WIDTH, NEW y \in Nat
  PROVE  /\ Good(At(k, x, y)) /\ At(k, x, y).tx = x /\ At(k, x, y).ty = y
         /\ Beyond(At(k, x, y)) = Beyond(k)
<1>1. k \in Console
  BY DEF Good
<1>2. At(k, x, y) \in Console
  BY <1>1 DEF Console, At
<1>3. At(k, x, y).tx = x /\ At(k, x, y).ty = y /\ At(k, x, y).mem = k.mem
  BY <1>1 DEF Console, At
<1> QED BY <1>2, <1>3 DEF Good, Beyond

(* Replacing the cells.                                                    *)
LEMMA PaintGood ==
  ASSUME NEW k, Good(k), NEW m \in [Cells -> Char]
  PROVE  /\ Good(Paint(k, m)) /\ Paint(k, m).tx = k.tx /\ Paint(k, m).ty = k.ty
         /\ (\A i \in Cells : i >= Page => m[i] = k.mem[i]) => Beyond(Paint(k, m)) = Beyond(k)
<1>1. k \in Console
  BY DEF Good
<1>2. Paint(k, m) \in Console
  BY <1>1 DEF Console, Paint
<1>3. Paint(k, m).tx = k.tx /\ Paint(k, m).ty = k.ty /\ Paint(k, m).mem = m
  BY <1>1 DEF Console, Paint
<1> QED BY <1>2, <1>3 DEF Good, Beyond

(* The position of a good console is a pair of naturals.                   *)
LEMMA GoodPos ==
  ASSUME NEW k, Good(k)
  PROVE  /\ k.tx \in Nat /\ k.tx <= WIDTH /\ k.ty \in Nat
         /\ k.mem \in [Cells -> Char]
BY DEF Good, Console

(* cursor only writes the CRTC registers.                                  *)
LEMMA CursorGood ==
  ASSUME NEW k, Good(k), NEW x \in Nat, NEW y \in Nat
  PROVE  /\ Good(cursor(k, x, y)) /\ cursor(k, x, y).ty = k.ty /\ cursor(k, x, y).tx = k.tx
         /\ Beyond(cursor(k, x, y)) = Beyond(k)
<1>1. y * WIDTH + x \in Nat
  BY VgaAssumption
<1>2. \A p \in Nat : p % CRTCBASE \in 0 .. CRTCBASE - 1 /\ p \div CRTCBASE \in Nat
  BY VgaAssumption
<1>3. Good(cursor(k, x, y)) /\ cursor(k, x, y).ty = k.ty /\ cursor(k, x, y).tx = k.tx
  BY <1>1, <1>2, VgaAssumption DEF Good, Console, cursor
<1>4. cursor(k, x, y).mem = k.mem
  BY DEF Good, Console, cursor
<1> QED BY <1>3, <1>4 DEF Beyond

(* vga_scroll moves and blanks cells of the page only and brings the row   *)
(* back to the page.                                                       *)
LEMMA ScrollGood ==
  ASSUME NEW k, Good(k)
  PROVE  /\ Good(vga_scroll(k))
         /\ vga_scroll(k).ty < HEIGHT
         /\ vga_scroll(k).tx = k.tx
         /\ Beyond(vga_scroll(k)) = Beyond(k)
<1>1. Page \in Nat /\ Page <= WINDOW /\ WIDTH <= Page
  <2>1. 0 \in 0 .. HEIGHT - 1
    BY VgaAssumption
  <2>2. 0 * WIDTH = 0
    BY VgaAssumption
  <2> QED BY <2>1, <2>2, CellBound, VgaAssumption
<1>2. ASSUME NEW m \in [Cells -> Char]
      PROVE  /\ ShiftUp(m) \in [Cells -> Char]
             /\ \A i \in Cells : i >= Page => ShiftUp(m)[i] = m[i]
  BY <1>1, <1>2, VgaAssumption DEF ShiftUp, Cells
<1>3. CASE k.ty >= HEIGHT
  <2>1. /\ ShiftUp(k.mem) \in [Cells -> Char]
        /\ \A i \in Cells : i >= Page => ShiftUp(k.mem)[i] = k.mem[i]
    BY <1>2, GoodPos
  <2>2. HEIGHT - 1 \in Nat /\ HEIGHT - 1 < HEIGHT
    BY VgaAssumption
  <2>3. Good(Paint(k, ShiftUp(k.mem))) /\ Beyond(Paint(k, ShiftUp(k.mem))) = Beyond(k)
    BY <2>1, PaintGood
  <2>4. vga_scroll(k) = At(Paint(k, ShiftUp(k.mem)), k.tx, HEIGHT - 1)
    BY <1>3 DEF vga_scroll
  <2> QED BY <2>2, <2>3, <2>4, AtGood, GoodPos
<1>4. CASE ~(k.ty >= HEIGHT)
  BY <1>4, GoodPos, VgaAssumption DEF vga_scroll
<1> QED BY <1>3, <1>4

LEMMA NewLineGood ==
  ASSUME NEW k, Good(k)
  PROVE  /\ Good(NewLine(k)) /\ NewLine(k).ty < HEIGHT /\ NewLine(k).tx = 0
         /\ Beyond(NewLine(k)) = Beyond(k)
<1>1. k.ty + 1 \in Nat /\ 0 \in Nat /\ 0 <= WIDTH
  BY GoodPos, VgaAssumption
<1>2. Good(At(k, 0, k.ty + 1)) /\ At(k, 0, k.ty + 1).tx = 0 /\ Beyond(At(k, 0, k.ty + 1)) = Beyond(k)
  BY <1>1, AtGood
<1> QED BY <1>2, ScrollGood DEF NewLine

(* A store at a column left of WIDTH lands in a cell of the page.          *)
LEMMA StoreGood ==
  ASSUME NEW k, Good(k), k.ty < HEIGHT, k.tx < WIDTH, NEW c \in Char
  PROVE  Good(Store(k, c)) /\ Store(k, c).ty < HEIGHT /\ Beyond(Store(k, c)) = Beyond(k)
<1>1. k.ty \in 0 .. HEIGHT - 1 /\ k.tx + 1 \in Nat /\ k.tx + 1 <= WIDTH
  BY GoodPos, VgaAssumption
<1> DEFINE off == k.ty * WIDTH + k.tx
           m == [k.mem EXCEPT ![off] = c]
<1>2. off \in Cells /\ off < Page /\ Page \in Nat
  <2>1. /\ k.ty * WIDTH \in Nat /\ k.ty * WIDTH + WIDTH <= Page
        /\ Page \in Nat /\ Page <= WINDOW /\ k.tx \in Nat
    BY <1>1, CellBound, GoodPos
  <2> DEFINE row == k.ty * WIDTH
  <2>2. off = row + k.tx
    OBVIOUS
  <2> HIDE DEF row, off
  <2>3. row \in Nat /\ row + WIDTH <= Page
    BY <2>1 DEF row
  <2> QED BY <2>1, <2>2, <2>3, VgaAssumption DEF Cells
<1>3. Store(k, c) = At(Paint(k, m), k.tx + 1, k.ty)
  BY DEF Store
<1> HIDE DEF off
<1>4. m \in [Cells -> Char] /\ \A i \in Cells : i >= Page => m[i] = k.mem[i]
  BY <1>2, GoodPos DEF Cells
<1> HIDE DEF m
<1>5. Good(Paint(k, m)) /\ k.ty \in Nat /\ Beyond(Paint(k, m)) = Beyond(k)
  BY <1>4, PaintGood, GoodPos
<1> QED BY <1>1, <1>3, <1>5, AtGood

LEMMA PutcGood ==
  ASSUME NEW k, Good(k), k.ty < HEIGHT, NEW c \in Char
  PROVE  Good(putc(k, c)) /\ putc(k, c).ty < HEIGHT /\ Beyond(putc(k, c)) = Beyond(k)
<1> DEFINE w == IF k.tx >= WIDTH THEN NewLine(k) ELSE k
           n == NewLine(w)
<1>1. Good(w) /\ w.ty < HEIGHT /\ w.tx < WIDTH /\ Beyond(w) = Beyond(k)
  BY NewLineGood, GoodPos, VgaAssumption
<1>2. Good(n) /\ n.ty < HEIGHT /\ Beyond(n) = Beyond(k)
  BY <1>1, NewLineGood
<1>3. w.tx \in Nat /\ w.ty \in Nat /\ w.tx + 1 \in Nat /\ n.tx \in Nat /\ n.ty \in Nat
  BY <1>1, <1>2, GoodPos
<1> HIDE DEF w, n
<1>4. CASE c = NUL
  BY <1>4 DEF putc
<1>5. CASE c # NUL /\ c \in {LF, CR}
  <2>1. putc(k, c) = cursor(n, n.tx, n.ty)
    BY <1>5 DEF putc, w, n
  <2>2. /\ Good(cursor(n, n.tx, n.ty)) /\ cursor(n, n.tx, n.ty).ty = n.ty
        /\ Beyond(cursor(n, n.tx, n.ty)) = Beyond(n)
    BY <1>2, <1>3, CursorGood
  <2> QED BY <2>1, <2>2, <1>2
<1>6. CASE c # NUL /\ c \notin {LF, CR}
  <2>1. putc(k, c) = Store(cursor(w, w.tx + 1, w.ty), c)
    BY <1>6 DEF putc, w, n
  <2>2. /\ Good(cursor(w, w.tx + 1, w.ty)) /\ Beyond(cursor(w, w.tx + 1, w.ty)) = Beyond(w)
        /\ cursor(w, w.tx + 1, w.ty).ty < HEIGHT /\ cursor(w, w.tx + 1, w.ty).tx < WIDTH
    BY <1>1, <1>3, CursorGood
  <2> QED BY <1>1, <2>1, <2>2, StoreGood
<1> QED BY <1>4, <1>5, <1>6

LEMMA ClrlineGood ==
  ASSUME NEW k, Good(k), NEW y \in Nat
  PROVE  /\ Good(clrline_y(k, y)) /\ clrline_y(k, y).ty = k.ty
         /\ y < HEIGHT => Beyond(clrline_y(k, y)) = Beyond(k)
<1>1. WIDTH \div 2 \in Nat /\ WIDTH \div 2 <= WIDTH /\ y * WIDTH \in Nat
  BY VgaAssumption
<1> DEFINE m == [i \in Cells |-> IF y * WIDTH <= i /\ i < y * WIDTH + (WIDTH \div 2)
                                 THEN NUL ELSE k.mem[i]]
<1>2. m \in [Cells -> Char]
  BY GoodPos, VgaAssumption
<1>3. ASSUME y < HEIGHT PROVE \A i \in Cells : i >= Page => m[i] = k.mem[i]
  <2>1. y \in 0 .. HEIGHT - 1
    BY <1>3, VgaAssumption
  <2>2. y * WIDTH \in Nat /\ y * WIDTH + WIDTH <= Page /\ Page \in Nat
    BY <2>1, CellBound
  <2> QED BY <1>1, <2>2, VgaAssumption DEF Cells
<1>4. clrline_y(k, y) = Paint(k, m)
  BY DEF clrline_y
<1> HIDE DEF m
<1> QED BY <1>2, <1>3, <1>4, PaintGood

IInv == Good(con) /\ con.ty < HEIGHT

LEMMA InitIs ==
  ASSUME Init
  PROVE  /\ con.tx = 0 /\ con.ty = 0 /\ con.mem \in [Cells -> Char] /\ con \in Console
         /\ \A i \in Cells : i < Page => con.mem[i] = NUL
<1>1. PICK m \in [Cells -> Char \ {LF, CR}] :
        (\A i \in Cells : i < Page => m[i] = NUL) /\ con = Paint(vga_init, m)
  BY DEF Init
<1>2. m \in [Cells -> Char]
  OBVIOUS
<1>3. con = [tx |-> 0, ty |-> 0, mem |-> m, crtc |-> [lo |-> 0, hi |-> 0]]
  BY <1>1 DEF Paint, vga_init
<1> QED BY <1>1, <1>2, <1>3, VgaAssumption DEF Console

LEMMA InitInv == Init => IInv
BY InitIs, VgaAssumption DEF IInv, Good

(* What a step leaves behind the page.                                     *)
Stays == Beyond(con)' = Beyond(con)

LEMMA Step ==
  ASSUME IInv, [Next]_con
  PROVE  IInv' /\ (Stays \/ \E y \in HEIGHT .. LastRow : ClrlineY(y))
<1> USE DEF IInv, Stays
<1>1. ASSUME NEW c \in Char, Putc(c) PROVE IInv' /\ Stays
  BY <1>1, PutcGood DEF Putc
<1>2. ASSUME NEW x \in 0 .. WIDTH + 1, NEW y \in 0 .. HEIGHT + 1, Setpos(x, y)
      PROVE  IInv' /\ Stays
  <2> DEFINE yy == IF y >= HEIGHT THEN HEIGHT ELSE y
  <2>1. CASE x > WIDTH
    BY <1>2, <2>1 DEF Setpos, setpos
  <2>2. CASE ~(x > WIDTH)
    <3>1. x \in Nat /\ x <= WIDTH /\ yy \in Nat
      BY <2>2, VgaAssumption
    <3>2. con' = vga_scroll(At(con, x, yy))
      BY <1>2, <2>2 DEF Setpos, setpos
    <3> HIDE DEF yy
    <3>3. Good(At(con, x, yy)) /\ Beyond(At(con, x, yy)) = Beyond(con)
      BY <3>1, AtGood
    <3> QED BY <3>2, <3>3, ScrollGood
  <2> QED BY <2>1, <2>2
<1>3. ASSUME NEW x \in 0 .. WIDTH + 1, SetposX(x) PROVE IInv' /\ Stays
  <2>1. CASE x > WIDTH
    BY <1>3, <2>1 DEF SetposX, setpos_x
  <2>2. CASE ~(x > WIDTH)
    <3>1. con' = At(con, x, con.ty)
      BY <1>3, <2>2 DEF SetposX, setpos_x
    <3>2. x \in Nat /\ x <= WIDTH /\ con.ty \in Nat
      BY <2>2, GoodPos, VgaAssumption
    <3> QED BY <3>1, <3>2, AtGood
  <2> QED BY <2>1, <2>2
<1>4. ASSUME NEW y \in 0 .. LastRow, ClrlineY(y) PROVE IInv' /\ (y < HEIGHT => Stays)
  BY <1>4, ClrlineGood DEF ClrlineY
<1>5. ASSUME Clrline PROVE IInv' /\ Stays
  <2>1. con.ty \in Nat /\ con.ty < HEIGHT
    BY GoodPos
  <2> QED BY <1>5, <2>1, ClrlineGood DEF Clrline, clrline
<1>6. CASE UNCHANGED con
  BY <1>6 DEF Good
<1>7. ASSUME NEW y \in 0 .. LastRow, ClrlineY(y)
      PROVE  IInv' /\ (Stays \/ \E yy \in HEIGHT .. LastRow : ClrlineY(yy))
  <2>1. LastRow \in Int /\ HEIGHT \in Nat
    BY VgaAssumption DEF LastRow
  <2>2. CASE y < HEIGHT
    BY <1>4, <1>7, <2>2
  <2>3. CASE y >= HEIGHT
    <3>1. y \in HEIGHT .. LastRow
      BY <2>1, <2>3
    <3> QED BY <1>4, <1>7, <3>1
  <2> QED BY <2>1, <2>2, <2>3
<1> QED BY <1>1, <1>2, <1>3, <1>5, <1>6, <1>7 DEF Next

LEMMA StepInv == IInv /\ [Next]_con => IInv'
BY Step

(* In every order of console calls the driver's position stays on the page *)
(* (vga.c:24-60, 70-81), for every page size.                              *)
THEOREM CursorOnPage == Spec => [](TypeOK /\ OnPage)
<1>1. IInv => TypeOK /\ OnPage
  BY DEF IInv, Good, Console, TypeOK, OnPage
<1> QED BY InitInv, StepInv, <1>1, PTL DEF Spec

(* Behind the page nothing is stored, whatever is there, for every page    *)
(* size and window and in every order of calls, but by a clrline_y that is *)
(* told a row below the page (vga.c:24-60, 87-93).                         *)
THEOREM NoStrayStore == Spec => StoresOnPage
<1>1. ASSUME IInv, [Next]_con
      PROVE  [\/ \A i \in Cells : i >= Page => con'.mem[i] = con.mem[i]
              \/ \E y \in HEIGHT .. LastRow : ClrlineY(y)]_con
  <2>1. CASE Beyond(con)' = Beyond(con)
    <3>1. ASSUME NEW i \in Cells, i >= Page PROVE con'.mem[i] = con.mem[i]
      <4>1. Beyond(con)[i] = con.mem[i] /\ Beyond(con)'[i] = con'.mem[i]
        BY <3>1 DEF Beyond
      <4> QED BY <2>1, <4>1
    <3> QED BY <3>1
  <2> QED BY <1>1, <2>1, Step DEF Stays
<1> QED BY InitInv, StepInv, <1>1, PTL DEF Spec, StoresOnPage

-----------------------------------------------------------------------------
(***************************************************************************)
(* The teletype.  The mapping needs what IInv says of the console, and the *)
(* type of the history variable.  A lemma for each thing the driver does   *)
(* to video memory says what it does to the roll: a scroll adds a blank    *)
(* line (ScrollPaper), a store sets one character (StorePaper), clrline    *)
(* blanks half a line (HalfPaper).                                         *)
(***************************************************************************)

Line == [0 .. WIDTH - 1 -> Char]

HInv == IInv /\ gone \in Seq(Line)

LEMMA RowsType ==
  ASSUME NEW m \in [Cells -> Char]
  PROVE  /\ \A r \in 0 .. HEIGHT - 1 : Row(m, r) \in Line
         /\ Rows(m) \in Seq(Line) /\ Len(Rows(m)) = HEIGHT
         /\ \A n \in 1 .. HEIGHT : Rows(m)[n] = Row(m, n - 1)
<1>1. ASSUME NEW r \in 0 .. HEIGHT - 1 PROVE Row(m, r) \in Line
  <2>1. r * WIDTH \in Nat /\ r * WIDTH + WIDTH <= Page /\ Page \in Nat /\ Page <= WINDOW
    BY CellBound
  <2> DEFINE o == r * WIDTH
  <2> HIDE DEF o
  <2>2. \A i \in 0 .. WIDTH - 1 : o + i \in Cells
    BY <2>1, VgaAssumption DEF Cells, o
  <2>3. Row(m, r) = [i \in 0 .. WIDTH - 1 |-> m[o + i]]
    BY DEF Row, o
  <2> QED BY <2>2, <2>3 DEF Line
<1>2. HEIGHT \in Nat
  BY VgaAssumption
<1>3. \A n \in 1 .. HEIGHT : Rows(m)[n] = Row(m, n - 1)
  BY DEF Rows
<1>4. Rows(m) \in [1 .. HEIGHT -> Line]
  <2>1. \A n \in 1 .. HEIGHT : n - 1 \in 0 .. HEIGHT - 1
    BY <1>2
  <2> QED BY <1>1, <2>1 DEF Rows
<1>5. Rows(m) \in Seq(Line)
  BY <1>2, <1>4, SeqDef
<1>6. Len(Rows(m)) = HEIGHT
  <2>1. DOMAIN Rows(m) = 1 .. HEIGHT
    BY DEF Rows
  <2>2. DOMAIN Rows(m) = 1 .. Len(Rows(m)) /\ Len(Rows(m)) \in Nat
    BY <1>5, LenProperties
  <2> QED BY <1>2, <2>1, <2>2
<1> QED BY <1>1, <1>3, <1>5, <1>6

\* The paper by line.
LEMMA Paper ==
  ASSUME NEW g \in Seq(Line), NEW m \in [Cells -> Char]
  PROVE  /\ g \o Rows(m) \in Seq(Line)
         /\ Len(g \o Rows(m)) = Len(g) + HEIGHT /\ Len(g) \in Nat
         /\ \A n \in 1 .. Len(g) + HEIGHT :
              (g \o Rows(m))[n] = IF n <= Len(g) THEN g[n] ELSE Row(m, n - Len(g) - 1)
<1> DEFINE R == Rows(m)
           p == g \o R
<1>1. R \in Seq(Line) /\ Len(R) = HEIGHT /\ \A n \in 1 .. HEIGHT : R[n] = Row(m, n - 1)
  BY RowsType
<1> HIDE DEF R
<1>2. /\ p \in Seq(Line) /\ Len(p) = Len(g) + Len(R) /\ Len(g) \in Nat
      /\ \A n \in 1 .. Len(g) + Len(R) : p[n] = IF n <= Len(g) THEN g[n] ELSE R[n - Len(g)]
  BY <1>1, ConcatProperties, LenProperties, Zenon
<1> HIDE DEF p
<1>3. \A n \in 1 .. Len(g) + HEIGHT : n > Len(g) => n - Len(g) \in 1 .. HEIGHT
  BY <1>2, VgaAssumption
<1>4. \A n \in 1 .. Len(g) + HEIGHT : p[n] = IF n <= Len(g) THEN g[n] ELSE Row(m, n - Len(g) - 1)
  <2> TAKE n \in 1 .. Len(g) + HEIGHT
  <2>1. n \in 1 .. Len(g) + Len(R)
    BY <1>1
  <2>2. p[n] = IF n <= Len(g) THEN g[n] ELSE R[n - Len(g)]
    BY <1>2, <2>1
  <2>3. CASE n <= Len(g)
    BY <2>2, <2>3
  <2>4. CASE ~(n <= Len(g))
    <3>1. n - Len(g) \in 1 .. HEIGHT
      BY <1>2, <1>3, <2>4, VgaAssumption
    <3>2. R[n - Len(g)] = Row(m, n - Len(g) - 1)
      BY <1>1, <3>1
    <3> QED BY <2>2, <2>4, <3>2
  <2> QED BY <2>3, <2>4
<1> QED BY <1>1, <1>2, <1>4 DEF p, R

\* vga_scroll moves every row up one and blanks the last.
LEMMA ShiftRows ==
  ASSUME NEW m \in [Cells -> Char]
  PROVE  /\ ShiftUp(m) \in [Cells -> Char]
         /\ \A r \in 0 .. HEIGHT - 2 : Row(ShiftUp(m), r) = Row(m, r + 1)
         /\ Row(ShiftUp(m), HEIGHT - 1) = Tty!BlankLine
<1>a. /\ WIDTH \in Nat /\ HEIGHT \in Nat /\ WINDOW \in Nat /\ WIDTH >= 2 /\ HEIGHT >= 2
      /\ NUL \in Char
  BY VgaAssumption
<1>b. Page \in Nat /\ Page <= WINDOW /\ WIDTH <= Page
  <2>1. 0 \in 0 .. HEIGHT - 1 /\ 0 * WIDTH = 0
    BY <1>a
  <2> QED BY <1>a, <2>1, CellBound
<1>1. ShiftUp(m) \in [Cells -> Char]
  BY <1>a, <1>b DEF ShiftUp, Cells
<1>2. ASSUME NEW r \in 0 .. HEIGHT - 2 PROVE Row(ShiftUp(m), r) = Row(m, r + 1)
  <2> DEFINE o == r * WIDTH
             q == (r + 1) * WIDTH
  <2>1. r + 1 \in 0 .. HEIGHT - 1 /\ r \in 0 .. HEIGHT - 1
    BY <1>a
  <2>2. o \in Nat /\ q \in Nat /\ q + WIDTH <= Page
    BY <2>1, CellBound
  <2>3. q = o + WIDTH
    BY <1>a, <2>1
  <2>4. /\ Row(ShiftUp(m), r) = [i \in 0 .. WIDTH - 1 |-> ShiftUp(m)[o + i]]
        /\ Row(m, r + 1) = [i \in 0 .. WIDTH - 1 |-> m[q + i]]
    BY DEF Row
  <2> HIDE DEF o, q
  <2>5. ASSUME NEW i \in 0 .. WIDTH - 1 PROVE ShiftUp(m)[o + i] = m[q + i]
    <3>1. o + i \in Cells /\ o + i < Page - WIDTH /\ o + i + WIDTH = q + i
      BY <1>a, <1>b, <2>2, <2>3 DEF Cells
    <3> QED BY <3>1 DEF ShiftUp
  <2> QED BY <2>4, <2>5
<1>3. Row(ShiftUp(m), HEIGHT - 1) = Tty!BlankLine
  <2> DEFINE o == (HEIGHT - 1) * WIDTH
  <2>1. HEIGHT - 1 \in 0 .. HEIGHT - 1
    BY <1>a
  <2>2. o \in Nat /\ o + WIDTH <= Page
    BY <2>1, CellBound
  <2>3. o = Page - WIDTH
    BY <1>a DEF Page
  <2>4. Row(ShiftUp(m), HEIGHT - 1) = [i \in 0 .. WIDTH - 1 |-> ShiftUp(m)[o + i]]
    BY DEF Row
  <2> HIDE DEF o
  <2>5. ASSUME NEW i \in 0 .. WIDTH - 1 PROVE ShiftUp(m)[o + i] = NUL
    <3>1. o + i \in Cells /\ ~(o + i < Page - WIDTH) /\ o + i < Page
      BY <1>a, <1>b, <2>2, <2>3 DEF Cells
    <3> QED BY <3>1 DEF ShiftUp
  <2> QED BY <2>4, <2>5 DEF Tty!BlankLine
<1> QED BY <1>1, <1>2, <1>3

LEMMA BlankIsLine == Tty!BlankLine \in Line
BY VgaAssumption DEF Tty!BlankLine, Line

\* One line scrolls off, one blank line is added to the roll.
LEMMA ScrollPaper ==
  ASSUME NEW g \in Seq(Line), NEW m \in [Cells -> Char]
  PROVE  /\ Append(g, Row(m, 0)) \in Seq(Line)
         /\ Len(Append(g, Row(m, 0))) = Len(g) + 1
         /\ Append(g, Row(m, 0)) \o Rows(ShiftUp(m)) = Append(g \o Rows(m), Tty!BlankLine)
<1> DEFINE a == Append(g, Row(m, 0))
           p == g \o Rows(m)
           q == Append(p, Tty!BlankLine)
           u == a \o Rows(ShiftUp(m))
           L == Len(g)
<1>a. WIDTH \in Nat /\ HEIGHT \in Nat /\ HEIGHT >= 2
  BY VgaAssumption
<1>1. Row(m, 0) \in Line
  <2>1. 0 \in 0 .. HEIGHT - 1
    BY <1>a
  <2> QED BY <2>1, RowsType
<1>2. /\ a \in Seq(Line) /\ Len(a) = L + 1 /\ L \in Nat
      /\ \A n \in 1 .. L : a[n] = g[n]
      /\ a[L + 1] = Row(m, 0)
  BY <1>1, AppendProperties, LenProperties
<1> HIDE DEF a
<1>3. /\ p \in Seq(Line) /\ Len(p) = L + HEIGHT
      /\ \A n \in 1 .. L + HEIGHT : p[n] = IF n <= L THEN g[n] ELSE Row(m, n - L - 1)
  BY Paper
<1> HIDE DEF p
<1>4. /\ q \in Seq(Line) /\ Len(q) = Len(p) + 1
      /\ \A n \in 1 .. Len(p) : q[n] = p[n]
      /\ q[Len(p) + 1] = Tty!BlankLine
  BY <1>3, BlankIsLine, AppendProperties
<1> HIDE DEF q
<1>5. /\ u \in Seq(Line) /\ Len(u) = Len(a) + HEIGHT
      /\ \A n \in 1 .. Len(a) + HEIGHT :
           u[n] = IF n <= Len(a) THEN a[n] ELSE Row(ShiftUp(m), n - Len(a) - 1)
  BY <1>2, ShiftRows, Paper
<1> HIDE DEF u
<1>6. Len(u) = L + 1 + HEIGHT /\ Len(q) = L + 1 + HEIGHT
  BY <1>a, <1>2, <1>3, <1>4, <1>5
<1>7. ASSUME NEW n \in 1 .. L + 1 + HEIGHT PROVE u[n] = q[n]
  <2>0. u[n] = IF n <= L + 1 THEN a[n] ELSE Row(ShiftUp(m), n - (L + 1) - 1)
    BY <1>2, <1>5
  <2>1. CASE n \in 1 .. L
    <3>1. n <= L + 1 /\ n \in 1 .. L + HEIGHT /\ n <= L
      BY <1>a, <1>2, <2>1
    <3>2. u[n] = g[n]
      BY <1>2, <2>0, <2>1, <3>1
    <3>3. q[n] = p[n] /\ p[n] = g[n]
      BY <1>3, <1>4, <3>1
    <3> QED BY <3>2, <3>3
  <2>2. CASE n = L + 1
    <3>1. n \in 1 .. L + HEIGHT /\ ~(n <= L) /\ n - L - 1 = 0 /\ n <= L + 1
      BY <1>a, <1>2, <2>2
    <3>2. q[n] = p[n] /\ p[n] = Row(m, 0)
      BY <1>3, <1>4, <3>1
    <3> QED BY <1>2, <2>0, <2>2, <3>1, <3>2
  <2>3. CASE n \in L + 2 .. L + HEIGHT
    <3> DEFINE r == n - L - 2
    <3>1. /\ n \in 1 .. L + HEIGHT /\ ~(n <= L) /\ ~(n <= L + 1) /\ n - L - 1 = r + 1
          /\ n - (L + 1) - 1 = r /\ r \in 0 .. HEIGHT - 2
      BY <1>a, <1>2, <2>3
    <3> HIDE DEF r
    <3>2. q[n] = p[n] /\ p[n] = Row(m, r + 1)
      BY <1>3, <1>4, <3>1
    <3>3. u[n] = Row(ShiftUp(m), r)
      BY <2>0, <3>1
    <3> QED BY <3>1, <3>2, <3>3, ShiftRows
  <2>4. CASE n = L + 1 + HEIGHT
    <3>1. n = Len(p) + 1 /\ ~(n <= L + 1) /\ n - (L + 1) - 1 = HEIGHT - 1
      BY <1>a, <1>2, <1>3, <2>4
    <3>2. q[n] = Tty!BlankLine
      BY <1>4, <3>1
    <3>3. u[n] = Row(ShiftUp(m), HEIGHT - 1)
      BY <2>0, <3>1
    <3> QED BY <3>2, <3>3, ShiftRows
  <2> QED BY <1>a, <1>2, <2>1, <2>2, <2>3, <2>4
<1>8. u = q
  BY <1>4, <1>5, <1>6, <1>7, SeqEqual
<1> QED BY <1>2, <1>8 DEF a, u, p, q

LEMMA ShortSeqs ==
  ASSUME NEW S, NEW s \in Seq(S), NEW a \in S, NEW b \in S
  PROVE  /\ s \o <<a>> = Append(s, a)
         /\ s \o <<a, b>> = Append(Append(s, a), b)
         /\ [i \in 1 .. 1 |-> a] = <<a>>
         /\ [i \in 1 .. 2 |-> a] = <<a, a>>
<1>1. s \o <<a>> = Append(s, a)
  OBVIOUS
<1>2. s \o <<a, b>> = Append(Append(s, a), b)
  OBVIOUS
<1>3. [i \in 1 .. 1 |-> a] = <<a>>
  OBVIOUS
<1>4. [i \in 1 .. 2 |-> a] = <<a, a>>
  OBVIOUS
<1> QED BY <1>1, <1>2, <1>3, <1>4

LEMMA FirstRows ==
  ASSUME NEW m \in [Cells -> Char]
  PROVE  /\ SubSeq(Rows(m), 1, 1) = <<Row(m, 0)>>
         /\ SubSeq(Rows(m), 1, 2) = <<Row(m, 0), Row(m, 1)>>
<1> DEFINE R == Rows(m)
<1>1. R \in Seq(Line) /\ Len(R) >= 2 /\ R[1] = Row(m, 0) /\ R[2] = Row(m, 1)
  <2>1. 1 \in 1 .. HEIGHT /\ 2 \in 1 .. HEIGHT /\ HEIGHT >= 2 /\ 1 - 1 = 0 /\ 2 - 1 = 1
    BY VgaAssumption
  <2> QED BY <2>1, RowsType
<1> HIDE DEF R
<1>2. SubSeq(R, 1, 1) = <<R[1]>> /\ SubSeq(R, 1, 2) = <<R[1], R[2]>>
  <2>1. R[1] \in Line /\ R[2] \in Line
    BY <1>1, ElementOfSeq
  <2> DEFINE p == SubSeq(R, 1, 1)
             q == SubSeq(R, 1, 2)
             a == R[1]
             b == R[2]
  <2>2. p \in Seq(Line) /\ Len(p) = 1 /\ p[1] = a
    <3>1. \A i \in 1 .. 1 : R[i] \in Line
      BY <2>1
    <3>2. /\ p \in Seq(Line) /\ Len(p) = IF 1 <= 1 THEN 1 - 1 + 1 ELSE 0
          /\ \A i \in 1 .. 1 - 1 + 1 : p[i] = R[1 + i - 1]
      BY <3>1, SubSeqProperties
    <3> HIDE DEF p
    <3> QED BY <3>2
  <2>3. q \in Seq(Line) /\ Len(q) = 2 /\ q[1] = a /\ q[2] = b
    <3>1. \A i \in 1 .. 2 : R[i] \in Line
      BY <2>1
    <3>2. /\ q \in Seq(Line) /\ Len(q) = IF 1 <= 2 THEN 2 - 1 + 1 ELSE 0
          /\ \A i \in 1 .. 2 - 1 + 1 : q[i] = R[1 + i - 1]
      BY <3>1, SubSeqProperties
    <3> HIDE DEF q
    <3> QED BY <3>2
  <2> HIDE DEF a, b, p, q
  <2>4. a \in Line /\ b \in Line
    BY <2>1 DEF a, b
  <2>5. p = <<a>> /\ q = <<a, b>>
    BY <2>2, <2>3, <2>4
  <2> QED BY <2>5 DEF a, b, p, q
<1> QED BY <1>1, <1>2 DEF R

\* What has scrolled off after one line feed.
Fed(g, k) == IF k.ty + 1 >= HEIGHT THEN Append(g, Row(k.mem, 0)) ELSE g

LEMMA FeedOne ==
  ASSUME NEW g \in Seq(Line), NEW k, Good(k), k.ty < HEIGHT
  PROVE  /\ Fed(g, k) \in Seq(Line) /\ Len(Fed(g, k)) \in Nat
         /\ Len(Fed(g, k)) + NewLine(k).ty = Len(g) + k.ty + 1
         /\ k.ty + 1 >= HEIGHT =>
              /\ NewLine(k).mem = ShiftUp(k.mem) /\ NewLine(k).ty = HEIGHT - 1
              /\ Fed(g, k) \o Rows(NewLine(k).mem) = Append(g \o Rows(k.mem), Tty!BlankLine)
         /\ k.ty + 1 < HEIGHT =>
              Fed(g, k) = g /\ NewLine(k).mem = k.mem /\ NewLine(k).ty = k.ty + 1
<1>1. k.ty \in Nat /\ k.mem \in [Cells -> Char] /\ k \in Console /\ k.tx \in Nat
  BY GoodPos DEF Good
<1>a. HEIGHT \in Nat /\ Len(g) \in Nat
  BY VgaAssumption, LenProperties
<1>2. /\ At(k, 0, k.ty + 1).ty = k.ty + 1 /\ At(k, 0, k.ty + 1).mem = k.mem
      /\ At(k, 0, k.ty + 1) \in Console /\ At(k, 0, k.ty + 1).tx = 0
  <2> DEFINE yy == k.ty + 1
  <2>1. yy \in Nat
    BY <1>1
  <2> HIDE DEF yy
  <2>2. /\ At(k, 0, yy).ty = yy /\ At(k, 0, yy).mem = k.mem
        /\ At(k, 0, yy) \in Console /\ At(k, 0, yy).tx = 0
    BY <1>1, <2>1 DEF At, Console
  <2> QED BY <2>2 DEF yy
<1>3. CASE k.ty + 1 >= HEIGHT
  <2> DEFINE b == At(k, 0, k.ty + 1)
  <2>1. NewLine(k) = At(Paint(b, ShiftUp(k.mem)), 0, HEIGHT - 1)
    BY <1>2, <1>3 DEF NewLine, vga_scroll
  <2> HIDE DEF b
  <2>2. NewLine(k).mem = ShiftUp(k.mem) /\ NewLine(k).ty = HEIGHT - 1
    BY <1>2, <2>1 DEF At, Paint, Console, b
  <2>3. Fed(g, k) = Append(g, Row(k.mem, 0))
    BY <1>3 DEF Fed
  <2>4. /\ Append(g, Row(k.mem, 0)) \in Seq(Line)
        /\ Len(Append(g, Row(k.mem, 0))) = Len(g) + 1
        /\ Append(g, Row(k.mem, 0)) \o Rows(ShiftUp(k.mem)) = Append(g \o Rows(k.mem), Tty!BlankLine)
    BY <1>1, ScrollPaper
  <2>5. k.ty = HEIGHT - 1
    BY <1>1, <1>3, <1>a
  <2>6. Len(Fed(g, k)) \in Nat /\ Len(Fed(g, k)) + NewLine(k).ty = Len(g) + k.ty + 1
    BY <1>a, <2>2, <2>3, <2>4, <2>5
  <2>7. ~(k.ty + 1 < HEIGHT)
    BY <1>1, <1>3, <1>a
  <2>8. Fed(g, k) \o Rows(NewLine(k).mem) = Append(g \o Rows(k.mem), Tty!BlankLine)
    BY <2>2, <2>3, <2>4
  <2>9. Fed(g, k) \in Seq(Line)
    BY <2>3, <2>4
  <2> QED BY <2>2, <2>6, <2>7, <2>8, <2>9, Zenon
<1>4. CASE k.ty + 1 < HEIGHT
  <2>1. NewLine(k) = At(k, 0, k.ty + 1)
    BY <1>1, <1>2, <1>4, <1>a DEF NewLine, vga_scroll
  <2>2. Fed(g, k) = g
    BY <1>1, <1>4, <1>a DEF Fed
  <2> QED BY <1>1, <1>2, <1>4, <1>a, <2>1, <2>2
<1>5. k.ty + 1 >= HEIGHT \/ k.ty + 1 < HEIGHT
  BY <1>1, <1>a
<1> QED BY <1>3, <1>4, <1>5, Zenon

\* A cell is in one row and column only.
LEMMA OneCell ==
  ASSUME NEW r \in Nat, NEW s \in Nat, NEW i \in 0 .. WIDTH - 1, NEW j \in 0 .. WIDTH - 1,
         r * WIDTH + i = s * WIDTH + j
  PROVE  r = s /\ i = j
<1>a. WIDTH \in Nat /\ WIDTH >= 2
  BY VgaAssumption
<1>1. ASSUME NEW a \in Nat, NEW b \in Nat, a < b,
             NEW p \in 0 .. WIDTH - 1, NEW q \in 0 .. WIDTH - 1
      PROVE  a * WIDTH + p # b * WIDTH + q
  <2>1. PICK d \in Nat : b = a + 1 + d
    <3>1. b - a - 1 \in Nat /\ b = a + 1 + (b - a - 1)
      BY <1>1
    <3> QED BY <3>1
  <2>2. b * WIDTH = a * WIDTH + WIDTH + d * WIDTH
    BY <1>a, <2>1
  <2>3. d * WIDTH \in Nat /\ a * WIDTH \in Nat /\ b * WIDTH \in Nat
    BY <1>a
  <2> QED BY <1>a, <2>2, <2>3
<1>2. r = s
  <2>1. ~(r < s) /\ ~(s < r)
    BY <1>1
  <2> QED BY <2>1
<1>3. r * WIDTH \in Nat
  BY <1>a
<1> QED BY <1>2, <1>3

\* A character in a row of the page, and in a line of the paper.
InRow(m, r, i, c)   == [m EXCEPT ![r * WIDTH + i] = c]
OnPaper(p, n, i, c) == [p EXCEPT ![n][i] = c]

\* A store into a row of the page is a store into a line of the paper.
LEMMA StorePaper ==
  ASSUME NEW g \in Seq(Line), NEW m \in [Cells -> Char],
         NEW r \in 0 .. HEIGHT - 1, NEW i \in 0 .. WIDTH - 1, NEW c \in Char
  PROVE  g \o Rows(InRow(m, r, i, c)) = OnPaper(g \o Rows(m), Len(g) + r + 1, i, c)
<1> DEFINE o == r * WIDTH + i
           s == [m EXCEPT ![o] = c]
           p == g \o Rows(m)
           u == g \o Rows(s)
           L == Len(g)
           v == [p EXCEPT ![L + r + 1][i] = c]
<1>a. WIDTH \in Nat /\ HEIGHT \in Nat /\ HEIGHT >= 2 /\ WIDTH >= 2
  BY VgaAssumption
<1>1. o \in Cells
  <2>1. r * WIDTH \in Nat /\ r * WIDTH + WIDTH <= Page /\ Page \in Nat /\ Page <= WINDOW
    BY CellBound
  <2> QED BY <1>a, <2>1, VgaAssumption DEF Cells
<1> HIDE DEF o
<1>2. s \in [Cells -> Char] /\ s[o] = c /\ \A n \in Cells : n # o => s[n] = m[n]
  BY <1>1
<1> HIDE DEF s
<1>3. /\ p \in Seq(Line) /\ Len(p) = L + HEIGHT /\ L \in Nat
      /\ \A n \in 1 .. L + HEIGHT : p[n] = IF n <= L THEN g[n] ELSE Row(m, n - L - 1)
  BY Paper
<1>4. /\ u \in Seq(Line) /\ Len(u) = L + HEIGHT
      /\ \A n \in 1 .. L + HEIGHT : u[n] = IF n <= L THEN g[n] ELSE Row(s, n - L - 1)
  BY <1>2, Paper
<1> HIDE DEF p, u
<1>b. DOMAIN p = 1 .. L + HEIGHT /\ DOMAIN u = 1 .. L + HEIGHT
  BY <1>3, <1>4, LenProperties
<1>c. L + r + 1 \in 1 .. L + HEIGHT /\ L + r + 1 > L
  BY <1>a, <1>3
<1>5. \A q \in 0 .. HEIGHT - 1 : q # r => Row(s, q) = Row(m, q)
  <2> TAKE q \in 0 .. HEIGHT - 1
  <2> HAVE q # r
  <2>1. q * WIDTH \in Nat /\ q * WIDTH + WIDTH <= Page /\ Page \in Nat /\ Page <= WINDOW
    BY CellBound
  <2>2. ASSUME NEW j \in 0 .. WIDTH - 1 PROVE s[q * WIDTH + j] = m[q * WIDTH + j]
    <3>1. q * WIDTH + j # o
      BY <1>a, OneCell DEF o
    <3> DEFINE z == q * WIDTH
    <3> HIDE DEF z
    <3>2. z + j \in Cells
      BY <1>a, <2>1, VgaAssumption DEF Cells, z
    <3> QED BY <1>2, <3>1, <3>2 DEF z
  <2> QED BY <2>2 DEF Row
<1>6. Row(s, r) = [Row(m, r) EXCEPT ![i] = c]
  <2>1. r * WIDTH \in Nat /\ r * WIDTH + WIDTH <= Page /\ Page \in Nat /\ Page <= WINDOW
    BY CellBound
  <2>2. ASSUME NEW j \in 0 .. WIDTH - 1, j # i PROVE s[r * WIDTH + j] = m[r * WIDTH + j]
    <3>1. r * WIDTH + j # o
      BY <1>a, <2>2, OneCell DEF o
    <3> DEFINE z == r * WIDTH
    <3> HIDE DEF z
    <3>2. z + j \in Cells
      BY <1>a, <2>1, VgaAssumption DEF Cells, z
    <3> QED BY <1>2, <3>1, <3>2 DEF z
  <2>3. s[r * WIDTH + i] = c
    BY <1>2 DEF o
  <2> QED BY <2>2, <2>3 DEF Row
<1>7. p[L + r + 1] = Row(m, r)
  <2>1. ~(L + r + 1 <= L) /\ L + r + 1 - L - 1 = r
    BY <1>a, <1>3
  <2> QED BY <1>3, <1>c, <2>1
<1>8. /\ DOMAIN v = DOMAIN p /\ v[L + r + 1] = [Row(m, r) EXCEPT ![i] = c]
      /\ \A n \in DOMAIN p : n # L + r + 1 => v[n] = p[n]
      /\ v = [n \in DOMAIN p |-> v[n]]
  BY <1>7, <1>b, <1>c
<1>9. ASSUME NEW n \in 1 .. L + HEIGHT PROVE u[n] = v[n]
  <2>1. CASE n = L + r + 1
    <3>1. ~(n <= L) /\ n - L - 1 = r
      BY <1>a, <1>3, <2>1
    <3>2. u[n] = Row(s, r)
      BY <1>4, <3>1
    <3> QED BY <1>6, <1>8, <2>1, <3>2
  <2>2. CASE n # L + r + 1
    <3>1. v[n] = p[n]
      BY <1>8, <1>b, <2>2
    <3>2. CASE n <= L
      BY <1>3, <1>4, <3>1, <3>2
    <3>3. CASE ~(n <= L)
      <4>1. n - L - 1 \in 0 .. HEIGHT - 1 /\ n - L - 1 # r
        BY <1>a, <1>3, <2>2, <3>3
      <4>2. u[n] = Row(s, n - L - 1) /\ p[n] = Row(m, n - L - 1)
        BY <1>3, <1>4, <3>3
      <4> QED BY <1>5, <3>1, <4>1, <4>2
    <3> QED BY <3>2, <3>3
  <2> QED BY <2>1, <2>2
<1>10. u = [n \in 1 .. L + HEIGHT |-> u[n]]
  BY <1>4, <1>b, LenProperties
<1> HIDE DEF v
<1>11. u = v
  BY <1>8, <1>9, <1>10, <1>b
<1> QED BY <1>11 DEF u, v, s, o, p, InRow, OnPaper

\* The cells that clrline_y leaves, and the line it blanks half of.
Halved(m, r) ==
  [i \in Cells |-> IF r * WIDTH <= i /\ i < r * WIDTH + (WIDTH \div 2) THEN NUL ELSE m[i]]

HalfLine(l) == [i \in 0 .. WIDTH - 1 |-> IF i < WIDTH \div 2 THEN NUL ELSE l[i]]

LEMMA HalfPaper ==
  ASSUME NEW g \in Seq(Line), NEW m \in [Cells -> Char], NEW r \in 0 .. HEIGHT - 1
  PROVE  g \o Rows(Halved(m, r)) = [g \o Rows(m) EXCEPT ![Len(g) + r + 1] = HalfLine(@)]
<1> DEFINE s == Halved(m, r)
           p == g \o Rows(m)
           u == g \o Rows(s)
           L == Len(g)
           v == [p EXCEPT ![L + r + 1] = HalfLine(@)]
<1>a. /\ WIDTH \in Nat /\ HEIGHT \in Nat /\ HEIGHT >= 2 /\ WIDTH >= 2
      /\ WIDTH \div 2 \in Nat /\ WIDTH \div 2 <= WIDTH /\ NUL \in Char
  BY VgaAssumption
<1>2. s \in [Cells -> Char]
  BY <1>a DEF Halved
<1>3. /\ p \in Seq(Line) /\ Len(p) = L + HEIGHT /\ L \in Nat
      /\ \A n \in 1 .. L + HEIGHT : p[n] = IF n <= L THEN g[n] ELSE Row(m, n - L - 1)
  BY Paper
<1>d. \A q \in 0 .. HEIGHT - 1, j \in 0 .. WIDTH - 1 :
         s[q * WIDTH + j] = IF q = r /\ j < WIDTH \div 2 THEN NUL ELSE m[q * WIDTH + j]
  <2> TAKE q \in 0 .. HEIGHT - 1, j \in 0 .. WIDTH - 1
  <2> DEFINE z == q * WIDTH
             y == r * WIDTH
  <2>1. z \in Nat /\ z + WIDTH <= Page /\ Page \in Nat /\ Page <= WINDOW /\ y \in Nat
    BY CellBound
  <2>2. q # r => ~(y <= z + j /\ z + j < y + WIDTH)
    <3> SUFFICES ASSUME q # r, y <= z + j, z + j < y + WIDTH PROVE FALSE
      BY Zenon
    <3> DEFINE i == z + j - y
    <3>1. i \in 0 .. WIDTH - 1 /\ z + j = y + i
      <4> HIDE DEF y, z
      <4> QED BY <1>a, <2>1
    <3> HIDE DEF i
    <3>2. q \in Nat /\ r \in Nat /\ q * WIDTH + j = r * WIDTH + i
      BY <1>a, <3>1
    <3> QED BY <3>1, <3>2, OneCell
  <2>3. q = r => z = y
    OBVIOUS
  <2>4. s[z + j] = IF y <= z + j /\ z + j < y + (WIDTH \div 2) THEN NUL ELSE m[z + j]
    <3>1. z + j \in Cells
      <4> HIDE DEF y, z
      <4> QED BY <1>a, <2>1, VgaAssumption DEF Cells
    <3> QED BY <3>1 DEF Halved
  <2> HIDE DEF y, z, s
  <2>5. s[z + j] = IF q = r /\ j < WIDTH \div 2 THEN NUL ELSE m[z + j]
    <3>1. CASE q = r
      BY <1>a, <2>1, <2>3, <2>4, <3>1
    <3>2. CASE q # r
      BY <1>a, <2>1, <2>2, <2>4, <3>2
    <3> QED BY <3>1, <3>2
  <2> QED BY <2>5 DEF z
<1> HIDE DEF s
<1>4. /\ u \in Seq(Line) /\ Len(u) = L + HEIGHT
      /\ \A n \in 1 .. L + HEIGHT : u[n] = IF n <= L THEN g[n] ELSE Row(s, n - L - 1)
  BY <1>2, Paper
<1> HIDE DEF p, u
<1>b. DOMAIN p = 1 .. L + HEIGHT /\ DOMAIN u = 1 .. L + HEIGHT
  BY <1>3, <1>4, LenProperties
<1>c. L + r + 1 \in 1 .. L + HEIGHT /\ L + r + 1 > L
  BY <1>a, <1>3
<1>5. \A q \in 0 .. HEIGHT - 1 : q # r => Row(s, q) = Row(m, q)
  BY <1>d DEF Row
<1>6. Row(s, r) = HalfLine(Row(m, r))
  BY <1>d DEF Row, HalfLine
<1>7. p[L + r + 1] = Row(m, r)
  <2>1. ~(L + r + 1 <= L) /\ L + r + 1 - L - 1 = r
    BY <1>a, <1>3
  <2> QED BY <1>3, <1>c, <2>1
<1>8. /\ DOMAIN v = DOMAIN p /\ v[L + r + 1] = HalfLine(Row(m, r))
      /\ \A n \in DOMAIN p : n # L + r + 1 => v[n] = p[n]
      /\ v = [n \in DOMAIN p |-> v[n]]
  BY <1>7, <1>b, <1>c
<1>9. ASSUME NEW n \in 1 .. L + HEIGHT PROVE u[n] = v[n]
  <2>1. CASE n = L + r + 1
    <3>1. ~(n <= L) /\ n - L - 1 = r
      BY <1>a, <1>3, <2>1
    <3>2. u[n] = Row(s, r)
      BY <1>4, <3>1
    <3> QED BY <1>6, <1>8, <2>1, <3>2
  <2>2. CASE n # L + r + 1
    <3>1. v[n] = p[n]
      BY <1>8, <1>b, <2>2
    <3>2. CASE n <= L
      BY <1>3, <1>4, <3>1, <3>2
    <3>3. CASE ~(n <= L)
      <4>1. n - L - 1 \in 0 .. HEIGHT - 1 /\ n - L - 1 # r
        BY <1>a, <1>3, <2>2, <3>3
      <4>2. u[n] = Row(s, n - L - 1) /\ p[n] = Row(m, n - L - 1)
        BY <1>3, <1>4, <3>3
      <4> QED BY <1>5, <3>1, <4>1, <4>2
    <3> QED BY <3>2, <3>3
  <2> QED BY <2>1, <2>2
<1>10. u = [n \in 1 .. L + HEIGHT |-> u[n]]
  BY <1>4, <1>b, LenProperties
<1> HIDE DEF v
<1>11. u = v
  BY <1>8, <1>9, <1>10, <1>b
<1> QED BY <1>11 DEF u, v, s, p

\* The history variable follows the line feeds.
LEMMA FeedsGone ==
  ASSUME HInv
  PROVE  /\ Feeds(0) => gone' = gone
         /\ Feeds(1) => gone' = Fed(gone, con)
         /\ Feeds(2) => gone' = Fed(Fed(gone, con), NewLine(con))
<1>1. /\ Good(con) /\ con.ty \in Nat /\ con.ty < HEIGHT /\ con.mem \in [Cells -> Char]
      /\ gone \in Seq(Line) /\ HEIGHT \in Nat /\ HEIGHT >= 2
  BY GoodPos, VgaAssumption DEF HInv, IInv
<1> DEFINE R == Rows(con.mem)
           a == Row(con.mem, 0)
           b == Row(con.mem, 1)
<1>2. /\ SubSeq(R, 1, 1) = <<a>> /\ SubSeq(R, 1, 2) = <<a, b>>
      /\ a \in Line /\ b \in Line
  <2>1. 0 \in 0 .. HEIGHT - 1 /\ 1 \in 0 .. HEIGHT - 1
    BY <1>1
  <2> QED BY <1>1, <2>1, FirstRows, RowsType
<1> HIDE DEF R, a, b
<1>b. gone \o <<a>> = Append(gone, a) /\ gone \o <<a, b>> = Append(Append(gone, a), b)
  BY <1>1, <1>2, ShortSeqs
<1>3. gone \o SubSeq(R, 1, 1) = Append(gone, a) /\ gone \o SubSeq(R, 1, 2) = Append(Append(gone, a), b)
  BY <1>2, <1>b, Zenon
<1> DEFINE off(n) == con.ty + n - (HEIGHT - 1)
           After(n) == IF off(n) > 0 THEN gone \o SubSeq(R, 1, off(n)) ELSE gone
<1>4. \A n : Feeds(n) => gone' = After(n)
  BY DEF Feeds, R
<1>c. /\ off(0) = con.ty - (HEIGHT - 1)
      /\ off(1) = con.ty + 1 - (HEIGHT - 1)
      /\ off(2) = con.ty + 2 - (HEIGHT - 1)
  BY <1>1
<1> HIDE DEF off
<1>5. After(0) = gone
  BY <1>1, <1>c
<1>6. After(1) = Fed(gone, con)
  <2>1. CASE con.ty = HEIGHT - 1
    <3>1. off(1) = 1 /\ con.ty + 1 >= HEIGHT
      BY <1>1, <1>c, <2>1
    <3>2. After(1) = Append(gone, a)
      BY <1>3, <3>1
    <3>3. Fed(gone, con) = Append(gone, a)
      BY <3>1 DEF Fed, a
    <3> QED BY <3>2, <3>3
  <2>2. CASE con.ty < HEIGHT - 1
    <3>1. ~(off(1) > 0) /\ ~(con.ty + 1 >= HEIGHT)
      BY <1>1, <1>c, <2>2
    <3> QED BY <3>1 DEF Fed
  <2> HIDE DEF After
  <2> QED BY <1>1, <2>1, <2>2
<1>7. After(2) = Fed(Fed(gone, con), NewLine(con))
  <2>0. /\ con.ty + 1 >= HEIGHT =>
              NewLine(con).mem = ShiftUp(con.mem) /\ NewLine(con).ty = HEIGHT - 1
        /\ con.ty + 1 < HEIGHT =>
              /\ Fed(gone, con) = gone /\ NewLine(con).mem = con.mem
              /\ NewLine(con).ty = con.ty + 1
    BY <1>1, FeedOne
  <2>1. CASE con.ty = HEIGHT - 1
    <3>1. off(2) = 2 /\ con.ty + 1 >= HEIGHT
      <4> HIDE DEF After
      <4>1. con.ty + 2 - (HEIGHT - 1) = 2 /\ con.ty + 1 >= HEIGHT
        BY <1>1, <2>1
      <4> QED BY <1>c, <4>1
    <3>2. After(2) = Append(Append(gone, a), b)
      <4>1. After(2) = gone \o SubSeq(R, 1, 2)
        <5>1. off(2) > 0
          BY <3>1
        <5> QED BY <3>1, <5>1, Zenon
      <4> QED BY <1>3, <4>1, Zenon
    <3>3. Fed(gone, con) = Append(gone, a)
      BY <3>1 DEF Fed, a
    <3>4. NewLine(con).ty + 1 >= HEIGHT
      BY <1>1, <2>0, <3>1
    <3>5. Row(NewLine(con).mem, 0) = b
      <4>1. 0 \in 0 .. HEIGHT - 2 /\ 0 + 1 = 1
        BY <1>1
      <4>2. Row(ShiftUp(con.mem), 0) = Row(con.mem, 0 + 1)
        BY <1>1, <4>1, ShiftRows
      <4> QED BY <2>0, <3>1, <4>1, <4>2 DEF b
    <3>6. Fed(Append(gone, a), NewLine(con)) = Append(Append(gone, a), b)
      BY <3>4, <3>5 DEF Fed
    <3> QED BY <3>2, <3>3, <3>6
  <2>2. CASE con.ty = HEIGHT - 2
    <3>1. off(2) = 1 /\ con.ty + 1 < HEIGHT
      BY <1>1, <1>c, <2>2
    <3>2. After(2) = Append(gone, a)
      BY <1>3, <3>1
    <3>3. NewLine(con).ty + 1 >= HEIGHT /\ Row(NewLine(con).mem, 0) = a
      BY <1>1, <2>0, <2>2, <3>1 DEF a
    <3>4. Fed(gone, NewLine(con)) = Append(gone, a)
      BY <3>3 DEF Fed
    <3> QED BY <2>0, <3>1, <3>2, <3>4
  <2>3. CASE con.ty < HEIGHT - 2
    <3>1. ~(off(2) > 0) /\ con.ty + 1 < HEIGHT
      BY <1>1, <1>c, <2>3
    <3>2. After(2) = gone
      BY <3>1
    <3>3. ~(NewLine(con).ty + 1 >= HEIGHT)
      BY <1>1, <2>0, <2>3, <3>1
    <3>4. Fed(gone, NewLine(con)) = gone
      BY <3>3 DEF Fed
    <3> QED BY <2>0, <3>1, <3>2, <3>4
  <2> HIDE DEF After
  <2> QED BY <1>1, <2>1, <2>2, <2>3
<1> HIDE DEF After
<1> QED BY <1>4, <1>5, <1>6, <1>7

\* The paper is fed where the page scrolls.
LEMMA PaperFed ==
  ASSUME HInv
  PROVE  /\ Tty!FeedLines(0) = gone \o Rows(con.mem)
         /\ Tty!FeedLines(1) = Fed(gone, con) \o Rows(NewLine(con).mem)
         /\ Tty!FeedLines(2) = Fed(Fed(gone, con), NewLine(con)) \o Rows(NewLine(NewLine(con)).mem)
<1> DEFINE n1 == NewLine(con)
           n2 == NewLine(n1)
           g1 == Fed(gone, con)
           g2 == Fed(g1, n1)
           p == gone \o Rows(con.mem)
           B == Tty!BlankLine
           need(n) == (Len(gone) + con.ty + 1 + n) - Len(p)
           F(n) == IF need(n) > 0 THEN p \o [i \in 1 .. need(n) |-> B] ELSE p
<1>1. /\ Good(con) /\ con.ty \in Nat /\ con.ty < HEIGHT /\ con.mem \in [Cells -> Char]
      /\ gone \in Seq(Line) /\ HEIGHT \in Nat /\ HEIGHT >= 2
  BY GoodPos, VgaAssumption DEF HInv, IInv
<1>2. p \in Seq(Line) /\ Len(p) = Len(gone) + HEIGHT /\ Len(gone) \in Nat
  BY <1>1, Paper
<1>3. B \in Line
  BY BlankIsLine
<1>4. \A n : Tty!FeedLines(n) = F(n)
  BY DEF Tty!FeedLines
<1>5. /\ Good(n1) /\ n1.ty < HEIGHT /\ n1.ty \in Nat
  BY <1>1, NewLineGood, GoodPos
<1>6. /\ g1 \in Seq(Line)
      /\ con.ty + 1 >= HEIGHT => n1.ty = HEIGHT - 1 /\ g1 \o Rows(n1.mem) = Append(p, B)
      /\ con.ty + 1 < HEIGHT => g1 = gone /\ n1.mem = con.mem /\ n1.ty = con.ty + 1
  BY <1>1, FeedOne
<1> HIDE DEF n1, g1
<1>7. /\ n1.ty + 1 >= HEIGHT => g2 \o Rows(n2.mem) = Append(g1 \o Rows(n1.mem), B)
      /\ n1.ty + 1 < HEIGHT => g2 = g1 /\ n2.mem = n1.mem
  BY <1>5, <1>6, FeedOne
<1> HIDE DEF n2, g2, p, B
<1>8. /\ p \o [i \in 1 .. 1 |-> B] = Append(p, B)
      /\ p \o [i \in 1 .. 2 |-> B] = Append(Append(p, B), B)
  BY <1>2, <1>3, ShortSeqs
<1>9. /\ need(0) = con.ty + 1 - HEIGHT
      /\ need(1) = con.ty + 2 - HEIGHT
      /\ need(2) = con.ty + 3 - HEIGHT
  <2> DEFINE L == Len(gone)
             P == Len(p)
             t == con.ty
  <2>1. L \in Nat /\ P = L + HEIGHT /\ HEIGHT \in Nat /\ t \in Nat
    BY <1>1, <1>2
  <2> HIDE DEF L, P, t
  <2>2. /\ (L + t + 1 + 0) - P = t + 1 - HEIGHT
        /\ (L + t + 1 + 1) - P = t + 2 - HEIGHT
        /\ (L + t + 1 + 2) - P = t + 3 - HEIGHT
    BY <2>1
  <2> QED BY <2>2 DEF L, P, t
<1> HIDE DEF need
<1>10. F(0) = p
  BY <1>1, <1>9
<1>11. F(1) = g1 \o Rows(n1.mem)
  <2>1. CASE con.ty = HEIGHT - 1
    <3>1. need(1) = 1 /\ con.ty + 1 >= HEIGHT
      BY <1>1, <1>9, <2>1
    <3>2. F(1) = p \o [i \in 1 .. 1 |-> B]
      BY <3>1
    <3> HIDE DEF F
    <3> QED BY <1>6, <1>8, <3>1, <3>2
  <2>2. CASE con.ty < HEIGHT - 1
    <3>1. ~(need(1) > 0) /\ con.ty + 1 < HEIGHT
      BY <1>1, <1>9, <2>2
    <3> QED BY <1>6, <3>1 DEF p
  <2> HIDE DEF F
  <2>3. con.ty = HEIGHT - 1 \/ con.ty < HEIGHT - 1
    BY <1>1
  <2> QED BY <2>1, <2>2, <2>3, Zenon
<1>12. F(2) = g2 \o Rows(n2.mem)
  <2>1. CASE con.ty = HEIGHT - 1
    <3>1. need(2) = 2 /\ con.ty + 1 >= HEIGHT
      BY <1>1, <1>9, <2>1, SMTT(30)
    <3>2. n1.ty + 1 >= HEIGHT
      BY <1>1, <1>6, <3>1
    <3>3. F(2) = p \o [i \in 1 .. 2 |-> B]
      BY <3>1
    <3> HIDE DEF F
    <3> QED BY <1>6, <1>7, <1>8, <3>1, <3>2, <3>3
  <2>2. CASE con.ty = HEIGHT - 2
    <3>1. need(2) = 1 /\ con.ty + 1 < HEIGHT
      BY <1>1, <1>9, <2>2
    <3>2. n1.ty + 1 >= HEIGHT
      BY <1>1, <1>6, <2>2, <3>1
    <3>3. g1 \o Rows(n1.mem) = p
      BY <1>6, <3>1 DEF p
    <3>4. F(2) = p \o [i \in 1 .. 1 |-> B]
      BY <3>1
    <3> HIDE DEF F
    <3> QED BY <1>7, <1>8, <3>2, <3>3, <3>4
  <2>3. CASE con.ty < HEIGHT - 2
    <3>1. ~(need(2) > 0) /\ con.ty + 1 < HEIGHT
      BY <1>1, <1>9, <2>3
    <3>2. n1.ty + 1 < HEIGHT
      BY <1>1, <1>6, <2>3, <3>1
    <3>3. g2 = gone /\ n2.mem = con.mem
      BY <1>6, <1>7, <3>1, <3>2
    <3> QED BY <3>1, <3>3 DEF p
  <2> HIDE DEF F
  <2>4. con.ty = HEIGHT - 1 \/ con.ty = HEIGHT - 2 \/ con.ty < HEIGHT - 2
    BY <1>1
  <2> QED BY <2>1, <2>2, <2>3, <2>4, Zenon
<1> HIDE DEF F
<1> QED BY <1>4, <1>10, <1>11, <1>12 DEF n1, n2, g1, g2, p

\* Where putc stands after the wrap test.
Wrapped(k) == IF k.tx >= WIDTH THEN NewLine(k) ELSE k

LEMMA WrappedGood ==
  ASSUME NEW k, Good(k), k.ty < HEIGHT
  PROVE  /\ Good(Wrapped(k)) /\ Wrapped(k).ty \in 0 .. HEIGHT - 1
         /\ Wrapped(k).tx \in 0 .. WIDTH - 1
         /\ k.tx >= WIDTH => Wrapped(k).tx = 0
BY NewLineGood, GoodPos, VgaAssumption DEF Wrapped

\* What cursor writes: the CRTC registers hold the position.
LEMMA CursorFields ==
  ASSUME NEW k, Good(k), NEW x \in Nat, NEW y \in Nat
  PROVE  /\ cursor(k, x, y).mem = k.mem
         /\ cursor(k, x, y).crtc.hi * CRTCBASE + cursor(k, x, y).crtc.lo = y * WIDTH + x
<1> DEFINE pos == y * WIDTH + x
           q == cursor(k, x, y)
<1>1. pos \in Nat
  BY VgaAssumption
<1>2. k \in Console
  BY DEF Good
<1>3. q.mem = k.mem /\ q.crtc = [lo |-> pos % CRTCBASE, hi |-> pos \div CRTCBASE]
  BY <1>2 DEF cursor, Console
<1> HIDE DEF pos, q
<1>4. (pos \div CRTCBASE) * CRTCBASE + (pos % CRTCBASE) = pos
  BY <1>1, VgaAssumption
<1>5. q.crtc.hi * CRTCBASE + q.crtc.lo = pos
  BY <1>3, <1>4
<1> QED BY <1>3, <1>5 DEF q, pos

\* The effect of putc on every field.
LEMMA PutcLineEnd ==
  ASSUME NEW k, Good(k), k.ty < HEIGHT, NEW c \in {LF, CR}
  PROVE  /\ putc(k, c).mem = NewLine(Wrapped(k)).mem
         /\ putc(k, c).tx = 0 /\ putc(k, c).ty = NewLine(Wrapped(k)).ty
         /\ putc(k, c).crtc.hi * CRTCBASE + putc(k, c).crtc.lo
              = putc(k, c).ty * WIDTH + putc(k, c).tx
<1> DEFINE w == Wrapped(k)
           n == NewLine(w)
           q == cursor(n, n.tx, n.ty)
<1>1. Good(w)
  BY WrappedGood
<1>2. Good(n) /\ n.tx = 0
  BY <1>1, NewLineGood
<1>3. putc(k, c) = q
  BY DEF putc, Wrapped, NUL, LF, CR
<1> HIDE DEF n, w
<1>4. n.tx \in Nat /\ n.ty \in Nat
  BY <1>2, GoodPos
<1>5. /\ q.mem = n.mem /\ q.tx = n.tx /\ q.ty = n.ty
      /\ q.crtc.hi * CRTCBASE + q.crtc.lo = n.ty * WIDTH + n.tx
  BY <1>2, <1>4, CursorGood, CursorFields
<1> HIDE DEF q
<1> QED BY <1>2, <1>3, <1>5 DEF n, w

LEMMA PutcPrints ==
  ASSUME NEW k, Good(k), k.ty < HEIGHT, NEW c \in Char \ {NUL, LF, CR}
  PROVE  /\ putc(k, c).mem = [Wrapped(k).mem EXCEPT
                                ![Wrapped(k).ty * WIDTH + Wrapped(k).tx] = c]
         /\ putc(k, c).tx = Wrapped(k).tx + 1 /\ putc(k, c).ty = Wrapped(k).ty
         /\ putc(k, c).crtc.hi * CRTCBASE + putc(k, c).crtc.lo
              = putc(k, c).ty * WIDTH + putc(k, c).tx
<1> DEFINE w == Wrapped(k)
           q == cursor(w, w.tx + 1, w.ty)
           m == [q.mem EXCEPT ![q.ty * WIDTH + q.tx] = c]
           z == q.tx + 1
           u == At(Paint(q, m), z, q.ty)
<1>1. Good(w) /\ w.tx \in Nat /\ w.ty \in Nat /\ w.tx + 1 \in Nat
  BY WrappedGood, GoodPos
<1>2. putc(k, c) = Store(q, c)
  BY DEF putc, Wrapped
<1>3. Store(q, c) = u
  BY DEF Store
<1> HIDE DEF w
<1>4. /\ q.mem = w.mem /\ q.tx = w.tx /\ q.ty = w.ty
      /\ q.crtc.hi * CRTCBASE + q.crtc.lo = w.ty * WIDTH + (w.tx + 1)
      /\ Good(q)
  BY <1>1, CursorGood, CursorFields
<1>5. q \in Console
  BY <1>4 DEF Good
<1> HIDE DEF q, m, z
<1>6. u.mem = m /\ u.tx = z /\ u.ty = q.ty /\ u.crtc = q.crtc
  BY <1>5 DEF At, Paint, Console
<1> HIDE DEF u
<1>7. m = [w.mem EXCEPT ![w.ty * WIDTH + w.tx] = c] /\ z = w.tx + 1
  BY <1>4 DEF m, z
<1>8. u.crtc.hi * CRTCBASE + u.crtc.lo = u.ty * WIDTH + u.tx
  BY <1>4, <1>6, <1>7
<1> QED BY <1>2, <1>3, <1>4, <1>6, <1>7, <1>8 DEF w

-----------------------------------------------------------------------------
(* One lemma per call: it keeps the type of gone, and is a step of the     *)
(* teletype or none.                                                       *)

Follows == gone' \in Seq(Line) /\ [Tty!Next]_(Tty!vars)

LEMMA Facts ==
  ASSUME HInv
  PROVE  /\ Good(con) /\ con.ty < HEIGHT /\ con.ty \in Nat /\ con.tx \in Nat /\ con.tx <= WIDTH
         /\ con.mem \in [Cells -> Char] /\ gone \in Seq(Line) /\ Len(gone) \in Nat
         /\ WIDTH \in Nat /\ HEIGHT \in Nat /\ WIDTH >= 2 /\ HEIGHT >= 2
BY GoodPos, LenProperties, VgaAssumption DEF HInv, IInv

LEMMA StutterFollows ==
  ASSUME HInv, Feeds(0), con' = con
  PROVE  Follows
<1>1. gone' = gone
  BY FeedsGone
<1>2. gone \in Seq(Line)
  BY DEF HInv
<1> QED BY <1>1, <1>2 DEF Follows, Tty!vars

LEMMA LineEndFollows ==
  ASSUME HInv, NEW c \in {LF, CR}, PutcLine(c)
  PROVE  Follows
<1> DEFINE n1 == NewLine(con)
           n2 == NewLine(n1)
           g1 == Fed(gone, con)
           g2 == Fed(g1, n1)
<1>1. /\ Good(con) /\ con.ty < HEIGHT /\ con.ty \in Nat /\ con.tx \in Nat
      /\ gone \in Seq(Line) /\ Len(gone) \in Nat /\ WIDTH \in Nat
  BY Facts
<1>2. /\ Good(n1) /\ n1.ty < HEIGHT /\ n1.ty \in Nat /\ Good(n2) /\ n2.ty \in Nat
  BY <1>1, NewLineGood, GoodPos
<1>3. /\ g1 \in Seq(Line) /\ Len(g1) \in Nat /\ Len(g1) + n1.ty = Len(gone) + con.ty + 1
  BY <1>1, FeedOne
<1>4. /\ g2 \in Seq(Line) /\ Len(g2) \in Nat /\ Len(g2) + n2.ty = Len(g1) + n1.ty + 1
  BY <1>2, <1>3, FeedOne
<1>5. /\ con'.mem = NewLine(Wrapped(con)).mem
      /\ con'.tx = 0 /\ con'.ty = NewLine(Wrapped(con)).ty
  BY <1>1, PutcLineEnd DEF PutcLine, Putc
<1>6. CASE con.tx >= WIDTH
  <2>1. Wrapped(con) = n1
    BY <1>6 DEF Wrapped
  <2>2. Feeds(2)
    <3>1. Feeds((IF con.tx >= WIDTH THEN 1 ELSE 0) + (IF c \in {LF, CR} THEN 1 ELSE 0))
      BY DEF PutcLine, NUL, LF, CR
    <3>2. (IF con.tx >= WIDTH THEN 1 ELSE 0) + (IF c \in {LF, CR} THEN 1 ELSE 0) = 2
      BY <1>6
    <3> QED BY <3>1, <3>2, Zenon
  <2>3. gone' = g2
    BY <2>2, FeedsGone
  <2>4. Tty!FeedLines(2) = g2 \o Rows(n2.mem)
    BY PaperFed
  <2> HIDE DEF n1, n2, g1, g2
  <2>5. con'.mem = n2.mem /\ con'.ty = n2.ty
    BY <1>5, <2>1 DEF n2
  <2>6. Len(gone') + con'.ty + 1 = Len(gone) + con.ty + 1 + 2
    <3>1. Len(g2) + n2.ty + 1 = Len(gone) + con.ty + 1 + 2
      BY <1>1, <1>2, <1>3, <1>4, SMTT(30)
    <3> QED BY <2>3, <2>5, <3>1, Zenon
  <2>7. gone' \o Rows(con'.mem) = Tty!FeedLines(2)
    BY <2>3, <2>4, <2>5, Zenon
  <2>8. Tty!LineFeed
    BY <1>5, <1>6, <2>6, <2>7 DEF Tty!LineFeed
  <2> QED BY <1>4, <2>3, <2>8 DEF Follows, Tty!Next
<1>7. CASE ~(con.tx >= WIDTH)
  <2>1. Wrapped(con) = con
    BY <1>7 DEF Wrapped
  <2>2. Feeds(1)
    <3>1. Feeds((IF con.tx >= WIDTH THEN 1 ELSE 0) + (IF c \in {LF, CR} THEN 1 ELSE 0))
      BY DEF PutcLine, NUL, LF, CR
    <3>2. (IF con.tx >= WIDTH THEN 1 ELSE 0) + (IF c \in {LF, CR} THEN 1 ELSE 0) = 1
      BY <1>7
    <3> QED BY <3>1, <3>2, Zenon
  <2>3. gone' = g1
    BY <2>2, FeedsGone
  <2>4. Tty!FeedLines(1) = g1 \o Rows(n1.mem)
    BY PaperFed
  <2>5. con'.mem = n1.mem /\ con'.ty = n1.ty
    BY <1>5, <2>1
  <2> HIDE DEF n1, n2, g1, g2
  <2>6. Len(gone') + con'.ty + 1 = Len(gone) + con.ty + 1 + 1
    <3>1. Len(g1) + n1.ty + 1 = Len(gone) + con.ty + 1 + 1
      BY <1>1, <1>2, <1>3
    <3> QED BY <2>3, <2>5, <3>1, Zenon
  <2>7. gone' \o Rows(con'.mem) = Tty!FeedLines(1)
    BY <2>3, <2>4, <2>5, Zenon
  <2>8. Tty!LineFeed
    BY <1>5, <1>7, <2>6, <2>7 DEF Tty!LineFeed
  <2> QED BY <1>3, <2>3, <2>8 DEF Follows, Tty!Next
<1> QED BY <1>6, <1>7

LEMMA PrintFollows ==
  ASSUME HInv, NEW c \in Char \ {NUL, LF, CR}, PutcLine(c)
  PROVE  Follows
<1> DEFINE w == Wrapped(con)
           g == IF con.tx >= WIDTH THEN Fed(gone, con) ELSE gone
           full == IF con.tx >= WIDTH THEN 1 ELSE 0
           col == IF con.tx >= WIDTH THEN 0 ELSE con.tx
<1>1. /\ Good(con) /\ con.ty < HEIGHT /\ con.ty \in Nat /\ con.tx \in Nat
      /\ gone \in Seq(Line) /\ Len(gone) \in Nat /\ WIDTH \in Nat /\ HEIGHT \in Nat
  BY Facts
<1>2. /\ Good(w) /\ w.ty \in 0 .. HEIGHT - 1 /\ w.tx \in 0 .. WIDTH - 1 /\ w.tx = col
      /\ w.mem \in [Cells -> Char]
  <2>1. /\ Good(w) /\ w.ty \in 0 .. HEIGHT - 1 /\ w.tx \in 0 .. WIDTH - 1
        /\ con.tx >= WIDTH => w.tx = 0
    BY <1>1, WrappedGood
  <2>2. w.tx = col
    BY <2>1 DEF Wrapped
  <2>3. w.mem \in [Cells -> Char]
    BY <2>1, GoodPos
  <2> QED BY <2>1, <2>2, <2>3
<1>3. Feeds(full)
  <2>1. Feeds((IF con.tx >= WIDTH THEN 1 ELSE 0) + (IF c \in {LF, CR} THEN 1 ELSE 0))
    BY DEF PutcLine
  <2>2. (IF con.tx >= WIDTH THEN 1 ELSE 0) + (IF c \in {LF, CR} THEN 1 ELSE 0) = full
    BY DEF LF, CR
  <2> QED BY <2>1, <2>2, Zenon
<1>4. gone' = g
  <2>1. CASE con.tx >= WIDTH
    BY <1>3, <2>1, FeedsGone
  <2>2. CASE ~(con.tx >= WIDTH)
    BY <1>3, <2>2, FeedsGone
  <2> QED BY <2>1, <2>2
<1>5. g \in Seq(Line) /\ Len(g) \in Nat /\ Len(g) + w.ty = Len(gone) + con.ty + full
  <2>1. CASE con.tx >= WIDTH
    BY <1>1, <2>1, FeedOne DEF Wrapped
  <2>2. CASE ~(con.tx >= WIDTH)
    BY <1>1, <2>2 DEF Wrapped
  <2> QED BY <2>1, <2>2
<1>6. Tty!FeedLines(full) = g \o Rows(w.mem)
  <2>1. CASE con.tx >= WIDTH
    BY <2>1, PaperFed DEF Wrapped
  <2>2. CASE ~(con.tx >= WIDTH)
    BY <2>2, PaperFed DEF Wrapped
  <2> QED BY <2>1, <2>2
<1>7. /\ con'.mem = [w.mem EXCEPT ![w.ty * WIDTH + w.tx] = c]
      /\ con'.tx = w.tx + 1 /\ con'.ty = w.ty
  BY <1>1, PutcPrints DEF PutcLine, Putc
<1> DEFINE F == Tty!FeedLines(full)
<1>10. /\ (gone' \o Rows(con'.mem) = [F EXCEPT ![Len(gone) + con.ty + 1 + full][col] = c]
           /\ Len(gone') + con'.ty + 1 = Len(gone) + con.ty + 1 + full
           /\ con'.tx = col + 1) => Tty!PrintChar(c)
  BY DEF Tty!PrintChar
<1>c. full \in Nat
  OBVIOUS
<1> HIDE DEF w, g, full, col, F
<1>8. g \o Rows([w.mem EXCEPT ![w.ty * WIDTH + w.tx] = c])
        = [g \o Rows(w.mem) EXCEPT ![Len(g) + w.ty + 1][w.tx] = c]
  <2>1. g \o Rows(InRow(w.mem, w.ty, w.tx, c)) = OnPaper(g \o Rows(w.mem), Len(g) + w.ty + 1, w.tx, c)
    BY <1>2, <1>5, StorePaper, ZenonT(30)
  <2> QED BY <2>1 DEF InRow, OnPaper
<1>9. Len(g) + w.ty + 1 = Len(gone) + con.ty + 1 + full
  BY <1>1, <1>2, <1>5, <1>c
<1>11. gone' \o Rows(con'.mem) = [F EXCEPT ![Len(gone) + con.ty + 1 + full][col] = c]
  <2>1. gone' \o Rows(con'.mem) = [g \o Rows(w.mem) EXCEPT ![Len(g) + w.ty + 1][w.tx] = c]
    BY <1>4, <1>7, <1>8, Zenon
  <2>2. g \o Rows(w.mem) = F
    BY <1>6 DEF F
  <2> QED BY <1>2, <1>9, <2>1, <2>2
<1>12. Tty!PrintChar(c)
  BY <1>2, <1>4, <1>7, <1>9, <1>10, <1>11, Zenon
<1> QED BY <1>4, <1>5, <1>12 DEF Follows, Tty!Next

\* Placing the carriage on a row of the screen.
LEMMA PlaceFollows ==
  ASSUME HInv, NEW x \in 0 .. WIDTH, NEW y \in 0 .. HEIGHT - 1,
         con' = At(con, x, y), Feeds(0)
  PROVE  Follows
<1>1. /\ Good(con) /\ con.ty \in Nat /\ con.mem \in [Cells -> Char]
      /\ gone \in Seq(Line) /\ Len(gone) \in Nat /\ WIDTH \in Nat /\ HEIGHT \in Nat
  BY Facts
<1>2. con'.tx = x /\ con'.ty = y /\ con'.mem = con.mem
  BY <1>1 DEF At, Good, Console
<1>3. gone' = gone
  BY FeedsGone
<1>4. Len(gone \o Rows(con.mem)) = Len(gone) + HEIGHT
  BY <1>1, Paper
<1>5. Len(gone') + con'.ty + 1 = Tty!Top + y + 1
  <2> DEFINE L == Len(gone)
             P == Len(gone \o Rows(con.mem))
  <2>1. Tty!Top = P - HEIGHT
    BY DEF Tty!Top
  <2> HIDE DEF L, P
  <2>2. L + y + 1 = (P - HEIGHT) + y + 1
    BY <1>1, <1>4 DEF L, P
  <2> QED BY <1>2, <1>3, <2>1, <2>2 DEF L
<1>6. gone' \o Rows(con'.mem) = gone \o Rows(con.mem)
  BY <1>2, <1>3
<1>7. y < HEIGHT /\ y \in 0 .. HEIGHT
  BY <1>1
<1>8. Tty!Place(x, y)
  BY <1>2, <1>5, <1>6, <1>7 DEF Tty!Place
<1> QED BY <1>1, <1>3, <1>7, <1>8 DEF Follows, Tty!Next

LEMMA SetposFollows ==
  ASSUME HInv, NEW x \in 0 .. WIDTH + 1, NEW y \in 0 .. HEIGHT + 1, SetposLine(x, y)
  PROVE  Follows
<1>1. /\ Good(con) /\ con.ty < HEIGHT /\ con.ty \in Nat /\ con.mem \in [Cells -> Char]
      /\ gone \in Seq(Line) /\ Len(gone) \in Nat
      /\ WIDTH \in Nat /\ HEIGHT \in Nat /\ WIDTH >= 2 /\ HEIGHT >= 2
  BY Facts
<1>2. CASE x > WIDTH
  <2>1. con' = con
    BY <1>2 DEF SetposLine, Setpos, setpos
  <2>2. Feeds(0)
    <3>1. ~(x <= WIDTH)
      BY <1>1, <1>2
    <3> QED BY <3>1 DEF SetposLine
  <2> QED BY <2>1, <2>2, StutterFollows
<1>3. CASE x <= WIDTH /\ y < HEIGHT
  <2>1. x \in 0 .. WIDTH /\ y \in 0 .. HEIGHT - 1 /\ ~(x > WIDTH) /\ ~(y >= HEIGHT)
    BY <1>1, <1>3
  <2>2. At(con, x, y).ty = y
    BY <1>1 DEF At, Good, Console
  <2>3. con' = At(con, x, y)
    BY <2>1, <2>2 DEF SetposLine, Setpos, setpos, vga_scroll
  <2>4. Feeds(0)
    BY <2>1 DEF SetposLine
  <2> QED BY <2>1, <2>3, <2>4, PlaceFollows
<1>4. CASE x <= WIDTH /\ y >= HEIGHT
  <2> DEFINE b == At(con, x, HEIGHT)
             m == ShiftUp(con.mem)
             p == gone \o Rows(con.mem)
             a == Row(con.mem, 0)
  <2>1. x \in 0 .. WIDTH /\ ~(x > WIDTH)
    BY <1>1, <1>4
  <2>2. b.ty = HEIGHT /\ b.tx = x /\ b.mem = con.mem /\ b \in Console
    <3>1. x \in Nat /\ x <= WIDTH
      BY <1>1, <2>1
    <3>2. Good(b) /\ b.tx = x /\ b.ty = HEIGHT
      <4>1. Good(con) /\ HEIGHT \in Nat
        BY <1>1
      <4>2. ASSUME NEW v \in Nat
            PROVE  Good(At(con, x, v)) /\ At(con, x, v).tx = x /\ At(con, x, v).ty = v
        BY <3>1, <4>1, AtGood
      <4> QED BY <4>1, <4>2
    <3>3. b.mem = con.mem
      BY <1>1 DEF At, Good, Console
    <3> QED BY <3>2, <3>3 DEF Good
  <2>3. con' = At(Paint(b, m), x, HEIGHT - 1)
    <3>1. con' = vga_scroll(b)
      BY <1>4, <2>1 DEF SetposLine, Setpos, setpos
    <3>2. HEIGHT >= HEIGHT
      BY <1>1
    <3> HIDE DEF b
    <3> QED BY <2>2, <3>1, <3>2 DEF vga_scroll
  <2> HIDE DEF b, m
  <2>4. con'.tx = x /\ con'.ty = HEIGHT - 1 /\ con'.mem = m
    BY <2>2, <2>3 DEF At, Paint, Console
  <2>5. Feeds(HEIGHT - con.ty)
    BY <1>4 DEF SetposLine
  <2>6. gone' = Append(gone, a)
    <3> DEFINE off == con.ty + (HEIGHT - con.ty) - (HEIGHT - 1)
    <3>1. gone' = IF off > 0 THEN gone \o SubSeq(Rows(con.mem), 1, off) ELSE gone
      BY <2>5 DEF Feeds
    <3>2. off = 1
      BY <1>1
    <3> HIDE DEF off, a
    <3>3. off > 0
      BY <3>2
    <3>4. SubSeq(Rows(con.mem), 1, 1) = <<a>>
      BY <1>1, FirstRows DEF a
    <3>5. a \in Line
      <4>1. 0 \in 0 .. HEIGHT - 1
        BY <1>1
      <4> QED BY <1>1, <4>1, RowsType DEF a
    <3>6. gone \o <<a>> = Append(gone, a)
      BY <1>1, <3>5, ShortSeqs
    <3> QED BY <3>1, <3>2, <3>3, <3>4, <3>6, Zenon
  <2>7. /\ Append(gone, a) \in Seq(Line) /\ Len(Append(gone, a)) = Len(gone) + 1
        /\ Append(gone, a) \o Rows(m) = Append(p, Tty!BlankLine)
    BY <1>1, ScrollPaper DEF m
  <2>8. Len(p) = Len(gone) + HEIGHT
    BY <1>1, Paper
  <2> HIDE DEF a
  <2>9. Len(gone') + con'.ty + 1 = Len(p) + 1
    <3> DEFINE L == Len(gone)
    <3>1. L \in Nat /\ Len(gone') = L + 1 /\ Len(p) = L + HEIGHT
      BY <1>1, <2>6, <2>7, <2>8
    <3> HIDE DEF L, p
    <3>2. L + 1 + (HEIGHT - 1) + 1 = L + HEIGHT + 1
      BY <1>1, <3>1
    <3> QED BY <2>4, <3>1, <3>2, Zenon
  <2>10. gone' \o Rows(con'.mem) = Append(p, Tty!BlankLine)
    BY <2>4, <2>6, <2>7, Zenon
  <2>11. HEIGHT \in 0 .. HEIGHT /\ ~(HEIGHT < HEIGHT)
    BY <1>1
  <2>12. Tty!Place(x, HEIGHT)
    BY <2>4, <2>9, <2>10, <2>11 DEF Tty!Place
  <2> QED BY <2>1, <2>6, <2>7, <2>11, <2>12 DEF Follows, Tty!Next
<1> QED BY <1>1, <1>2, <1>3, <1>4

LEMMA SetposXFollows ==
  ASSUME HInv, NEW x \in 0 .. WIDTH + 1, SetposX(x), Feeds(0)
  PROVE  Follows
<1>1. con.ty \in 0 .. HEIGHT - 1 /\ WIDTH \in Nat
  BY Facts
<1>2. CASE x > WIDTH
  <2>1. con' = con
    BY <1>2 DEF SetposX, setpos_x
  <2> QED BY <2>1, StutterFollows
<1>3. CASE ~(x > WIDTH)
  <2>1. con' = At(con, x, con.ty)
    BY <1>3 DEF SetposX, setpos_x
  <2>2. x \in 0 .. WIDTH
    BY <1>1, <1>3
  <2> QED BY <1>1, <2>1, <2>2, PlaceFollows
<1> QED BY <1>2, <1>3

\* A row below the page is no line of the roll.
LEMMA ClrlineBelow ==
  ASSUME HInv, NEW y \in Nat, y >= HEIGHT, con' = clrline_y(con, y), Feeds(0)
  PROVE  Follows
<1>1. /\ Good(con) /\ con.mem \in [Cells -> Char]
      /\ gone \in Seq(Line) /\ Len(gone) \in Nat /\ WIDTH \in Nat /\ HEIGHT \in Nat
  BY Facts
<1>2. con' = Paint(con, Halved(con.mem, y))
  BY DEF clrline_y, Halved
<1>3. con'.tx = con.tx /\ con'.ty = con.ty /\ con'.mem = Halved(con.mem, y)
  BY <1>1, <1>2 DEF Paint, Good, Console
<1>4. gone' = gone
  BY FeedsGone
<1>5. y * WIDTH \in Nat /\ y * WIDTH >= Page /\ Page \in Nat
  <2>1. PICK d \in Nat : y = HEIGHT + d
    <3>1. y - HEIGHT \in Nat /\ y = HEIGHT + (y - HEIGHT)
      BY <1>1
    <3> QED BY <3>1
  <2>2. y * WIDTH = WIDTH * HEIGHT + d * WIDTH
    BY <1>1, <2>1
  <2>3. d * WIDTH \in Nat /\ WIDTH * HEIGHT \in Nat
    BY <1>1
  <2> QED BY <2>2, <2>3 DEF Page
<1>6. \A i \in Cells : i < Page => con'.mem[i] = con.mem[i]
  BY <1>3, <1>5 DEF Halved, Cells
<1>7. \A r \in 0 .. HEIGHT - 1 : Row(con'.mem, r) = Row(con.mem, r)
  <2> TAKE r \in 0 .. HEIGHT - 1
  <2>1. r * WIDTH \in Nat /\ r * WIDTH + WIDTH <= Page /\ Page <= WINDOW
    BY CellBound
  <2> DEFINE o == r * WIDTH
  <2> HIDE DEF o
  <2>2. \A i \in 0 .. WIDTH - 1 : o + i \in Cells /\ o + i < Page
    BY <1>1, <1>5, <2>1, VgaAssumption DEF Cells, o
  <2>3. \A i \in 0 .. WIDTH - 1 : con'.mem[o + i] = con.mem[o + i]
    BY <1>6, <2>2
  <2>4. \A q : Row(q, r) = [i \in 0 .. WIDTH - 1 |-> q[o + i]]
    BY DEF Row, o
  <2> QED BY <2>3, <2>4, ZenonT(30)
<1>8. Rows(con'.mem) = Rows(con.mem)
  <2>1. \A n \in 1 .. HEIGHT : n - 1 \in 0 .. HEIGHT - 1
    BY <1>1
  <2> QED BY <1>7, <2>1 DEF Rows
<1>9. UNCHANGED Tty!vars
  BY <1>3, <1>4, <1>8 DEF Tty!vars
<1> QED BY <1>1, <1>4, <1>9 DEF Follows

LEMMA ClrlineFollows ==
  ASSUME HInv, NEW y \in 0 .. HEIGHT - 1, con' = clrline_y(con, y), Feeds(0)
  PROVE  Follows
<1>1. /\ Good(con) /\ con.mem \in [Cells -> Char]
      /\ gone \in Seq(Line) /\ Len(gone) \in Nat /\ WIDTH \in Nat /\ HEIGHT \in Nat
  BY Facts
<1>2. con' = Paint(con, Halved(con.mem, y))
  BY DEF clrline_y, Halved
<1>3. con'.tx = con.tx /\ con'.ty = con.ty /\ con'.mem = Halved(con.mem, y)
  BY <1>1, <1>2 DEF Paint, Good, Console
<1>4. gone' = gone
  BY FeedsGone
<1> DEFINE p == gone \o Rows(con.mem)
<1>5. Len(p) = Len(gone) + HEIGHT
  BY <1>1, Paper
<1>6. gone \o Rows(Halved(con.mem, y)) = [p EXCEPT ![Len(gone) + y + 1] = HalfLine(@)]
  BY <1>1, HalfPaper
<1>7. Tty!Top + y + 1 = Len(gone) + y + 1
  <2>1. Tty!Top = Len(p) - HEIGHT
    BY DEF Tty!Top
  <2> HIDE DEF p
  <2> QED BY <1>1, <1>5, <2>1
<1>8. gone' \o Rows(con'.mem) = [p EXCEPT ![Tty!Top + y + 1] = HalfLine(@)]
  BY <1>3, <1>4, <1>6, <1>7
<1>9. Tty!BlankHalf(y)
  BY <1>3, <1>4, <1>8 DEF Tty!BlankHalf, HalfLine
<1> QED BY <1>1, <1>4, <1>9 DEF Follows, Tty!Next

LEMMA StepFollows == HInv /\ HNext => Follows
<1> SUFFICES ASSUME HInv, HNext PROVE Follows
  OBVIOUS
<1>1. ASSUME NEW c \in Char, PutcLine(c) PROVE Follows
  <2>1. CASE c = NUL
    <3>1. con' = con /\ Feeds(0)
      BY <1>1, <2>1 DEF PutcLine, Putc, putc
    <3> QED BY <3>1, StutterFollows
  <2>2. CASE c \in {LF, CR}
    BY <1>1, <2>2, LineEndFollows
  <2>3. CASE c \in Char \ {NUL, LF, CR}
    BY <1>1, <2>3, PrintFollows
  <2> QED BY <2>1, <2>2, <2>3
<1>2. ASSUME NEW x \in 0 .. WIDTH + 1, NEW y \in 0 .. HEIGHT + 1, SetposLine(x, y)
      PROVE  Follows
  BY <1>2, SetposFollows
<1>3. ASSUME NEW x \in 0 .. WIDTH + 1, SetposX(x), Feeds(0) PROVE Follows
  BY <1>3, SetposXFollows
<1>4. ASSUME NEW y \in 0 .. LastRow, ClrlineY(y), Feeds(0) PROVE Follows
  <2>1. y \in Nat /\ HEIGHT \in Nat
    BY VgaAssumption
  <2>2. CASE y < HEIGHT
    <3>1. y \in 0 .. HEIGHT - 1
      BY <2>1, <2>2
    <3> QED BY <1>4, <3>1, ClrlineFollows DEF ClrlineY
  <2>3. CASE y >= HEIGHT
    BY <1>4, <2>1, <2>3, ClrlineBelow DEF ClrlineY
  <2> QED BY <2>1, <2>2, <2>3
<1>5. ASSUME Clrline, Feeds(0) PROVE Follows
  <2>1. con.ty \in 0 .. HEIGHT - 1
    BY Facts
  <2>2. con' = clrline_y(con, con.ty)
    BY <1>5 DEF Clrline, clrline
  <2> QED BY <1>5, <2>1, <2>2, ClrlineFollows
<1> QED BY <1>1, <1>2, <1>3, <1>4, <1>5 DEF HNext

LEMMA HInitInv == HInit => HInv
<1> SUFFICES ASSUME HInit PROVE HInv
  OBVIOUS
<1>1. IInv
  BY InitInv DEF HInit
<1>2. gone \in Seq(Line)
  BY EmptySeq DEF HInit
<1> QED BY <1>1, <1>2 DEF HInv

LEMMA HStepInv == HInv /\ [HNext]_<<con, gone>> => HInv'
<1> SUFFICES ASSUME HInv, [HNext]_<<con, gone>> PROVE HInv'
  OBVIOUS
<1>1. CASE HNext
  <2>1. [Next]_con
    BY <1>1 DEF HNext, Next, PutcLine, SetposLine
  <2>2. gone' \in Seq(Line)
    BY <1>1, StepFollows DEF Follows
  <2>3. IInv'
    BY <2>1, StepInv DEF HInv
  <2> QED BY <2>2, <2>3 DEF HInv
<1>2. CASE UNCHANGED <<con, gone>>
  BY <1>2 DEF HInv, IInv, Good
<1> QED BY <1>1, <1>2

(* The driver's wrapping, memmove, memset and position together are the    *)
(* growing roll of paper, for every page size, every alphabet and every    *)
(* order of calls (vga.c:24-93).                                           *)
THEOREM ConsoleIsTeletype == HSpec => ImplementsTeletype
<1>1. HInit => Tty!Init
  <2> SUFFICES ASSUME HInit PROVE Tty!Init
    OBVIOUS
  <2>1. Init /\ gone = <<>> /\ HInv
    BY HInitInv DEF HInit
  <2>2. con.tx = 0 /\ con.ty = 0 /\ \A i \in Cells : i < Page => con.mem[i] = NUL
    BY <2>1, InitIs
  <2>3. con.mem \in [Cells -> Char]
    BY <2>1, Facts
  <2>4. \A r \in 0 .. HEIGHT - 1 : Row(con.mem, r) = Tty!BlankLine
    <3> TAKE r \in 0 .. HEIGHT - 1
    <3> DEFINE o == r * WIDTH
    <3>1. o \in Nat /\ o + WIDTH <= Page /\ Page \in Nat /\ Page <= WINDOW
      BY CellBound
    <3>2. Row(con.mem, r) = [i \in 0 .. WIDTH - 1 |-> con.mem[o + i]]
      BY DEF Row
    <3> HIDE DEF o
    <3>3. \A i \in 0 .. WIDTH - 1 : con.mem[o + i] = NUL
      BY <2>2, <3>1, VgaAssumption DEF Cells
    <3> QED BY <3>2, <3>3 DEF Tty!BlankLine
  <2>5. Rows(con.mem) = [i \in 1 .. HEIGHT |-> Tty!BlankLine]
    <3>1. \A n \in 1 .. HEIGHT : n - 1 \in 0 .. HEIGHT - 1
      BY VgaAssumption
    <3> QED BY <2>4, <3>1 DEF Rows
  <2>6. gone \o Rows(con.mem) = Rows(con.mem)
    <3>1. Rows(con.mem) \in Seq(Line)
      BY <2>3, RowsType
    <3> QED BY <2>1, <3>1, ConcatEmptySeq
  <2>7. Len(gone) + con.ty + 1 = 1
    BY <2>1, <2>2
  <2> QED BY <2>2, <2>5, <2>6, <2>7 DEF Tty!Init
<1>2. HInv /\ [HNext]_<<con, gone>> => [Tty!Next]_(Tty!vars)
  <2> SUFFICES ASSUME HInv, [HNext]_<<con, gone>> PROVE [Tty!Next]_(Tty!vars)
    OBVIOUS
  <2>1. CASE HNext
    BY <2>1, StepFollows DEF Follows
  <2>2. CASE UNCHANGED <<con, gone>>
    BY <2>2 DEF Tty!vars
  <2> QED BY <2>1, <2>2
<1> QED BY HInitInv, HStepInv, <1>1, <1>2, PTL DEF HSpec, ImplementsTeletype, Tty!Spec

(* Every printing putc leaves the hardware cursor at the driver's          *)
(* position, for every page size and register width (vga.c:53, 55, 62-68). *)
THEOREM CursorFollows == HSpec => CursorAfterPutc
<1>1. HInv => \A c \in Char \ {NUL} : PutcLine(c) =>
        con'.crtc.hi * CRTCBASE + con'.crtc.lo = con'.ty * WIDTH + con'.tx
  <2> SUFFICES ASSUME HInv, NEW c \in Char \ {NUL}, PutcLine(c)
               PROVE  con'.crtc.hi * CRTCBASE + con'.crtc.lo = con'.ty * WIDTH + con'.tx
    OBVIOUS
  <2>1. Good(con) /\ con.ty < HEIGHT /\ con' = putc(con, c)
    BY Facts DEF PutcLine, Putc
  <2>2. CASE c \in {LF, CR}
    BY <2>1, <2>2, PutcLineEnd
  <2>3. CASE c \in Char \ {NUL, LF, CR}
    BY <2>1, <2>3, PutcPrints
  <2> QED BY <2>2, <2>3
<1> QED BY HInitInv, HStepInv, <1>1, PTL DEF HSpec, CursorAfterPutc

-----------------------------------------------------------------------------
(* The serial port.                                                        *)

RaisedHasData ==
  /\ rx \in Nat
  /\ raised => rx >= TRIGGER
  /\ h = "get" => rx >= TRIGGER

(* A raised receive interrupt, and a handler on its way to read, have the  *)
(* FIFO at the trigger level or above, whatever kmain reads in between.    *)
LEMMA RaisedInductive ==
  /\ UartInit => RaisedHasData
  /\ RaisedHasData /\ [UartNext]_vars => RaisedHasData'
<1>a. TRIGGER \in Nat /\ TRIGGER > 0
  BY UartAssumption
<1>1. UartInit => RaisedHasData
  <2>1. UartInit => (raised => rx >= TRIGGER)
    BY Zenon DEF UartInit
  <2>2. UartInit => rx \in Nat /\ h # "get"
    BY SMT DEF UartInit
  <2> QED BY <2>1, <2>2 DEF RaisedHasData
<1>b. ASSUME RaisedHasData, ReadData
      PROVE  rx' \in Nat /\ (raised' => rx' >= TRIGGER)
  <2>1. raised' => raised /\ rx - 1 >= TRIGGER
    BY <1>b, Zenon DEF ReadData
  <2>2. rx' = IF rx > 0 THEN rx - 1 ELSE 0
    BY <1>b DEF ReadData
  <2>3. rx \in Nat
    BY <1>b DEF RaisedHasData
  <2> QED BY <1>a, <2>1, <2>2, <2>3
<1>2. ASSUME RaisedHasData, [UartNext]_vars
      PROVE  RaisedHasData'
  <2>1. CASE Main
    <3>1. CASE GetcRead
      BY <1>2, <1>b, <3>1 DEF RaisedHasData, GetcRead, Running, handler
    <3>2. CASE PutcWrite
      BY <1>2, <3>2 DEF RaisedHasData, PutcWrite, handler
    <3>3. CASE uart_init \/ PutcTest \/ PutsEnd \/ arch_init \/ GetcWait
      BY <1>2, <3>3 DEF RaisedHasData, uart_init, PutcTest, PutsEnd, arch_init, GetcWait,
                        handler, hardware
    <3> QED BY <2>1, <3>1, <3>2, <3>3 DEF Main
  <2>2. CASE Interrupt
    BY <1>2, <2>2 DEF RaisedHasData, Interrupt, Masked
  <2>3. CASE HandlerGetc
    BY <1>2, <1>b, <2>3 DEF RaisedHasData, HandlerGetc
  <2>4. CASE HandlerPutc \/ HandlerEnd
    BY <1>2, <2>4 DEF RaisedHasData, HandlerPutc, HandlerEnd
  <2>5. CASE Arrive
    <3>1. raised' => raised \/ (rx < RXCAP /\ rx + 1 = TRIGGER)
      BY <2>5, Zenon DEF Arrive
    <3>2. rx' = (IF rx < RXCAP THEN rx + 1 ELSE rx) /\ h' = h
      BY <2>5 DEF Arrive, handler
    <3> QED BY <1>a, <1>2, <3>1, <3>2 DEF RaisedHasData
  <2>6. CASE Drain
    BY <1>2, <2>6 DEF RaisedHasData, Drain, handler
  <2>7. CASE UNCHANGED vars
    BY <1>2, <2>7 DEF RaisedHasData, vars, handler, hardware
  <2> QED BY <1>2, <2>1, <2>2, <2>3, <2>4, <2>5, <2>6, <2>7 DEF UartNext, Handler
<1> QED BY <1>1, <1>2

(* uart_getc never waits inside the interrupt handler (uart.c:34-35, 74).  *)
THEOREM GetcInHandlerReturns == UartSpec => []HandlerNeverSpins
<1>1. RaisedHasData => HandlerNeverSpins
  BY UartAssumption DEF RaisedHasData, HandlerNeverSpins
<1> QED BY RaisedInductive, <1>1, PTL DEF UartSpec

-----------------------------------------------------------------------------

\* With a driver a wait of uart_putc holds until the write, unless the handler
\* runs in between, which it does once; the character lost is the one whose
\* wait it spoiled.
LossInv ==
  /\ tx \in Nat /\ lost \in Nat /\ drv \in {"ns", "pl", "none"}
  /\ h # "none" => acked
  /\ pc = "start" => lost = 0
  /\ drv # "none" =>
       /\ lost <= 1
       /\ ~acked => lost = 0 /\ (ready => tx < TXCAP)
       /\ lost = 1 => acked /\ h = "none" /\ (ready => tx < TXCAP)

\* A write that finds room leaves lost alone.
LEMMA Writes ==
  ASSUME LossInv, WriteData
  PROVE  /\ tx' \in Nat /\ lost' \in Nat
         /\ tx < TXCAP => lost' = lost
         /\ lost' \in {lost, lost + 1}
BY DEF LossInv, WriteData

LEMMA LossInductive ==
  /\ UartInit => LossInv
  /\ LossInv /\ [UartNext]_vars => LossInv'
<1>a. TXCAP \in Nat /\ TXCAP > 0
  BY UartAssumption
<1>1. UartInit => LossInv
  BY DEF UartInit, LossInv
<1>2. ASSUME LossInv, [UartNext]_vars PROVE LossInv'
  <2>1. CASE uart_init
    BY <1>2, <2>1, UartAssumption DEF LossInv, uart_init, Puts, handler, hardware, Running
  <2>2. CASE PutcTest
    BY <1>a, <1>2, <2>2 DEF LossInv, PutcTest, handler, hardware, Printing
  <2>3. CASE PutcWrite
    <3>1. pc # "start" /\ pc' = pc /\ h = "none" /\ ready /\ ~ready'
          /\ UNCHANGED <<drv, h, acked>>
      BY <2>3, UartAssumption DEF PutcWrite, Printing, Running, handler
    <3>2. CASE tx < TXCAP
      <4>1. lost' = lost /\ tx' \in Nat
        BY <1>2, <2>3, <3>2, Writes DEF PutcWrite
      <4> QED BY <1>2, <3>1, <4>1 DEF LossInv
    <3>3. CASE ~(tx < TXCAP)
      <4>1. drv # "none" => acked /\ lost = 0
        BY <1>2, <3>1, <3>3 DEF LossInv
      <4>2. lost' \in {lost, lost + 1} /\ tx' \in Nat /\ lost' \in Nat
        BY <1>2, <2>3, Writes DEF PutcWrite
      <4> QED BY <1>2, <3>1, <4>1, <4>2 DEF LossInv
    <3> QED BY <3>2, <3>3
  <2>4. CASE PutsEnd
    BY <1>2, <2>4 DEF LossInv, PutsEnd, Puts, handler, hardware
  <2>5. CASE arch_init
    BY <1>2, <2>5 DEF LossInv, arch_init, Puts, handler, hardware
  <2>6. CASE GetcWait
    BY <1>2, <2>6 DEF LossInv, GetcWait, Puts, handler, hardware
  <2>7. CASE GetcRead
    BY <1>2, <2>7 DEF LossInv, GetcRead, Puts, handler
  <2>8. CASE Interrupt
    BY <1>2, <2>8 DEF LossInv, Interrupt, main
  <2>9. CASE HandlerGetc
    BY <1>2, <2>9 DEF LossInv, HandlerGetc, main
  <2>10. CASE HandlerPutc
    BY <1>2, <2>10, Writes DEF LossInv, HandlerPutc, main
  <2>11. CASE HandlerEnd
    BY <1>2, <2>11 DEF LossInv, HandlerEnd, main
  <2>12. CASE Arrive
    BY <1>2, <2>12 DEF LossInv, Arrive, main, handler
  <2>13. CASE Drain
    BY <1>a, <1>2, <2>13 DEF LossInv, Drain, main, handler
  <2>14. CASE UNCHANGED vars
    BY <1>2, <2>14 DEF LossInv, vars, main, handler, hardware
  <2> QED BY <1>2, <2>1, <2>2, <2>3, <2>4, <2>5, <2>6, <2>7, <2>8, <2>9, <2>10, <2>11,
             <2>12, <2>13, <2>14 DEF UartNext, Main, Handler
<1> QED BY <1>1, <1>2

(* With a driver at most one character is lost, and only after an          *)
(* interrupt was taken (uart.c:41-47), for every FIFO, text and echo.      *)
THEOREM OneCharacterLost == UartSpec => []LossBounded
<1>1. LossInv => LossBounded
  BY DEF LossInv, LossBounded
<1> QED BY LossInductive, <1>1, PTL DEF UartSpec
=============================================================================
