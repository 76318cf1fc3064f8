---------------------------- MODULE VgaTeletype ----------------------------
(***************************************************************************)
(* The console implements the teletype: the lines that have scrolled off   *)
(* the top, remembered in the history variable gone, followed by the rows  *)
(* of video memory are the paper.                                          *)
(***************************************************************************)
EXTENDS Vga

CONSTANT MaxGone  \* bound on the lines that scroll off

VARIABLE gone

Row(m, r) == [i \in 0 .. WIDTH - 1 |-> m[r * WIDTH + i]]
Rows(m)   == [r \in 1 .. HEIGHT |-> Row(m, r - 1)]

\* A call that moves the position to row ty + n makes the first rows go.
Feeds(n) ==
  LET off == con.ty + n - (HEIGHT - 1)
  IN  /\ gone' = IF off > 0 THEN gone \o SubSeq(Rows(con.mem), 1, off) ELSE gone
      /\ Len(gone') <= MaxGone

HInit == Init /\ gone = <<>>

PutcLine(c) ==
  /\ Putc(c)
  /\ Feeds(IF c = NUL THEN 0
           ELSE (IF con.tx >= WIDTH THEN 1 ELSE 0) + (IF c \in {LF, CR} THEN 1 ELSE 0))

SetposLine(x, y) ==
  /\ Setpos(x, y)
  /\ Feeds(IF x <= WIDTH /\ y >= HEIGHT THEN HEIGHT - con.ty ELSE 0)

HNext ==
  \/ \E c \in Char : PutcLine(c)
  \/ \E x \in 0 .. WIDTH + 1, y \in 0 .. HEIGHT + 1 : SetposLine(x, y)
  \/ \E x \in 0 .. WIDTH + 1 : SetposX(x) /\ Feeds(0)
  \/ \E y \in 0 .. LastRow : ClrlineY(y) /\ Feeds(0)
  \/ Clrline /\ Feeds(0)

HSpec == HInit /\ [][HNext]_<<con, gone>>

Tty == INSTANCE Teletype WITH
  paper <- gone \o Rows(con.mem),
  x <- con.tx,
  y <- Len(gone) + con.ty + 1,
  Printable <- Char \ {NUL, LF, CR},
  Blank <- NUL

(* Every character printed stays where it was printed until its line       *)
(* scrolls off as it is: wrapping, memmove, memset and the position of     *)
(* vga.c:24-93 together are a growing roll of paper.                       *)
ImplementsTeletype == Tty!Spec

(* After every printing putc the hardware cursor stands at the driver's    *)
(* position, also across a wrap and a scroll: vga.c:53 and 55 write the    *)
(* position that tx and ty have at the end of the call.                    *)
CursorAfterPutc ==
  [][\A c \in Char \ {NUL} : PutcLine(c) =>
       con'.crtc.hi * CRTCBASE + con'.crtc.lo = con'.ty * WIDTH + con'.tx]_<<con, gone>>
=============================================================================
