------------------------------- MODULE Kernel -------------------------------
(***************************************************************************)
(* The i386 kernel at run time: kmain (src/kernel/kernel.c) interrupted by *)
(* the keyboard handler.                                                   *)
(*                                                                         *)
(* arch_init ends with sti, so from the first character of "Hello World!"  *)
(* on the keyboard interrupt can strike between any two instructions of    *)
(* kmain.  The handler runs through an interrupt gate, with interrupts     *)
(* off, and is one step: scancode, callback and all its console calls.     *)
(* kmain goes in steps of one access to what the two share: tx, ty, a cell *)
(* of video memory, a byte of shellbuf.  tx and ty are not volatile, so    *)
(* the increments may use a value read earlier in the same putc: gcc -Os   *)
(* (arch/i386.conf) writes tx + 1 from the register it computed off with,  *)
(* and ty + 1 of a '\n' from one loaded before tx = 0.                     *)
(***************************************************************************)
EXTENDS Integers, Sequences

CONSTANTS
  WIDTH, HEIGHT, WINDOW, CRTCBASE,              \* as in Vga
  N, H, PeekWord, PokeWord, ULONG_MAX, BYTE, Addr, Char, Env,  \* as in Shell
  Beyond,     \* as in Keyboard
  Banner,     \* what arch_init prints before it enables interrupts
  Hello,      \* what kmain prints
  ReplyText,  \* what the shell's printf formats print: [format -> text]
  Codes,      \* the scancode bytes that may arrive
  MaxIrqs     \* bound on the number of interrupts

VARIABLES
  con,      \* the console, see Vga
  sh, ram,  \* the shell's statics and the memory of peek and poke, see Shell
  kb,       \* the keyboard driver's statics, see Keyboard
  main,     \* kmain: where it is, what it still prints, its locals
  early,    \* the current line was touched before shell_init returned
  back,     \* kmain has set ty back to above a row that the handler had reached
  wide,     \* the current line has outgrown what the console can redraw
  overrun, arrows,  \* as in Shell
  irqs      \* number of interrupts

vars == <<con, sh, ram, kb, main, early, back, wide, overrun, arrows, irqs>>

V == INSTANCE Vga WITH Char <- Nat
S == INSTANCE Shell WITH
       Strokes <- {}, MaxCalls <- 0, out <- <<>>, entered <- <<>>, count <- 0
K == INSTANCE Keyboard WITH
       Keys <- {}, WireMax <- 0, MaxEvents <- 0, wire <- <<>>, calls <- <<>>,
       held <- {}, last <- {}, caps <- FALSE, due <- <<>>, odd <- FALSE,
       stale <- FALSE, events <- 0

ASSUME KernelAssumption ==
  /\ WIDTH \in Nat /\ WIDTH >= 2 /\ HEIGHT \in Nat /\ HEIGHT >= 2
  /\ WINDOW \in Nat /\ WINDOW >= WIDTH * (HEIGHT + 2)
  /\ CRTCBASE \in Nat \ {0} /\ N \in Nat \ {0}
  /\ Banner \in Seq(Nat) /\ Hello \in Seq(Nat \ {V!NUL})
  /\ Len(Hello) > 0 /\ Hello[Len(Hello)] = V!LF
  /\ \A e \in Env : e.past \in Seq(Nat \ {V!NUL})
  /\ \A f \in S!Formats : ReplyText[f] \in Seq(Nat)

-----------------------------------------------------------------------------
(* The interrupt: keyboard(), kcallback() and the console calls it makes.  *)

Show(k, o) ==
  CASE o.op = "puts"     -> V!puts(k, o.arg)
    [] o.op = "setpos_x" -> V!setpos_x(k, o.arg)
    [] o.op = "clrline"  -> V!clrline(k)
    [] OTHER             -> V!puts(k, ReplyText[o.op])

\* The console after the calls o.
Shown(k, o) ==
  LET after[n \in 0 .. Len(o)] == IF n = 0 THEN k ELSE Show(after[n - 1], o[n])
  IN  after[Len(o)]

\* The call has put a line end into the line, has filled the row, or has
\* erased from a line past the half row that clrline clears; t is the shell
\* after it.
Outgrows(ch, st, t) ==
  ch = V!CR \/ t.ptr >= WIDTH \/ ("BCKSP" \in st /\ sh.ptr >= WIDTH \div 2)

Irq(sc) ==
  /\ irqs < MaxIrqs /\ irqs' = irqs + 1
  /\ UNCHANGED <<main, back>>
  /\ LET r == K!keyboard(kb, sc)
     IN  /\ kb' = r.kb
         /\ \/ /\ r.call = <<>>
               /\ UNCHANGED <<con, sh, ram, early, wide, overrun, arrows>>
            \/ /\ r.call # <<>>
               /\ \E e \in Env :
                    LET c == r.call[1].c
                        st == r.call[1].st
                        t == S!kcallback(sh, ram, c, st, e)
                    IN  /\ sh' = t.sh /\ ram' = t.ram
                        /\ con' = Shown(con, t.out)
                        /\ early' = (main.phase # "idle" \/ (early /\ c # S!LF))
                        /\ wide' = (c # S!LF /\ (wide \/ Outgrows(c, st, t.sh)))
                        /\ overrun' = (overrun \/ S!Overruns(sh, c, st))
                        /\ arrows' = (arrows \/ S!IsArrow(c, st))

-----------------------------------------------------------------------------
(* kmain.  phase is the statement of kmain or shell_init it executes; at   *)
(* is the point inside putc, for the character c = Head(todo); i indexes   *)
(* memmove and memset; row, col, off and cell are registers; nl tells the  *)
(* newline of the '\n' branch from that of the wrap.                       *)

Goto(l) == [main EXCEPT !.at = l]

At(l) == main.phase \in {"hello", "prompt"} /\ main.todo # <<>> /\ main.at = l

OnlyMain == UNCHANGED <<sh, ram, kb, early, back, wide, overrun, arrows, irqs>>

c == Head(main.todo)

\* if (c == '\n' || c == '\r'), which looks at a register only.
Kind == IF c \in {V!LF, V!CR} THEN [Goto("load") EXCEPT !.nl = TRUE] ELSE Goto("curs")

\* if (tx >= WIDTH)
PutcTest ==
  /\ At("test")
  /\ main' = IF con.tx >= WIDTH THEN Goto("load") ELSE Kind
  /\ UNCHANGED con /\ OnlyMain

\* ty is read for ty += 1
PutcLoad ==
  /\ At("load")
  /\ main' = [Goto("home") EXCEPT !.row = con.ty]
  /\ UNCHANGED con /\ OnlyMain

\* tx = 0
PutcHome ==
  /\ At("home")
  /\ con' = [con EXCEPT !.tx = 0] /\ main' = Goto("down") /\ OnlyMain

\* ty += 1, of the register or of ty as it is now
PutcDown ==
  /\ At("down")
  /\ \E y \in {main.row, con.ty} :
       con' = [con EXCEPT !.ty = y + 1] /\ back' = (back \/ y + 1 < con.ty)
  /\ main' = [Goto("over") EXCEPT !.row = 0]
  /\ UNCHANGED <<sh, ram, kb, early, wide, overrun, arrows, irqs>>

\* vga_scroll has returned.
Scrolled == IF main.nl THEN Goto("curs") ELSE Kind

\* Mutant: the test forgets that rows count from 0.
ScrollTest_Late ==
  /\ At("over")
  /\ main' = IF con.ty > HEIGHT THEN Goto("move") ELSE Scrolled
  /\ UNCHANGED con /\ OnlyMain

\* if (ty >= HEIGHT), of vga_scroll
ScrollTest ==
  /\ At("over")
  /\ main' = IF con.ty >= HEIGHT THEN Goto("move") ELSE Scrolled
  /\ UNCHANGED con /\ OnlyMain

\* memmove reads a cell (or memset has its value) ...
ScrollLoad ==
  /\ At("move")
  /\ main' = [Goto("put") EXCEPT !.cell =
                IF main.i < WIDTH * (HEIGHT - 1) THEN con.mem[main.i + WIDTH] ELSE V!NUL]
  /\ UNCHANGED con /\ OnlyMain

\* ... and stores it one row higher.
ScrollStore ==
  /\ At("put")
  /\ con' = [con EXCEPT !.mem[main.i] = main.cell]
  /\ main' = IF main.i + 1 < V!Page THEN [Goto("move") EXCEPT !.i = @ + 1, !.cell = V!NUL]
             ELSE [Goto("bottom") EXCEPT !.i = 0, !.cell = V!NUL]
  /\ OnlyMain

\* Mutant: vga_scroll does not set the row.
ScrollBottom_Keep ==
  /\ At("bottom")
  /\ UNCHANGED con
  /\ main' = Scrolled /\ OnlyMain

\* ty = HEIGHT - 1
ScrollBottom ==
  /\ At("bottom")
  /\ con' = [con EXCEPT !.ty = HEIGHT - 1]
  /\ main' = Scrolled /\ OnlyMain

\* cursor(): its reads and its port writes are one step
PutcCursor ==
  /\ At("curs")
  /\ con' = V!cursor(con, IF main.nl THEN con.tx ELSE con.tx + 1, con.ty)
  /\ main' = IF main.nl THEN [Goto("test") EXCEPT !.todo = Tail(@), !.nl = FALSE]
             ELSE Goto("col")
  /\ OnlyMain

\* off = ty * WIDTH + tx: tx is read, then ty
PutcColumn ==
  /\ At("col")
  /\ main' = [Goto("off") EXCEPT !.col = con.tx]
  /\ UNCHANGED con /\ OnlyMain

PutcRow ==
  /\ At("off")
  /\ main' = [Goto("store") EXCEPT !.off = con.ty * WIDTH + main.col]
  /\ UNCHANGED con /\ OnlyMain

PutcStore ==
  /\ At("store")
  /\ con' = [con EXCEPT !.mem[main.off] = c] /\ main' = [Goto("step") EXCEPT !.off = 0]
  /\ OnlyMain

\* tx++, of the register or of tx as it is now
PutcStep ==
  /\ At("step")
  /\ \E x \in {main.col, con.tx} : con' = [con EXCEPT !.tx = x + 1]
  /\ main' = [Goto("test") EXCEPT !.todo = Tail(@), !.col = 0]
  /\ OnlyMain

\* printf has returned: shell_init begins.
HelloDone ==
  /\ main.phase = "hello" /\ main.todo = <<>>
  /\ main' = [main EXCEPT !.phase = "memset", !.i = 0]
  /\ UNCHANGED con /\ OnlyMain

\* Mutant: memset counts in 8 bits, so it never reaches 256.
Memset_Narrow ==
  /\ main.phase = "memset"
  /\ sh' = [sh EXCEPT !.buf[main.i] = V!NUL]
  /\ main' = [main EXCEPT !.i = (@ + 1) % N]
  /\ UNCHANGED <<con, ram, kb, early, back, wide, overrun, arrows, irqs>>

\* One byte of memset(shellbuf, 0, 256).
Memset ==
  /\ main.phase = "memset"
  /\ sh' = [sh EXCEPT !.buf[main.i] = V!NUL]
  /\ main' = IF main.i + 1 < N THEN [main EXCEPT !.i = @ + 1]
             ELSE [main EXCEPT !.phase = "prompt", !.i = 0, !.todo = S!PROMPT]
  /\ UNCHANGED <<con, ram, kb, early, back, wide, overrun, arrows, irqs>>

\* shell_init has returned: for (;;) wait().
PromptDone ==
  /\ main.phase = "prompt" /\ main.todo = <<>>
  /\ main' = [main EXCEPT !.phase = "idle"]
  /\ UNCHANGED con /\ OnlyMain

Main ==
  \/ PutcTest \/ PutcLoad \/ PutcHome \/ PutcDown
  \/ ScrollTest \/ ScrollLoad \/ ScrollStore \/ ScrollBottom
  \/ PutcCursor \/ PutcColumn \/ PutcRow \/ PutcStore \/ PutcStep
  \/ HelloDone \/ Memset \/ PromptDone

\* The state after arch_init.
Init ==
  /\ con = V!puts(V!vga_init, Banner)
  /\ sh = S!shell_statics /\ ram = [a \in Addr |-> 0] /\ kb = K!keyboard_init
  /\ main = [phase |-> "hello", todo |-> Hello, at |-> "test", nl |-> FALSE,
             i |-> 0, row |-> 0, col |-> 0, off |-> 0, cell |-> V!NUL]
  /\ early = FALSE /\ back = FALSE /\ wide = FALSE /\ overrun = FALSE /\ arrows = FALSE /\ irqs = 0

Next == Main \/ \E sc \in Codes : Irq(sc)

\* kmain is never blocked and the processor resumes it after each interrupt.
Spec == Init /\ [][Next]_vars /\ WF_vars(Main)

-----------------------------------------------------------------------------

Text == S!Text(sh.buf, <<>>)

Row(y) == [x \in 0 .. WIDTH - 1 |-> con.mem[y * WIDTH + x]]

(* A putc of kmain that is interrupted between its tests of tx and ty      *)
(* (vga.c:25, 44) and its stores can write below the visible page, and so  *)
(* can the handler's echo while ty is HEIGHT for a moment (vga.c:46); but  *)
(* never lower than the row below it, so the stores stay in video memory.  *)
StrayStoresBounded ==
  \A i \in V!Cells : i >= V!Page + WIDTH => con.mem[i] = V!NUL

(* Once kmain is idle the position is one from which putc stores on the    *)
(* page, whatever the interrupts did to the putc of kmain (vga.c:42-60).   *)
IdlePositionOnPage == main.phase = "idle" => con.ty < HEIGHT /\ con.tx <= WIDTH + 1

(* Keys that arrive before shell_init has cleared shellbuf can leave       *)
(* shellptr past the text (shell.c:19 does not reset it): what is typed    *)
(* after that is lost.  The damage ends with the line: after Enter the     *)
(* length and the text of the line agree again.                            *)
LineIntact == ~early /\ ~arrows /\ ~overrun => sh.ptr = Len(Text)

(* What the person sees is what Enter will run: with kmain idle, the       *)
(* cursor's row shows the prompt and the line (shell.c:73-102, vga.c:      *)
(* 87-93), once no key of the line came early and as long as the line can  *)
(* be redrawn in its row.  Nothing else is in that row, unless an          *)
(* interrupt between kmain's read and write of ty (vga.c:46) had the       *)
(* handler go down further than kmain then went: text that it left below   *)
(* shows up behind later prompts.                                          *)
EchoIsLine ==
  (main.phase = "idle" /\ ~early /\ ~arrows /\ ~overrun /\ ~wide) =>
    /\ con.tx = 1 + Len(Text)
    /\ Row(con.ty)[0] = S!PROMPT[1]
    /\ \A x \in 1 .. Len(Text) : Row(con.ty)[x] = Text[x]
    /\ ~back => \A x \in Len(Text) + 1 .. WIDTH - 1 : Row(con.ty)[x] = V!NUL

(* The kernel comes up: whatever keys are struck meanwhile, kmain reaches  *)
(* its idle loop (kernel.c:11).                                            *)
ReachesIdle == <>(main.phase = "idle")
=============================================================================
