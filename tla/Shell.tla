------------------------------- MODULE Shell -------------------------------
(***************************************************************************)
(* The kernel shell, src/kernel/shell.c: a line buffer, a history of       *)
(* lines and the commands peek and poke, all driven from the keyboard      *)
(* callback kcallback(c, kstate).                                          *)
(*                                                                         *)
(* The statics are the record sh; kcallback(s, r, c, st, e) is the handler *)
(* as a function of the statics s and the memory r that peek and poke      *)
(* reach, and gives the new ones and the console calls made, in order.     *)
(* e holds what the reads that leave the shell's arrays happen to find:    *)
(* past, the characters after an unterminated shellbuf; null, the string   *)
(* at address 0; bus, a byte that peek reads outside of r; junk, the 256   *)
(* bytes before or after shellhist.                                        *)
(***************************************************************************)
EXTENDS LibString

CONSTANTS
  N,         \* bytes of a line buffer, and the wrap of shellptr (256)
  H,         \* lines of history, and the wrap of histptr (256)
  PeekWord,  \* "peek"
  PokeWord,  \* "poke"
  ULONG_MAX, \* largest unsigned long
  BYTE,      \* radix of a byte (256)
  Addr,      \* the addresses of memory that is not otherwise modelled
  Char,      \* the characters of a line
  Strokes,   \* the pairs <<c, kstate>> the callback is called with
  Env,       \* the values of e
  MaxCalls   \* bound on the number of calls

LF == 10

Idx  == 0 .. N - 1
Slot == 0 .. H - 1
Buffer == [Idx -> Char]

ASSUME ShellAssumption ==
  /\ N \in Nat \ {0} /\ H \in Nat \ {0} /\ BYTE \in Nat \ {0} /\ ULONG_MAX \in Nat
  /\ MaxCalls \in Nat
  /\ NUL \in Char /\ Char \subseteq Nat
  /\ \A k \in Strokes : k[1] \in Char \cup {LF}
  /\ PeekWord \in Seq(Nat \ {NUL}) /\ PokeWord \in Seq(Nat \ {NUL})
  /\ \A e \in Env : /\ e.past \in Seq(Char \ {NUL}) /\ e.junk \in Buffer
                    /\ e.bus \in 0 .. BYTE - 1

VARIABLES
  sh,       \* shellbuf, shellptr, shellhist, shellptr_hist, histptr
  ram,      \* the memory at Addr
  out,      \* console calls of the last callback
  overrun,  \* an index has left its array or shellptr has wrapped
  arrows,   \* an arrow key has called back
  entered,  \* per history slot, the line as it was when Enter was struck
  count     \* number of calls

vars == <<sh, ram, out, overrun, arrows, entered, count>>

Blank == [i \in Idx |-> NUL]

shell_statics ==
  [buf |-> Blank, ptr |-> 0, hist |-> [j \in Slot |-> Blank],
   hptr |-> [j \in Slot |-> 0], h |-> 0]

\* uint8_t counters, which wrap.
Inc(i, n) == IF i = n - 1 THEN 0 ELSE i + 1
Dec(i, n) == IF i = 0 THEN n - 1 ELSE i - 1

-----------------------------------------------------------------------------
(* Console calls.                                                          *)

SetposX(x)     == [op |-> "setpos_x", arg |-> x]
Puts(s)        == [op |-> "puts", arg |-> s]
Clrline        == [op |-> "clrline", arg |-> 0]
Printf(f, arg) == [op |-> f, arg |-> arg]

Formats == {"usage peek", "usage poke", "peek", "poke", "unknown"}
PROMPT == <<62>>

\* shellbuf as the string functions see it, with what follows it.
View(buf, past) ==
  [i \in 0 .. N + Len(past) |->
     IF i < N THEN buf[i] ELSE IF i < N + Len(past) THEN past[i - N + 1] ELSE NUL]

Text(buf, past) == StrAt(View(buf, past), 0)

-----------------------------------------------------------------------------
(* shell_proc.                                                             *)

\* Mutant: the comparison with 0 is missing.
shell_hash_NoCompare(word) ==
  IF strcmp(word, PeekWord) = 0 THEN "peek"
  ELSE IF strcmp(word, PokeWord) # 0 THEN "poke" ELSE "none"

shell_hash(word) ==
  IF strcmp(word, PeekWord) = 0 THEN "peek"
  ELSE IF strcmp(word, PokeWord) = 0 THEN "poke" ELSE "none"

\* What a command leaves: the view as strtok has cut it, the printf it made
\* and the memory.
Result(t, print, r) == [m |-> t.m, print |-> print, ram |-> r]

NextToken(t) == strtok(t.m, t.olds, NULLPTR, {SPACE})

Number(t) == strtoul(StrAt(t.m, t.tok), 16, ULONG_MAX)

peek(arg, r, e) ==
  LET mem == Number(arg)
  IN  IF arg.tok = NULLPTR THEN Result(arg, Printf("usage peek", <<>>), r)
      ELSE Result(arg, Printf("peek", <<mem, IF mem \in Addr THEN r[mem] ELSE e.bus>>), r)

\* The second argument is looked for only after the first was found.
poke_value(mem, arg, r) ==
  LET val == Number(arg)
  IN  IF arg.tok = NULLPTR THEN Result(arg, Printf("usage poke", <<>>), r)
      ELSE Result(arg, Printf("poke", <<mem, val>>),
                  [x \in Addr |-> IF x = mem THEN val % BYTE ELSE r[x]])

poke(arg, r) ==
  IF arg.tok = NULLPTR THEN Result(arg, Printf("usage poke", <<>>), r)
  ELSE poke_value(Number(arg), NextToken(arg), r)

\* The command whose first token is w.
Dispatch(w, r, e) ==
  LET word == IF w.tok = NULLPTR THEN e.null ELSE StrAt(w.m, w.tok)
  IN  CASE shell_hash(word) = "peek" -> peek(NextToken(w), r, e)
        [] shell_hash(word) = "poke" -> poke(NextToken(w), r)
        [] OTHER -> Result(w, Printf("unknown", word), r)

Command(v, r, e) == Dispatch(strtok(v, 0, 0, {SPACE}), r, e)

\* Mutant: histptr advances before the copy.
Finish_EarlyAdvance(s, c) ==
  LET g == Inc(s.h, H)
  IN  [sh |-> [buf |-> Blank, ptr |-> 0,
               hist |-> [s.hist EXCEPT ![g] = [i \in Idx |-> c.m[i]]],
               hptr |-> [s.hptr EXCEPT ![g] = s.ptr],
               h |-> g],
       ram |-> c.ram,
       out |-> <<c.print, Puts(<<LF>>)>>]

\* Mutant: the line is not cleared for the next one.
Finish_NoMemset(s, c) ==
  [sh |-> [buf |-> s.buf, ptr |-> 0,
           hist |-> [s.hist EXCEPT ![s.h] = [i \in Idx |-> c.m[i]]],
           hptr |-> [s.hptr EXCEPT ![s.h] = s.ptr],
           h |-> Inc(s.h, H)],
   ram |-> c.ram,
   out |-> <<c.print, Puts(<<LF>>)>>]

\* After the command c: the buffer goes to the history as strtok has left it.
Finish(s, c) ==
  [sh |-> [buf |-> Blank, ptr |-> 0,
           hist |-> [s.hist EXCEPT ![s.h] = [i \in Idx |-> c.m[i]]],
           hptr |-> [s.hptr EXCEPT ![s.h] = s.ptr],
           h |-> Inc(s.h, H)],
   ram |-> c.ram,
   out |-> <<c.print, Puts(<<LF>>)>>]

shell_proc(s, r, e) == Finish(s, Command(View(s.buf, e.past), r, e))

-----------------------------------------------------------------------------
(* The branches of kcallback.                                              *)

Framed(p) == [p EXCEPT !.out = <<SetposX(0), Puts(<<LF>>)>> \o @ \o <<Puts(PROMPT)>>]

enter(s, r, e) == Framed(shell_proc(s, r, e))

Edit(s, buf, ptr, h) == [s EXCEPT !.buf = buf, !.ptr = ptr, !.h = h]

\* Mutant: the erased character stays in the buffer.
erase_NoClear(s) ==
  LET p == IF s.ptr > 0 THEN s.ptr - 1 ELSE s.ptr
  IN  Edit(s, s.buf, p, s.h)

erase(s) ==
  LET p == IF s.ptr > 0 THEN s.ptr - 1 ELSE s.ptr
  IN  Edit(s, [s.buf EXCEPT ![p] = NUL], p, s.h)

\* Mutant: the row is indexed after histptr has been decremented.
up_RowTooLow(s, e) ==
  LET g == Dec(s.h, H)
  IN  Edit(s, IF s.h > 1 THEN s.hist[s.h - 2] ELSE e.junk, s.hptr[g], g)

\* The row is indexed with the int histptr - 1, the length with the uint8_t.
up(s, e) ==
  LET g == Dec(s.h, H)
  IN  Edit(s, IF s.h > 0 THEN s.hist[s.h - 1] ELSE e.junk, s.hptr[g], g)

down(s, e) ==
  LET g == Inc(s.h, H)
  IN  Edit(s, IF s.h < H - 1 THEN s.hist[s.h + 1] ELSE e.junk, s.hptr[g], g)

\* Mutant: shellptr does not wrap with its 8 bits.
type_NoWrap(s, c) == Edit(s, [s.buf EXCEPT ![s.ptr] = c], s.ptr + 1, s.h)

type(s, c) == Edit(s, [s.buf EXCEPT ![s.ptr] = c], Inc(s.ptr, N), s.h)

edit(s, c, st, e) ==
  IF "BCKSP" \in st THEN erase(s)
  ELSE IF "UP" \in st THEN up(s, e)
  ELSE IF "DOWN" \in st THEN down(s, e)
  ELSE type(s, c)

\* The edited statics t are echoed.
Echo(t, r, st, e) ==
  [sh |-> t, ram |-> r,
   out |-> (IF "BCKSP" \in st THEN <<Clrline, SetposX(0), Puts(PROMPT)>> ELSE <<SetposX(1)>>)
           \o <<Puts(Text(t.buf, e.past))>>]

kcallback(s, r, c, st, e) ==
  IF c = LF THEN enter(s, r, e) ELSE Echo(edit(s, c, st, e), r, st, e)

\* The call leaves an array or wraps shellptr.
Overruns(s, c, st) ==
  /\ c # LF
  /\ "BCKSP" \notin st
  /\ IF "UP" \in st THEN s.h = 0
     ELSE IF "DOWN" \in st THEN s.h = H - 1 ELSE s.ptr = N - 1

\* Arrow presses and releases, and keys struck while an arrow is held.
IsArrow(c, st) == c # LF /\ "BCKSP" \notin st /\ (c = NUL \/ st \cap {"UP", "DOWN"} # {})

-----------------------------------------------------------------------------

Init ==
  /\ sh = shell_statics
  /\ ram = [a \in Addr |-> 0]
  /\ out = <<Puts(PROMPT)>>
  /\ overrun = FALSE /\ arrows = FALSE
  /\ entered = [j \in Slot |-> <<>>] /\ count = 0

\* The callback has given r.
Returns(r, c, st, e) ==
  /\ count < MaxCalls /\ count' = count + 1
  /\ sh' = r.sh /\ ram' = r.ram /\ out' = r.out
  /\ overrun' = (overrun \/ Overruns(sh, c, st))
  /\ arrows' = (arrows \/ IsArrow(c, st))
  /\ entered' = IF c = LF THEN [entered EXCEPT ![sh.h] = Text(sh.buf, e.past)]
                ELSE entered

Call(c, st, e) == Returns(kcallback(sh, ram, c, st, e), c, st, e)

Enter(k, e) == k[1] = LF /\ Call(k[1], k[2], e)
Erase(k, e) == k[1] # LF /\ "BCKSP" \in k[2] /\ Call(k[1], k[2], e)
Up(k, e)    == k[1] # LF /\ "BCKSP" \notin k[2] /\ "UP" \in k[2] /\ Call(k[1], k[2], e)
Down(k, e)  == /\ k[1] # LF /\ k[2] \cap {"BCKSP", "UP"} = {} /\ "DOWN" \in k[2]
               /\ Call(k[1], k[2], e)
Type(k, e)  == k[1] # LF /\ k[2] \cap {"BCKSP", "UP", "DOWN"} = {} /\ Call(k[1], k[2], e)

Next ==
  \E k \in Strokes, e \in Env :
     Enter(k, e) \/ Erase(k, e) \/ Up(k, e) \/ Down(k, e) \/ Type(k, e)

Spec == Init /\ [][Next]_vars

-----------------------------------------------------------------------------

Statics == [buf : Buffer, ptr : Idx, hist : [Slot -> Buffer], hptr : [Slot -> Idx], h : Slot]

StaticsOK == sh \in Statics /\ overrun \in BOOLEAN

TypeOK == StaticsOK /\ ram \in [Addr -> 0 .. BYTE - 1] /\ count \in 0 .. MaxCalls

\* Every character from index p on is NUL.
TailClear(buf, p) == \A i \in Idx : i >= p => buf[i] = NUL

(* As long as no index has left its array, the line and every line of the  *)
(* history are blank from their length on, through any mix of typing,      *)
(* erasing, entering and recalling: memset, strtok and the copies of       *)
(* shell.c:65-67 and 89-94 keep buffers and lengths in step.               *)
BuffersMatchLengths ==
  ~overrun => /\ TailClear(sh.buf, sh.ptr)
              /\ \A j \in Slot : TailClear(sh.hist[j], sh.hptr[j])

(* puts(shellbuf) and strtok(shellbuf) (shell.c:30, 100) find the end of   *)
(* the line inside the buffer, for the current line and for every line a   *)
(* recall can bring back.                                                  *)
LinesTerminated ==
  ~overrun => /\ \E i \in Idx : sh.buf[i] = NUL
              /\ \A j \in Slot : \E i \in Idx : sh.hist[j][i] = NUL

\* A line up to the end of its first word.
FirstWord(l) ==
  LET i == FirstNot(l, LAMBDA c : c = SPACE)
  IN  SubSeq(l, 1, i - 1) \o TakeWhile(SubSeq(l, i, Len(l)), LAMBDA c : c # SPACE)

(* A recall brings back what was entered in that slot, and at least up to  *)
(* its first word: strtok cuts the line before it is copied to the history *)
(* (shell.c:30, 65), but never the command itself.                         *)
HistoryRecallsLine ==
  ~overrun => \A j \in Slot : LET t == Text(sh.hist[j], <<>>)
                             IN  IsPrefix(FirstWord(entered[j]), t) /\ IsPrefix(t, entered[j])
=============================================================================
