------------------------------ MODULE Teletype ------------------------------
(***************************************************************************)
(* What the console promises: a roll of paper that only grows.  Characters *)
(* are printed where the carriage stands, a line that is full continues on *)
(* the next one, and the last HEIGHT lines of the roll are the screen, on  *)
(* which the carriage can be placed and half lines be blanked.  Nothing    *)
(* moves: scrolling is only a longer roll.                                 *)
(***************************************************************************)
EXTENDS Integers, Sequences, SequencesExt

CONSTANTS WIDTH, HEIGHT, Printable, Blank

VARIABLES
  paper,  \* the lines, first to last
  x,      \* column of the carriage, WIDTH when the line is full
  y       \* index of its line in paper

vars == <<paper, x, y>>

BlankLine == [i \in 0 .. WIDTH - 1 |-> Blank]

Top == Len(paper) - HEIGHT   \* lines above the screen

\* The paper and the line after n line feeds from line y.
FeedLines(n) ==
  LET need == (y + n) - Len(paper)
  IN  IF need > 0 THEN paper \o [i \in 1 .. need |-> BlankLine] ELSE paper

Init ==
  /\ paper = [i \in 1 .. HEIGHT |-> BlankLine]
  /\ x = 0 /\ y = 1

PrintChar(c) ==
  LET full == IF x >= WIDTH THEN 1 ELSE 0
      col  == IF x >= WIDTH THEN 0 ELSE x
  IN  /\ paper' = [FeedLines(full) EXCEPT ![y + full][col] = c]
      /\ y' = y + full /\ x' = col + 1

\* A full line is fed before the line end is looked at, so it feeds twice.
LineFeed ==
  LET n == IF x >= WIDTH THEN 2 ELSE 1
  IN  paper' = FeedLines(n) /\ y' = y + n /\ x' = 0

\* Row r of the screen; a row below the screen feeds one line.
Place(col, r) ==
  /\ x' = col
  /\ IF r < HEIGHT
     THEN y' = Top + r + 1 /\ paper' = paper
     ELSE y' = Len(paper) + 1 /\ paper' = Append(paper, BlankLine)

BlankHalf(r) ==
  /\ paper' = [paper EXCEPT ![Top + r + 1] =
                 [i \in 0 .. WIDTH - 1 |-> IF i < WIDTH \div 2 THEN Blank ELSE @[i]]]
  /\ UNCHANGED <<x, y>>

Next ==
  \/ \E c \in Printable : PrintChar(c)
  \/ LineFeed
  \/ \E col \in 0 .. WIDTH, r \in 0 .. HEIGHT : Place(col, r)
  \/ \E r \in 0 .. HEIGHT - 1 : BlankHalf(r)

Spec == Init /\ [][Next]_vars
=============================================================================
