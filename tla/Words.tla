------------------------------- MODULE Words -------------------------------
(***************************************************************************)
(* What the words of a line and the value of a numeral are, stated without *)
(* pointers or limits: words are the maximal runs without a space, the     *)
(* value of a numeral is an unbounded number that is capped only at the    *)
(* end.  The reference that strtok and strtoul are compared with.          *)
(***************************************************************************)
EXTENDS LibString, FiniteSets

WordStarts(s) ==
  {i \in 1 .. Len(s) : s[i] # SPACE /\ (i = 1 \/ s[i - 1] = SPACE)}

WordAt(s, i) ==
  CHOOSE w \in {SubSeq(s, i, j) : j \in i .. Len(s)} :
    /\ \A k \in 1 .. Len(w) : w[k] # SPACE
    /\ i + Len(w) > Len(s) \/ s[i + Len(w)] = SPACE

\* The n-th word is the one with n - 1 words before it.
Words(s) ==
  LET starts == WordStarts(s)
      nth(n) == CHOOSE i \in starts : Cardinality({j \in starts : j < i}) = n - 1
  IN  [n \in 1 .. Cardinality(starts) |-> WordAt(s, nth(n))]

\* The value of a sequence of digits, without any limit.
Numeral(ds, b) == FoldLeft(LAMBDA n, c : n * b + Digit(c), 0, ds)

\* White space, an optional sign, an optional base prefix and a numeral.
Value(w, base, max) ==
  LET t    == AfterSpace(w)
      neg  == IsPrefix(<<MINUS>>, t)
      u    == IF neg \/ IsPrefix(<<PLUS>>, t) THEN Tail(t) ELSE t
      hex  == base \in {0, 16} /\ \E x \in {88, 120} : IsPrefix(<<ZERO, x>>, u)
      b    == IF hex THEN 16 ELSE IF base > 0 THEN base
              ELSE IF IsPrefix(<<ZERO>>, u) THEN 8 ELSE 10
      n    == Numeral(Leading(IF hex THEN SubSeq(u, 3, Len(u)) ELSE u, b), b)
  IN  IF n > max THEN max ELSE (IF neg THEN -n ELSE n) % (max + 1)
=============================================================================
