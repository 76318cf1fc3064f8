----------------------------- MODULE LibString -----------------------------
(***************************************************************************)
(* The string functions of src/libk/string that the shell is built on.     *)
(*                                                                         *)
(* A C string lives in a memory m, a function from indices to character    *)
(* codes that holds a NUL at or after every index a function is called     *)
(* with; a pointer is an index.  A loop over characters is the first index *)
(* at which it ends.  StrAt turns the string at an index into a sequence.  *)
(***************************************************************************)
EXTENDS Integers, Sequences, SequencesExt

NUL   == 0
SPACE == 32

NULLPTR == -1

ISUPPER(c) == 64 < c /\ c < 91
ISLOWER(c) == 96 < c /\ c < 123
ISALPHA(c) == ISUPPER(c) \/ ISLOWER(c)
ISDIGIT(c) == 47 < c /\ c < 58
ISSPACE(c) == (8 < c /\ c < 14) \/ c = SPACE

\* Where a loop over the characters from i on ends.
FirstAt(m, i, Ends(_)) == Min({j \in DOMAIN m : j >= i /\ Ends(m[j])})

\* Number of leading characters at i that are in accept.
strspn(m, i, accept) == FirstAt(m, i, LAMBDA c : c = NUL \/ c \notin accept) - i

\* First character at or after i that is in accept, or NULL.
strpbrk(m, i, accept) ==
  LET j == FirstAt(m, i, LAMBDA c : c = NUL \/ c \in accept)
  IN  IF m[j] = NUL THEN NULLPTR ELSE j

\* First occurrence of c at or after i (the NUL counts), or NULL.
strchr(m, i, c) ==
  LET j == FirstAt(m, i, LAMBDA d : d = c \/ d = NUL)
  IN  IF m[j] = c THEN j ELSE NULLPTR

strlen(m, i) == FirstAt(m, i, LAMBDA c : c = NUL) - i

StrAt(m, i) == [k \in 1 .. strlen(m, i) |-> m[i + k - 1]]

\* 0 when the strings are equal, else the difference of the first characters
\* that differ; s and t are sequences without NUL.
strcmp(s, t) ==
  LET at(u, i) == IF i <= Len(u) THEN u[i] ELSE NUL
      j == Min({i \in 1 .. Len(s) + 1 : at(s, i) # at(t, i) \/ at(s, i) = NUL})
  IN  at(s, j) - at(t, j)

\* Mutant: the search for the next token starts at the delimiter's NUL.
Cut_Stuck(m, tok, end) ==
  IF end = NULLPTR THEN [tok |-> tok, m |-> m, olds |-> strchr(m, tok, NUL)]
  ELSE [tok |-> tok, m |-> [m EXCEPT ![end] = NUL], olds |-> end]

\* The token at tok, whose first delimiter is at end (NULL when there is none).
Cut(m, tok, end) ==
  IF end = NULLPTR THEN [tok |-> tok, m |-> m, olds |-> strchr(m, tok, NUL)]
  ELSE [tok |-> tok, m |-> [m EXCEPT ![end] = NUL], olds |-> end + 1]

TokenAt(m, tok, delim) ==
  IF m[tok] = NUL THEN [tok |-> NULLPTR, m |-> m, olds |-> tok]
  ELSE Cut(m, tok, strpbrk(m, tok, delim))

\* The first index at or after i that holds no delimiter.
Skip(m, i, delim) == i + strspn(m, i, delim)

Start(olds, s) == IF s = NULLPTR THEN olds ELSE s

\* Mutant: the delimiters skipped before the token are cleared as well.
strtok_ClearsSkipped(m, olds, s, delim) ==
  LET from == Start(olds, s)
      tok  == Skip(m, from, delim)
  IN  TokenAt([i \in DOMAIN m |-> IF from <= i /\ i < tok THEN NUL ELSE m[i]], tok, delim)

\* The static olds of the C function is a parameter and a result.
strtok(m, olds, s, delim) == TokenAt(m, Skip(m, Start(olds, s), delim), delim)

-----------------------------------------------------------------------------
(* strtoul, on the sequence of the string's characters; max is ULONG_MAX.  *)

MINUS == 45
PLUS  == 43
ZERO  == 48

\* A character that is no digit of any base is 99.
Digit(c) ==
  IF ISDIGIT(c) THEN c - ZERO
  ELSE IF ISUPPER(c) THEN c - 65 + 10
  ELSE IF ISLOWER(c) THEN c - 97 + 10 ELSE 99

FirstNot(s, P(_)) ==
  LET i == SelectInSeq(s, LAMBDA c : ~P(c)) IN IF i = 0 THEN Len(s) + 1 ELSE i

DropWhile(s, P(_)) == SubSeq(s, FirstNot(s, P), Len(s))
TakeWhile(s, P(_)) == SubSeq(s, 1, FirstNot(s, P) - 1)

\* The string after its white space, and the digits of base b it begins with.
AfterSpace(s) == DropWhile(s, ISSPACE)
Leading(s, b) == TakeWhile(s, LAMBDA c : Digit(c) < b)

StartsWith(s, i, C) == Len(s) >= i /\ s[i] \in C

\* Mutant: the limit is tested on the quotient only.
Accumulate_NoCutlim(st, d, base, max) ==
  IF st.over \/ st.acc > max \div base
  THEN [st EXCEPT !.over = TRUE]
  ELSE [st EXCEPT !.acc = (@ * base + d) % (max + 1)]

\* The body of the loop: acc and any (< 0 is over) after one more digit.
Accumulate(st, d, base, max) ==
  IF \/ st.over \/ st.acc > max \div base
     \/ st.acc = max \div base /\ d > max % base
  THEN [st EXCEPT !.over = TRUE]
  ELSE [st EXCEPT !.acc = (@ * base + d) % (max + 1)]

Unsigned(t) == IF StartsWith(t, 1, {MINUS, PLUS}) THEN Tail(t) ELSE t

HexPrefix(u, base) ==
  base \in {0, 16} /\ StartsWith(u, 1, {ZERO}) /\ StartsWith(u, 2, {120, 88})

Radix(u, base) ==
  IF HexPrefix(u, base) THEN 16
  ELSE IF base # 0 THEN base
  ELSE IF StartsWith(u, 1, {ZERO}) THEN 8 ELSE 10

\* acc and any after the digits that u begins with.
Digits(u, b, max) ==
  FoldLeft(LAMBDA st, c : Accumulate(st, Digit(c), b, max),
           [acc |-> 0, over |-> FALSE], Leading(u, b))

Magnitude(u, base, max) ==
  Digits(IF HexPrefix(u, base) THEN SubSeq(u, 3, Len(u)) ELSE u, Radix(u, base), max)

Signed(r, neg, max) ==
  IF r.over THEN max ELSE IF neg THEN (max + 1 - r.acc) % (max + 1) ELSE r.acc

Strtoul(t, base, max) ==
  Signed(Magnitude(Unsigned(t), base, max), StartsWith(t, 1, {MINUS}), max)

strtoul(s, base, max) == Strtoul(AfterSpace(s), base, max)
=============================================================================
