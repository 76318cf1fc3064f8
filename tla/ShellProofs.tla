---------------------------- MODULE ShellProofs ----------------------------
(***************************************************************************)
(* Proofs about the shell, for every buffer and history size.  As long as  *)
(* no index leaves its array, lengths and contents of the line and of the  *)
(* history stay in step, every string operation stays in its buffer, and   *)
(* a recalled line is the one that was entered up to its first word.       *)
(*                                                                         *)
(* The first parts are facts about the operators of LibString: where its   *)
(* loops end, what strtok may change and where it goes on, and what        *)
(* strtoul computes, by induction over the digits.  The last parts prove   *)
(* what Tokens checks: repeated calls of strtok return the words of the    *)
(* line, and strtoul the value of the numeral; and that the shell is the   *)
(* line editor of LineEditor, by reading a command off the words of the    *)
(* line (Answered) and keeping the line free of NULs (RInv).               *)
(***************************************************************************)
EXTENDS ShellRefines, Tokens, WellFoundedInduction, FiniteSetTheorems, TLAPS

-----------------------------------------------------------------------------
(* Least elements, induction, and where the loops of LibString end.        *)

LEMMA MinIsLeast ==
  ASSUME NEW S \in SUBSET Nat, S # {}
  PROVE  Min(S) \in S /\ \A y \in S : Min(S) <= y
<1> DEFINE R == {ss \in Nat \X Nat : ss[1] < ss[2]}
<1>1. R = OpToRel(<, Nat)
  BY DEF OpToRel
<1>2. IsWellFoundedOn(R, Nat)
  BY <1>1, NatLessThanWellFounded
<1>3. PICK x \in S : \A y \in S : <<y, x>> \notin R
  BY <1>2, WFMin
<1>4. ASSUME NEW y \in S PROVE ~(y < x)
  <2>1. y < x => <<y, x>> \in R
    OBVIOUS
  <2> QED BY <1>3, <2>1
<1>5. \A y \in S : x <= y
  <2> TAKE y \in S
  <2>1. x \in Nat /\ y \in Nat
    OBVIOUS
  <2> HIDE DEF R
  <2> QED BY <1>4, <2>1
<1> HIDE DEF R
<1> QED BY <1>5 DEF Min

\* A memory with a NUL at its end, L.
String(L, m) == L \in Nat /\ m \in [0 .. L -> Nat] /\ m[L] = NUL

\* The first index from i on where a loop ends, at the NUL if not before.
LEMMA FirstEnd ==
  ASSUME NEW L \in Nat, NEW i \in 0 .. L, NEW S \in SUBSET (0 .. L), L \in S,
         NEW T, T = {j \in S : j >= i}
  PROVE  /\ Min(T) \in Nat /\ i <= Min(T) /\ Min(T) <= L /\ Min(T) \in S
         /\ \A j \in Nat : i <= j /\ j < Min(T) => j \notin S
<1>1. T \in SUBSET Nat /\ L \in T
  <2>1. 0 .. L \subseteq Nat /\ L >= i
    OBVIOUS
  <2> QED BY <2>1
<1>2. Min(T) \in T /\ \A y \in T : Min(T) <= y
  BY <1>1, MinIsLeast
<1> DEFINE k == Min(T)
<1> HIDE DEF k
<1>3. k \in S /\ k >= i /\ k \in Nat /\ i \in Nat /\ k <= L
  BY <1>1, <1>2 DEF k
<1>4. ASSUME NEW j \in Nat, i <= j, j < k PROVE j \notin S
  <2> SUFFICES ASSUME j \in S PROVE FALSE
    OBVIOUS
  <2>1. j \in T
    BY <1>3, <1>4
  <2>2. k <= j
    BY <1>2, <2>1 DEF k
  <2> QED BY <1>3, <1>4, <2>2
<1> QED BY <1>3, <1>4 DEF k

\* The characters skipped, the end of a word, the end of the string.
LEMMA SkipEnds ==
  ASSUME NEW L, NEW m, String(L, m), NEW i \in 0 .. L, NEW A
  PROVE  /\ Skip(m, i, A) \in Nat /\ i <= Skip(m, i, A) /\ Skip(m, i, A) <= L
         /\ m[Skip(m, i, A)] = NUL \/ m[Skip(m, i, A)] \notin A
         /\ \A j \in Nat : i <= j /\ j < Skip(m, i, A) => m[j] # NUL /\ m[j] \in A
<1> DEFINE S == {j \in 0 .. L : m[j] = NUL \/ m[j] \notin A}
           T == {j \in S : j >= i}
           k == Min(T)
<1>1. L \in Nat /\ DOMAIN m = 0 .. L /\ L \in S
  BY DEF String
<1>2. /\ k \in Nat /\ i <= k /\ k <= L /\ k \in S
      /\ \A j \in Nat : i <= j /\ j < k => j \notin S
  <2>1. S \in SUBSET (0 .. L) /\ T = {j \in S : j >= i}
    OBVIOUS
  <2> HIDE DEF S, T
  <2> QED BY <1>1, <2>1, FirstEnd
<1>3. T = {j \in DOMAIN m : j >= i /\ (m[j] = NUL \/ m[j] \notin A)}
  BY <1>1
<1>4. FirstAt(m, i, LAMBDA c : c = NUL \/ c \notin A) = k
  BY <1>3 DEF FirstAt
<1> HIDE DEF k
<1>5. Skip(m, i, A) = k
  <2>1. Skip(m, i, A) = i + (k - i)
    BY <1>4 DEF Skip, strspn
  <2> QED BY <1>2, <2>1
<1>6. ASSUME NEW j \in Nat, i <= j, j < k PROVE m[j] # NUL /\ m[j] \in A
  <2>1. j \in 0 .. L /\ j \notin S
    BY <1>1, <1>2, <1>6
  <2> QED BY <2>1
<1> QED BY <1>2, <1>5, <1>6

\* The end of the token at i.
TokenEnd(m, i, A) == FirstAt(m, i, LAMBDA c : c = NUL \/ c \in A)

LEMMA TokenEnds ==
  ASSUME NEW L, NEW m, String(L, m), NEW i \in 0 .. L, NEW A
  PROVE  /\ TokenEnd(m, i, A) \in Nat /\ i <= TokenEnd(m, i, A) /\ TokenEnd(m, i, A) <= L
         /\ m[TokenEnd(m, i, A)] = NUL \/ m[TokenEnd(m, i, A)] \in A
         /\ \A j \in Nat : i <= j /\ j < TokenEnd(m, i, A) => m[j] # NUL /\ m[j] \notin A
         /\ m[TokenEnd(m, i, A)] = NUL => strpbrk(m, i, A) = NULLPTR
         /\ m[TokenEnd(m, i, A)] # NUL => strpbrk(m, i, A) = TokenEnd(m, i, A)
<1> DEFINE S == {j \in 0 .. L : m[j] = NUL \/ m[j] \in A}
           T == {j \in S : j >= i}
           k == Min(T)
<1>1. L \in Nat /\ DOMAIN m = 0 .. L /\ L \in S
  BY DEF String
<1>2. /\ k \in Nat /\ i <= k /\ k <= L /\ k \in S
      /\ \A j \in Nat : i <= j /\ j < k => j \notin S
  <2>1. S \in SUBSET (0 .. L) /\ T = {j \in S : j >= i}
    OBVIOUS
  <2> HIDE DEF S, T
  <2> QED BY <1>1, <2>1, FirstEnd
<1>3. T = {j \in DOMAIN m : j >= i /\ (m[j] = NUL \/ m[j] \in A)}
  BY <1>1
<1>4. FirstAt(m, i, LAMBDA c : c = NUL \/ c \in A) = k
  BY <1>3 DEF FirstAt
<1> HIDE DEF k
<1>5. TokenEnd(m, i, A) = k
  BY <1>4 DEF TokenEnd
<1>6. ASSUME NEW j \in Nat, i <= j, j < k PROVE m[j] # NUL /\ m[j] \notin A
  <2>1. j \in 0 .. L /\ j \notin S
    BY <1>1, <1>2, <1>6
  <2> QED BY <2>1
<1>7. strpbrk(m, i, A) = IF m[k] = NUL THEN NULLPTR ELSE k
  BY <1>4 DEF strpbrk
<1> QED BY <1>2, <1>5, <1>6, <1>7

LEMMA NulEnds ==
  ASSUME NEW L, NEW m, String(L, m), NEW i \in 0 .. L
  PROVE  /\ strlen(m, i) \in Nat /\ i + strlen(m, i) <= L /\ m[i + strlen(m, i)] = NUL
         /\ \A j \in Nat : i <= j /\ j < i + strlen(m, i) => m[j] # NUL
         /\ strchr(m, i, NUL) = i + strlen(m, i)
<1> DEFINE S == {j \in 0 .. L : m[j] = NUL}
           T == {j \in S : j >= i}
           k == Min(T)
<1>1. L \in Nat /\ DOMAIN m = 0 .. L /\ L \in S
  BY DEF String
<1>2. /\ k \in Nat /\ i <= k /\ k <= L /\ k \in S
      /\ \A j \in Nat : i <= j /\ j < k => j \notin S
  <2>1. S \in SUBSET (0 .. L) /\ T = {j \in S : j >= i}
    OBVIOUS
  <2> HIDE DEF S, T
  <2> QED BY <1>1, <2>1, FirstEnd
<1>3. T = {j \in DOMAIN m : j >= i /\ m[j] = NUL}
      /\ T = {j \in DOMAIN m : j >= i /\ (m[j] = NUL \/ m[j] = NUL)}
  BY <1>1
<1>4. FirstAt(m, i, LAMBDA c : c = NUL) = k /\ FirstAt(m, i, LAMBDA d : d = NUL \/ d = NUL) = k
  BY <1>3 DEF FirstAt
<1> HIDE DEF k
<1>5. strlen(m, i) = k - i /\ i + (k - i) = k /\ k - i \in Nat
  BY <1>2, <1>4 DEF strlen
<1>6. ASSUME NEW j \in Nat, i <= j, j < k PROVE m[j] # NUL
  <2>1. j \in 0 .. L /\ j \notin S
    BY <1>1, <1>2, <1>6
  <2> QED BY <2>1
<1>7. strchr(m, i, NUL) = k
  <2>1. m[k] = NUL
    BY <1>2
  <2> QED BY <1>4, <2>1 DEF strchr
<1> QED BY <1>2, <1>5, <1>6, <1>7

-----------------------------------------------------------------------------
(* u is v with some characters from q on replaced by NUL: all that strtok  *)
(* does to a line.                                                         *)
CutOf(L, q, v, u) ==
  /\ u \in [0 .. L -> Nat]
  /\ \A i \in 0 .. L : u[i] \in {v[i], NUL} /\ (i < q => u[i] = v[i])

\* A result of strtok on v that can be used, or given to strtok again.
TokenOK(L, q, v, t) ==
  /\ CutOf(L, q, v, t.m)
  /\ t.olds \in Nat /\ q <= t.olds /\ t.olds <= L
  /\ t.tok = NULLPTR \/ t.tok \in 0 .. L

LEMMA CutString ==
  ASSUME NEW L, NEW v, String(L, v), NEW q, NEW u, CutOf(L, q, v, u)
  PROVE  String(L, u)
BY DEF String, CutOf

LEMMA TokenAtOK ==
  ASSUME NEW L, NEW v, String(L, v), NEW q \in Nat, NEW m, CutOf(L, q, v, m),
         NEW tok \in 0 .. L, NEW A, q <= TokenEnd(m, tok, A)
  PROVE  TokenOK(L, q, v, TokenAt(m, tok, A))
<1> DEFINE k == TokenEnd(m, tok, A)
           z == strchr(m, tok, NUL)
<1>a. String(L, m)
  BY CutString
<1>0. String(L, m) /\ L \in Nat /\ tok \in Nat /\ tok <= L
  BY <1>a DEF String
<1>1. /\ k \in Nat /\ tok <= k /\ k <= L
      /\ \A j \in Nat : tok <= j /\ j < k => m[j] # NUL /\ m[j] \notin A
      /\ m[k] = NUL => strpbrk(m, tok, A) = NULLPTR
      /\ m[k] # NUL => strpbrk(m, tok, A) = k
  BY <1>0, TokenEnds
<1>2. /\ z \in Nat /\ tok <= z /\ z <= L /\ m[z] = NUL
  <2> DEFINE n == strlen(m, tok)
  <2>1. n \in Nat /\ tok + n <= L /\ m[tok + n] = NUL /\ z = tok + n
    BY <1>0, NulEnds
  <2> HIDE DEF n, z
  <2> QED BY <1>0, <2>1
<1> HIDE DEF k, z
<1>3. q <= k
  BY DEF k
<1>4. CASE m[tok] = NUL
  <2>1. k = tok
    BY <1>0, <1>1, <1>4
  <2>2. TokenAt(m, tok, A) = [tok |-> NULLPTR, m |-> m, olds |-> tok]
    BY <1>4 DEF TokenAt
  <2> QED BY <1>0, <1>3, <2>1, <2>2 DEF TokenOK
<1>5. CASE m[tok] # NUL /\ m[k] = NUL
  <2>1. TokenAt(m, tok, A) = [tok |-> tok, m |-> m, olds |-> z]
    BY <1>1, <1>5 DEF TokenAt, Cut, z
  <2>2. k <= z
    BY <1>1, <1>2
  <2>3. q <= z
    BY <1>1, <1>2, <1>3, <2>2
  <2> QED BY <1>2, <2>1, <2>3 DEF TokenOK
<1>6. CASE m[tok] # NUL /\ m[k] # NUL
  <2>1. k # NULLPTR /\ k < L /\ k + 1 \in Nat /\ q <= k + 1 /\ k + 1 <= L /\ k \in 0 .. L
    BY <1>0, <1>1, <1>3, <1>6 DEF NULLPTR, String
  <2> DEFINE u == [m EXCEPT ![k] = NUL]
  <2>2. TokenAt(m, tok, A) = [tok |-> tok, m |-> u, olds |-> k + 1]
    BY <1>1, <1>6, <2>1 DEF TokenAt, Cut
  <2>3. CutOf(L, q, v, u)
    <3>1. m \in [0 .. L -> Nat] /\ NUL \in Nat
      BY ShellAssumption DEF CutOf
    <3>2. u \in [0 .. L -> Nat]
      BY <3>1
    <3>3. ASSUME NEW i \in 0 .. L PROVE u[i] \in {v[i], NUL} /\ (i < q => u[i] = v[i])
      <4>1. CASE i = k
        <5>1. u[i] = NUL /\ ~(i < q)
          BY <1>1, <1>3, <3>1, <4>1
        <5> QED BY <5>1
      <4>2. CASE i # k
        <5>1. u[i] = m[i]
          BY <3>1, <4>2
        <5> HIDE DEF u
        <5> QED BY <5>1 DEF CutOf
      <4> QED BY <4>1, <4>2
    <3> HIDE DEF u
    <3> QED BY <3>2, <3>3 DEF CutOf
  <2> HIDE DEF u
  <2> QED BY <2>1, <2>2, <2>3 DEF TokenOK
<1> QED BY <1>4, <1>5, <1>6

\* The end of the first word of v.
WordEnd(v) == TokenEnd(v, Skip(v, 0, {SPACE}), {SPACE})

LEMMA FirstToken ==
  ASSUME NEW L, NEW v, String(L, v)
  PROVE  /\ WordEnd(v) \in Nat /\ WordEnd(v) <= L
         /\ TokenOK(L, WordEnd(v), v, strtok(v, 0, 0, {SPACE}))
<1> DEFINE k == Skip(v, 0, {SPACE})
           q == WordEnd(v)
<1>1. L \in Nat /\ 0 \in 0 .. L
  BY DEF String
<1>2. k \in Nat /\ k <= L
  BY <1>1, SkipEnds
<1>3. k \in 0 .. L
  BY <1>1, <1>2
<1>4. q \in Nat /\ q <= L /\ q = TokenEnd(v, k, {SPACE})
  BY <1>3, TokenEnds DEF WordEnd
<1>5. CutOf(L, q, v, v)
  BY DEF CutOf, String
<1>6. strtok(v, 0, 0, {SPACE}) = TokenAt(v, k, {SPACE})
  BY DEF strtok, Start, NULLPTR
<1> HIDE DEF k, q
<1>7. q <= TokenEnd(v, k, {SPACE})
  BY <1>4
<1>8. TokenOK(L, q, v, TokenAt(v, k, {SPACE}))
  BY <1>3, <1>4, <1>5, <1>7, TokenAtOK
<1> QED BY <1>4, <1>6, <1>8 DEF q

LEMMA NextOK ==
  ASSUME NEW L, NEW v, String(L, v), NEW q \in Nat, NEW t, TokenOK(L, q, v, t)
  PROVE  TokenOK(L, q, v, NextToken(t))
<1> DEFINE k == Skip(t.m, t.olds, {SPACE})
<1>1. /\ CutOf(L, q, v, t.m) /\ t.olds \in Nat /\ q <= t.olds /\ t.olds <= L
      /\ L \in Nat /\ t.olds \in 0 .. L
  BY DEF TokenOK, String
<1>2. String(L, t.m)
  BY <1>1, CutString
<1>3. k \in Nat /\ t.olds <= k /\ k <= L
  BY <1>1, <1>2, SkipEnds
<1>4. NextToken(t) = TokenAt(t.m, k, {SPACE})
  BY DEF NextToken, strtok, Start
<1> HIDE DEF k
<1>5. k \in 0 .. L /\ q <= k
  BY <1>1, <1>3
<1>6. TokenEnd(t.m, k, {SPACE}) \in Nat /\ k <= TokenEnd(t.m, k, {SPACE})
  BY <1>2, <1>5, TokenEnds
<1>7. q <= TokenEnd(t.m, k, {SPACE})
  BY <1>3, <1>5, <1>6
<1> QED BY <1>1, <1>4, <1>5, <1>7, TokenAtOK

\* The string at a token.
LEMMA TokenText ==
  ASSUME NEW L, NEW v, String(L, v), NEW q, NEW t, TokenOK(L, q, v, t), t.tok # NULLPTR
  PROVE  StrAt(t.m, t.tok) \in Seq(Nat)
<1>1. String(L, t.m) /\ t.tok \in 0 .. L /\ L \in Nat
  BY CutString DEF TokenOK, String
<1> DEFINE n == strlen(t.m, t.tok)
<1>2. n \in Nat /\ t.tok + n <= L
  BY <1>1, NulEnds
<1> HIDE DEF n
<1>3. \A k \in 1 .. n : t.tok + k - 1 \in 0 .. L
  BY <1>1, <1>2
<1>4. \A k \in 1 .. n : t.m[t.tok + k - 1] \in Nat
  BY <1>1, <1>3, ShellAssumption DEF String
<1>5. [k \in 1 .. n |-> t.m[t.tok + k - 1]] \in Seq(Nat)
  BY <1>2, <1>4
<1> QED BY <1>5 DEF StrAt, n

-----------------------------------------------------------------------------
(* strtoul: the fold over the digits is a function on the sets of indices  *)
(* read so far, which exists by induction and stays within the limit.      *)

LEMMA Induction ==
  ASSUME NEW S, 0 \in S, \A n \in Nat : n \in S => n + 1 \in S
  PROVE  Nat \subseteq S
<1> SUFFICES ASSUME Nat \ S # {} PROVE FALSE
  OBVIOUS
<1>1. Min(Nat \ S) \in Nat \ S /\ \A y \in Nat \ S : Min(Nat \ S) <= y
  BY MinIsLeast
<1> DEFINE x == Min(Nat \ S)
<1> HIDE DEF x
<1>2. x # 0 /\ x \in Nat /\ x \notin S
  BY <1>1 DEF x
<1>3. x - 1 \in Nat /\ ~(x <= x - 1) /\ (x - 1) + 1 = x
  BY <1>2
<1>4. x - 1 \in S
  BY <1>1, <1>3 DEF x
<1> QED BY <1>2, <1>3, <1>4

\* The greatest element of a set of indices.
LEMMA MaxIs ==
  ASSUME NEW T \in SUBSET Nat, NEW x \in T, \A y \in T : y <= x
  PROVE  Max(T) = x
<1>1. x \in Nat /\ \A y \in T : y \in Nat
  OBVIOUS
<1>2. \A y \in T : x >= y
  BY <1>1
<1>3. Max(T) \in T /\ \A y \in T : Max(T) >= y
  BY <1>2 DEF Max
<1>4. Max(T) >= x /\ Max(T) <= x /\ Max(T) \in Nat
  BY <1>1, <1>3
<1> DEFINE z == Max(T)
<1> HIDE DEF z
<1>5. z >= x /\ z <= x /\ z \in Nat
  BY <1>4 DEF z
<1>6. z = x
  BY <1>1, <1>5
<1> QED BY <1>6 DEF z

\* Subsets of 1 .. k + 1, with and without k + 1.
LEMMA UpTo ==
  ASSUME NEW k \in Nat, NEW T \in SUBSET (1 .. k + 1)
  PROVE  /\ k + 1 \in T => Max(T) = k + 1 /\ T # {}
         /\ T \ {k + 1} \in SUBSET (1 .. k)
         /\ k + 1 \notin T => T \in SUBSET (1 .. k)
<1>1. \A y \in T : y \in Nat /\ y <= k + 1 /\ (y # k + 1 => y \in 1 .. k)
  <2> TAKE y \in T
  <2>1. y \in 1 .. k + 1
    OBVIOUS
  <2> QED BY <2>1
<1>2. T \in SUBSET Nat
  BY <1>1
<1>3. k + 1 \in T => Max(T) = k + 1
  BY <1>1, <1>2, MaxIs
<1> QED BY <1>1, <1>3

LEMMA Interval ==
  ASSUME NEW k \in Nat
  PROVE  /\ Max(1 .. k + 1) = k + 1 /\ 1 .. k + 1 # {}
         /\ (1 .. k + 1) \ {k + 1} = 1 .. k
         /\ 1 .. 0 = {}
<1>1. k + 1 \in 1 .. k + 1 /\ (1 .. k + 1) \ {k + 1} = 1 .. k /\ 1 .. 0 = {}
  OBVIOUS
<1>2. 1 .. k + 1 \in SUBSET (1 .. k + 1)
  OBVIOUS
<1>3. Max(1 .. k + 1) = k + 1
  BY <1>1, <1>2, UpTo
<1> QED BY <1>1, <1>3

\* One more digit, with strtoul's limit or without any.
OneDigit(limit, st, c, b, max) ==
  IF limit THEN Accumulate(st, Digit(c), b, max) ELSE st * b + Digit(c)

\* The function that a fold over digits is defined with, on subsets of 1 .. k.
Iter(k, g, limit, b, max, base, s) ==
  g = [I \in SUBSET (1 .. k) |->
         IF I = {} THEN base
         ELSE OneDigit(limit, g[I \ {Max(I)}], s[Max(I)], b, max)]

LEMMA IterExists ==
  ASSUME NEW n \in Nat, NEW limit, NEW b, NEW max, NEW base, NEW s
  PROVE  \E g : Iter(n, g, limit, b, max, base, s)
<1> DEFINE S == {k \in Nat : \E g : Iter(k, g, limit, b, max, base, s)}
<1>1. 0 \in S
  <2> DEFINE g == [T \in SUBSET (1 .. 0) |-> base]
  <2>1. \A T \in SUBSET (1 .. 0) : T = {}
    OBVIOUS
  <2>2. Iter(0, g, limit, b, max, base, s)
    BY <2>1 DEF Iter
  <2> QED BY <2>2
<1>2. ASSUME NEW k \in Nat, k \in S PROVE k + 1 \in S
  <2>1. PICK g : Iter(k, g, limit, b, max, base, s)
    BY <1>2
  <2> DEFINE Acc(T) == OneDigit(limit, g[T \ {k + 1}], s[k + 1], b, max)
             h == [T \in SUBSET (1 .. k + 1) |-> IF k + 1 \in T THEN Acc(T) ELSE g[T]]
  <2>2. ASSUME NEW T \in SUBSET (1 .. k)
        PROVE  h[T] = g[T]
    <3>1. T \in SUBSET (1 .. k + 1) /\ k + 1 \notin T
      OBVIOUS
    <3> HIDE DEF Acc
    <3> QED BY <3>1
  <2>3. ASSUME NEW T \in SUBSET (1 .. k + 1)
        PROVE  h[T] = IF T = {} THEN base
                      ELSE OneDigit(limit, h[T \ {Max(T)}], s[Max(T)], b, max)
    <3>1. CASE k + 1 \in T
      <4>1. Max(T) = k + 1 /\ T # {} /\ T \ {k + 1} \in SUBSET (1 .. k)
        BY <3>1, UpTo
      <4>2. h[T \ {k + 1}] = g[T \ {k + 1}]
        BY <2>2, <4>1
      <4>3. h[T] = Acc(T)
        BY <3>1
      <4> HIDE DEF h
      <4> QED BY <4>1, <4>2, <4>3
    <3>2. CASE k + 1 \notin T
      <4>1. T \in SUBSET (1 .. k) /\ T \ {Max(T)} \in SUBSET (1 .. k)
        BY <3>2, UpTo
      <4>2. h[T] = g[T] /\ h[T \ {Max(T)}] = g[T \ {Max(T)}]
        BY <2>2, <4>1
      <4>3. g[T] = IF T = {} THEN base
                   ELSE OneDigit(limit, g[T \ {Max(T)}], s[Max(T)], b, max)
        BY <2>1, <4>1 DEF Iter
      <4> HIDE DEF h
      <4> QED BY <4>2, <4>3
    <3> QED BY <3>1, <3>2
  <2>4. h = [T \in SUBSET (1 .. k + 1) |-> h[T]]
    OBVIOUS
  <2> HIDE DEF h
  <2>5. Iter(k + 1, h, limit, b, max, base, s)
    BY <2>3, <2>4 DEF Iter
  <2> QED BY <2>5
<1> HIDE DEF S
<1>3. Nat \subseteq S
  BY <1>1, <1>2, Induction
<1> QED BY <1>3 DEF S

\* The fold of Digits.
Folded(b, max, base, s) == FoldLeft(LAMBDA st, c : Accumulate(st, Digit(c), b, max), base, s)

Limited(n, g, b, max, base, s) ==
  Iter(n, g, TRUE, b, max, base, s) /\ Folded(b, max, base, s) = g[1 .. n]

Unlimited(n, h, b, s) == Iter(n, h, FALSE, b, 0, 0, s) /\ Numeral(s, b) = h[1 .. n]

LEMMA FoldIsIter ==
  ASSUME NEW n \in Nat, NEW b, NEW max, NEW base, NEW s, DOMAIN s = 1 .. n
  PROVE  \E g : Limited(n, g, b, max, base, s)
<1> DEFINE g == CHOOSE g : g = [I \in SUBSET (1 .. n) |->
                                  IF I = {} THEN base
                                  ELSE Accumulate(g[I \ {Max(I)}], Digit(s[Max(I)]), b, max)]
<1>1. Iter(n, g, TRUE, b, max, base, s)
  <2>1. \E h : Iter(n, h, TRUE, b, max, base, s)
    BY IterExists
  <2> QED BY <2>1 DEF Iter, OneDigit
<1>2. Folded(b, max, base, s) = g[1 .. n]
  BY DEF Folded, FoldLeft, MapThenFoldSet
<1> QED BY <1>1, <1>2 DEF Limited

LEMMA NumeralIsIter ==
  ASSUME NEW n \in Nat, NEW b, NEW s, DOMAIN s = 1 .. n
  PROVE  \E h : Unlimited(n, h, b, s)
<1> DEFINE h == CHOOSE h : h = [I \in SUBSET (1 .. n) |->
                                  IF I = {} THEN 0
                                  ELSE h[I \ {Max(I)}] * b + Digit(s[Max(I)])]
<1>1. Iter(n, h, FALSE, b, 0, 0, s)
  <2>1. \E g : Iter(n, g, FALSE, b, 0, 0, s)
    BY IterExists
  <2> QED BY <2>1 DEF Iter, OneDigit
<1>2. Numeral(s, b) = h[1 .. n]
  BY DEF Numeral, FoldLeft, MapThenFoldSet
<1> QED BY <1>1, <1>2 DEF Unlimited

Accumulator(max) == [acc : 0 .. max, over : BOOLEAN]

\* What acc and any say of the number a read so far.
Says(st, a, max) ==
  /\ st \in Accumulator(max) /\ a \in Nat
  /\ st.over = TRUE <=> a > max
  /\ st.over # TRUE => st.acc = a

\* The test against cutoff and cutlim is exact.
LEMMA CutoffExact ==
  ASSUME NEW max \in Nat, NEW b \in Nat \ {0}, NEW a \in Nat, NEW d \in Nat, d < b
  PROVE  a * b + d > max <=> a > max \div b \/ (a = max \div b /\ d > max % b)
<1> DEFINE q == max \div b
           r == max % b
<1>1. q \in Nat /\ r \in Nat /\ r < b /\ max = b * q + r
  OBVIOUS
<1> HIDE DEF q, r
<1>2. CASE a > q
  <2>1. a = q + (a - q) /\ a - q \in Nat /\ a - q >= 1
    BY <1>1, <1>2
  <2>2. a * b = b * q + b * (a - q) /\ b * (a - q) >= b
    BY <1>1, <2>1
  <2> QED BY <1>1, <1>2, <2>2
<1>3. CASE a = q
  BY <1>1, <1>3
<1>4. CASE a < q
  <2>1. q - a \in Nat /\ q - a >= 1
    BY <1>1, <1>4
  <2>2. b * q = a * b + b * (q - a) /\ b * (q - a) >= b
    BY <1>1, <2>1
  <2> QED BY <1>1, <1>4, <2>2
<1> QED BY <1>1, <1>2, <1>3, <1>4

LEMMA AccumulateSays ==
  ASSUME NEW max \in Nat, NEW b \in Nat \ {0}, NEW st, NEW a, Says(st, a, max),
         NEW d \in Nat, d < b
  PROVE  Says(Accumulate(st, d, b, max), a * b + d, max)
<1> DEFINE x == a * b + d
           u == Accumulate(st, d, b, max)
           o == [st EXCEPT !.over = TRUE]
           p == [st EXCEPT !.acc = (@ * b + d) % (max + 1)]
<1>1. st \in Accumulator(max) /\ a \in Nat /\ x \in Nat /\ st.acc \in 0 .. max
  BY DEF Says, Accumulator
<1>2. x >= a
  <2>1. a * b >= a /\ a * b \in Nat
    BY <1>1
  <2> QED BY <1>1, <2>1
<1>3. o \in Accumulator(max) /\ o.over = TRUE
  BY <1>1 DEF Accumulator
<1>4. CASE st.over = TRUE
  <2>1. u = o
    BY <1>4 DEF Accumulate
  <2>2. x > max
    BY <1>1, <1>2, <1>4 DEF Says
  <2> HIDE DEF u, o, x
  <2>3. Says(u, x, max)
    BY <1>1, <1>3, <2>1, <2>2 DEF Says
  <2> QED BY <2>3 DEF u, x
<1>5. CASE st.over # TRUE
  <2>1. st.acc = a /\ ~st.over
    BY <1>1, <1>5 DEF Says, Accumulator
  <2>2. x > max <=> a > max \div b \/ (a = max \div b /\ d > max % b)
    BY <1>1, CutoffExact
  <2>3. CASE x > max
    <3>1. u = o
      BY <2>1, <2>2, <2>3 DEF Accumulate
    <3> HIDE DEF u, o, x
    <3>2. Says(u, x, max)
      BY <1>1, <1>3, <2>3, <3>1 DEF Says
    <3> QED BY <3>2 DEF u, x
  <2>4. CASE ~(x > max)
    <3>1. u = p
      BY <2>1, <2>2, <2>4 DEF Accumulate
    <3>2. x % (max + 1) = x /\ x \in 0 .. max
      BY <1>1, <2>4
    <3>3. p \in Accumulator(max) /\ p.acc = x /\ p.over = st.over
      BY <1>1, <2>1, <3>2 DEF Accumulator
    <3> HIDE DEF u, p, x
    <3>4. Says(u, x, max)
      BY <1>1, <1>5, <2>4, <3>1, <3>3 DEF Says
    <3> QED BY <3>4 DEF u, x
  <2> QED BY <2>3, <2>4
<1> QED BY <1>4, <1>5

\* acc and any after all digits, against the number they spell.
LEMMA FoldSays ==
  ASSUME NEW max \in Nat, NEW b \in Nat \ {0}, NEW s \in Seq(Nat), NEW base,
         base = [acc |-> 0, over |-> FALSE],
         \A i \in 1 .. Len(s) : Digit(s[i]) \in Nat /\ Digit(s[i]) < b
  PROVE  Says(Folded(b, max, base, s), Numeral(s, b), max)
<1> DEFINE n == Len(s)
<1>1. n \in Nat /\ DOMAIN s = 1 .. n /\ \A i \in 1 .. n : Digit(s[i]) \in Nat /\ Digit(s[i]) < b
  OBVIOUS
<1> HIDE DEF n
<1>. PICK g : Limited(n, g, b, max, base, s)
  BY <1>1, FoldIsIter
<1>. PICK h : Unlimited(n, h, b, s)
  BY <1>1, NumeralIsIter
<1>2. /\ Iter(n, g, TRUE, b, max, base, s) /\ Folded(b, max, base, s) = g[1 .. n]
      /\ Iter(n, h, FALSE, b, 0, 0, s) /\ Numeral(s, b) = h[1 .. n]
  BY DEF Limited, Unlimited
<1> DEFINE S == {k \in Nat : k <= n => Says(g[1 .. k], h[1 .. k], max)}
<1>3. 0 \in S
  <2>1. 1 .. 0 = {} /\ {} \in SUBSET (1 .. n)
    OBVIOUS
  <2>2. g[{}] = base /\ h[{}] = 0
    BY <1>2, <2>1 DEF Iter
  <2>3. Says(base, 0, max)
    BY DEF Says, Accumulator
  <2> QED BY <2>1, <2>2, <2>3
<1>4. ASSUME NEW k \in Nat, k \in S PROVE k + 1 \in S
  <2> SUFFICES ASSUME k + 1 <= n PROVE Says(g[1 .. k + 1], h[1 .. k + 1], max)
    OBVIOUS
  <2>1. Says(g[1 .. k], h[1 .. k], max)
    BY <1>1, <1>4
  <2>2. 1 .. k + 1 \in SUBSET (1 .. n) /\ k + 1 \in 1 .. n
    BY <1>1
  <2>3. Max(1 .. k + 1) = k + 1 /\ 1 .. k + 1 # {} /\ (1 .. k + 1) \ {k + 1} = 1 .. k
    BY Interval
  <2>4. g[1 .. k + 1] = OneDigit(TRUE, g[(1 .. k + 1) \ {Max(1 .. k + 1)}],
                                 s[Max(1 .. k + 1)], b, max)
    BY <1>2, <2>2, <2>3 DEF Iter
  <2>5. h[1 .. k + 1] = OneDigit(FALSE, h[(1 .. k + 1) \ {Max(1 .. k + 1)}],
                                 s[Max(1 .. k + 1)], b, 0)
    BY <1>2, <2>2, <2>3 DEF Iter
  <2>6. /\ g[1 .. k + 1] = Accumulate(g[1 .. k], Digit(s[k + 1]), b, max)
        /\ h[1 .. k + 1] = h[1 .. k] * b + Digit(s[k + 1])
    BY <2>3, <2>4, <2>5 DEF OneDigit
  <2>7. Digit(s[k + 1]) \in Nat /\ Digit(s[k + 1]) < b
    BY <1>1, <2>2
  <2> QED BY <2>1, <2>6, <2>7, AccumulateSays
<1> HIDE DEF S
<1>5. n \in S
  BY <1>1, <1>3, <1>4, Induction
<1>6. Says(g[1 .. n], h[1 .. n], max)
  BY <1>1, <1>5 DEF S
<1> QED BY <1>2, <1>6

LEMMA FrontIs ==
  ASSUME NEW s \in Seq(Nat), NEW d \in Nat, d <= Len(s)
  PROVE  /\ SubSeq(s, 1, d) \in Seq(Nat) /\ Len(SubSeq(s, 1, d)) = d
         /\ \A j \in 1 .. d : SubSeq(s, 1, d)[j] = s[j]
OBVIOUS

LEMMA JoinLength ==
  ASSUME NEW a \in Seq(Nat), NEW b \in Seq(Nat)
  PROVE  a \o b \in Seq(Nat) /\ Len(a \o b) = Len(a) + Len(b)
OBVIOUS

LEMMA JoinIs ==
  ASSUME NEW a \in Seq(Nat), NEW b \in Seq(Nat), NEW j \in 1 .. Len(a) + Len(b)
  PROVE  (a \o b)[j] = IF j <= Len(a) THEN a[j] ELSE b[j - Len(a)]
OBVIOUS

\* The first index in I, one more than the last if there is none.
FirstOf(n, I) == IF I = {} THEN n + 1 ELSE Min(I)

LEMMA FirstOfIs ==
  ASSUME NEW n \in Nat, NEW I \in SUBSET (1 .. n), NEW k \in 1 .. n + 1,
         \A j \in 1 .. n : j < k => j \notin I, k # n + 1 => k \in I
  PROVE  FirstOf(n, I) = k
<1>1. CASE I = {}
  BY <1>1 DEF FirstOf
<1>2. CASE I # {}
  <2>1. I \in SUBSET Nat
    OBVIOUS
  <2> DEFINE x == Min(I)
  <2>2. x \in I /\ \A y \in I : x <= y
    BY <1>2, <2>1, MinIsLeast
  <2> HIDE DEF x
  <2>3. x \in 1 .. n /\ ~(x < k)
    BY <2>2
  <2>4. k \in I
    BY <2>3
  <2>5. x = k
    BY <2>2, <2>3, <2>4
  <2> QED BY <1>2, <2>5 DEF FirstOf, x
<1> QED BY <1>1, <1>2

LEMMA FirstOfType ==
  ASSUME NEW n \in Nat, NEW I \in SUBSET (1 .. n)
  PROVE  /\ FirstOf(n, I) \in 1 .. n + 1 /\ (I # {} => Min(I) # 0)
         /\ \A j \in 1 .. n : j < FirstOf(n, I) => j \notin I
<1>1. I \in SUBSET Nat
  OBVIOUS
<1>2. I # {} => Min(I) \in 1 .. n
  BY <1>1, MinIsLeast
<1>3. \A x \in 1 .. n : x \in 1 .. n + 1 /\ x # 0
  OBVIOUS
<1>4. ASSUME NEW j \in I, I # {} PROVE ~(j < Min(I))
  <2>1. Min(I) <= j /\ Min(I) \in Nat /\ j \in Nat
    BY <1>1, MinIsLeast
  <2> QED BY <2>1
<1> QED BY <1>2, <1>3, <1>4 DEF FirstOf

\* FirstNot is such an index, so what it cuts off are sequences.
LEMMA TakeType ==
  ASSUME NEW s \in Seq(Nat), NEW b
  PROVE  /\ Leading(s, b) \in Seq(Nat)
         /\ \A i \in 1 .. Len(Leading(s, b)) : Digit(Leading(s, b)[i]) < b
<1> DEFINE n == Len(s)
           I == {i \in 1 .. n : ~(Digit(s[i]) < b)}
<1>1. n \in Nat /\ I \in SUBSET (1 .. n)
  OBVIOUS
<1>2. FirstOf(n, I) \in 1 .. n + 1 /\ (I # {} => Min(I) # 0)
  <2> HIDE DEF n, I
  <2> QED BY <1>1, FirstOfType
<1>3. SelectInSeq(s, LAMBDA c : ~(Digit(c) < b)) = IF I # {} THEN Min(I) ELSE 0
  BY DEF SelectInSeq
<1>4. FirstNot(s, LAMBDA c : Digit(c) < b) = FirstOf(n, I)
  <2>1. CASE I = {}
    BY <1>3, <2>1 DEF FirstNot, FirstOf
  <2>2. CASE I # {}
    BY <1>2, <1>3, <2>2 DEF FirstNot, FirstOf
  <2> QED BY <2>1, <2>2
<1> DEFINE k == FirstOf(n, I)
           f == SubSeq(s, 1, k - 1)
<1>5. \A j \in 1 .. n : j < k => j \notin I
  <2> HIDE DEF n, I
  <2> QED BY <1>1, FirstOfType
<1> HIDE DEF k
<1>6. k \in Nat /\ k - 1 \in Nat /\ k - 1 <= n
  BY <1>1, <1>2 DEF k
<1>7. f \in Seq(Nat) /\ Len(f) = k - 1 /\ \A i \in 1 .. k - 1 : f[i] = s[i]
  BY <1>6, FrontIs
<1> HIDE DEF f
<1>8. \A i \in 1 .. k - 1 : i \in 1 .. n /\ i < k
  BY <1>1, <1>6
<1>9. \A i \in 1 .. Len(f) : Digit(f[i]) < b
  BY <1>5, <1>7, <1>8
<1>10. Leading(s, b) = f
  BY <1>4 DEF Leading, TakeWhile, f, k
<1> QED BY <1>7, <1>9, <1>10

LEMMA DropType ==
  ASSUME NEW s \in Seq(Nat)
  PROVE  AfterSpace(s) \in Seq(Nat)
<1> DEFINE n == Len(s)
           I == {i \in 1 .. n : ~ISSPACE(s[i])}
<1>1. n \in Nat /\ I \in SUBSET (1 .. n)
  OBVIOUS
<1>2. FirstOf(n, I) \in 1 .. n + 1 /\ (I # {} => Min(I) # 0)
  <2> HIDE DEF n, I
  <2> QED BY <1>1, FirstOfType
<1>3. SelectInSeq(s, LAMBDA c : ~ISSPACE(c)) = IF I # {} THEN Min(I) ELSE 0
  BY DEF SelectInSeq
<1>4. FirstNot(s, ISSPACE) = FirstOf(n, I)
  <2>1. CASE I = {}
    BY <1>3, <2>1 DEF FirstNot, FirstOf
  <2>2. CASE I # {}
    BY <1>2, <1>3, <2>2 DEF FirstNot, FirstOf
  <2> QED BY <2>1, <2>2
<1> DEFINE k == FirstOf(n, I)
<1> HIDE DEF k
<1>5. SubSeq(s, k, n) \in Seq(Nat)
  <2>1. k \in 1 .. n + 1
    BY <1>2 DEF k
  <2> QED BY <1>1, <2>1
<1> QED BY <1>4, <1>5 DEF AfterSpace, DropWhile, k

\* A sequence that begins with one or two given characters.
LEMMA BeginsOne ==
  ASSUME NEW t \in Seq(Nat), NEW x \in Nat
  PROVE  IsPrefix(<<x>>, t) <=> StartsWith(t, 1, {x})
<1>1. Len(t) \in Nat /\ Len(<<x>>) = 1
  OBVIOUS
<1>2. ASSUME Len(t) >= 1 PROVE SubSeq(<<x>>, 1, 1) = SubSeq(t, 1, 1) <=> t[1] = x
  <2>1. SubSeq(<<x>>, 1, 1) = [i \in 1 .. 1 |-> <<x>>[i]]
    OBVIOUS
  <2>2. SubSeq(t, 1, 1) = [i \in 1 .. 1 |-> t[i]]
    BY <1>2
  <2>3. \A i \in 1 .. 1 : i = 1
    OBVIOUS
  <2> QED BY <2>1, <2>2, <2>3
<1> QED BY <1>1, <1>2 DEF IsPrefix, StartsWith

LEMMA BeginsTwo ==
  ASSUME NEW t \in Seq(Nat), NEW x \in Nat, NEW y \in Nat, NEW p, p = <<x, y>>
  PROVE  IsPrefix(p, t) <=> StartsWith(t, 1, {x}) /\ StartsWith(t, 2, {y})
<1>1. Len(t) \in Nat /\ Len(<<x, y>>) = 2
  OBVIOUS
<1>2. ASSUME Len(t) >= 2
      PROVE  SubSeq(<<x, y>>, 1, 2) = SubSeq(t, 1, 2) <=> t[1] = x /\ t[2] = y
  <2>1. SubSeq(<<x, y>>, 1, 2) = [i \in 1 .. 2 |-> <<x, y>>[i]]
    OBVIOUS
  <2>2. SubSeq(t, 1, 2) = [i \in 1 .. 2 |-> t[i]]
    BY <1>2
  <2>3. \A i \in 1 .. 2 : i = 1 \/ i = 2
    OBVIOUS
  <2> QED BY <2>1, <2>2, <2>3
<1> QED BY <1>1, <1>2 DEF IsPrefix, StartsWith

\* -n modulo M, as a type without negative numbers computes it.
LEMMA Negated ==
  ASSUME NEW M \in Nat \ {0}, NEW n \in Nat, n < M
  PROVE  n % M = n /\ (M - n) % M = (-n) % M /\ (-n) % M \in 0 .. M - 1
<1>1. n % M = n
  OBVIOUS
<1>2. CASE n = 0
  BY <1>2
<1>3. CASE n # 0
  <2>1. (M - n) % M = M - n
    BY <1>3
  <2>2. (-n) % M = M - n
    BY <1>3
  <2> QED BY <1>1, <2>1, <2>2
<1> QED BY <1>2, <1>3

LEMMA DigitType ==
  ASSUME NEW c \in Nat
  PROVE  Digit(c) \in Nat
BY DEF Digit, ISDIGIT, ISUPPER, ISLOWER, ZERO

\* strtoul is the value of the numeral, and never more than its limit.
LEMMA StrtoulIs ==
  ASSUME NEW s \in Seq(Nat), NEW base \in {0} \cup 2 .. 36, NEW max \in Nat
  PROVE  /\ strtoul(s, base, max) = Value(s, base, max)
         /\ strtoul(s, base, max) \in 0 .. max
<1> DEFINE t == AfterSpace(s)
           neg == StartsWith(t, 1, {MINUS})
           u == Unsigned(t)
           hex == HexPrefix(u, base)
           b == Radix(u, base)
           w == IF hex THEN SubSeq(u, 3, Len(u)) ELSE u
           z == Leading(w, b)
           n == Numeral(z, b)
           r == Magnitude(u, base, max)
<1>1. t \in Seq(Nat)
  BY DropType
<1> HIDE DEF t
<1>2. u \in Seq(Nat)
  BY <1>1 DEF Unsigned, StartsWith
<1>a. MINUS \in Nat /\ PLUS \in Nat /\ ZERO \in Nat /\ 88 \in Nat /\ 120 \in Nat
  BY DEF MINUS, PLUS, ZERO
<1>3. IsPrefix(<<MINUS>>, t) <=> neg
  BY <1>1, <1>a, BeginsOne
<1>4. u = IF IsPrefix(<<MINUS>>, t) \/ IsPrefix(<<PLUS>>, t) THEN Tail(t) ELSE t
  <2>1. IsPrefix(<<PLUS>>, t) <=> StartsWith(t, 1, {PLUS})
    BY <1>1, <1>a, BeginsOne
  <2>2. StartsWith(t, 1, {MINUS, PLUS}) <=> neg \/ StartsWith(t, 1, {PLUS})
    BY DEF StartsWith
  <2> QED BY <1>3, <2>1, <2>2 DEF Unsigned
<1> HIDE DEF u
<1>5. hex <=> base \in {0, 16} /\ \E x \in {88, 120} : IsPrefix(<<ZERO, x>>, u)
  <2>1. \A x \in {88, 120} :
          IsPrefix(<<ZERO, x>>, u) <=> StartsWith(u, 1, {ZERO}) /\ StartsWith(u, 2, {x})
    <3>1. ASSUME NEW x \in Nat
          PROVE  IsPrefix(<<ZERO, x>>, u) <=> StartsWith(u, 1, {ZERO}) /\ StartsWith(u, 2, {x})
      <4> DEFINE p == <<ZERO, x>>
      <4>1. p = <<ZERO, x>>
        OBVIOUS
      <4> HIDE DEF p
      <4>2. IsPrefix(p, u) <=> StartsWith(u, 1, {ZERO}) /\ StartsWith(u, 2, {x})
        BY <1>2, <1>a, <4>1, BeginsTwo
      <4> QED BY <4>2 DEF p
    <3> QED BY <3>1
  <2>2. StartsWith(u, 2, {120, 88}) <=> \E x \in {88, 120} : StartsWith(u, 2, {x})
    BY DEF StartsWith
  <2> QED BY <2>1, <2>2 DEF HexPrefix
<1>6. StartsWith(u, 1, {ZERO}) <=> IsPrefix(<<ZERO>>, u)
  BY <1>2, <1>a, BeginsOne
<1>7. /\ b = IF hex THEN 16 ELSE IF base > 0 THEN base
             ELSE IF IsPrefix(<<ZERO>>, u) THEN 8 ELSE 10
      /\ b \in Nat \ {0}
  BY <1>6 DEF Radix
<1>8. w \in Seq(Nat)
  <2>1. CASE hex
    <3>1. Len(u) >= 2 /\ Len(u) \in Nat
      BY <1>2, <2>1 DEF HexPrefix, StartsWith
    <3>2. SubSeq(u, 3, Len(u)) \in Seq(Nat)
      BY <1>2, <3>1
    <3> QED BY <2>1, <3>2
  <2> QED BY <1>2, <2>1
<1>9. r = Folded(b, max, [acc |-> 0, over |-> FALSE], z)
  BY DEF Magnitude, Digits, Folded
<1>10. Value(s, base, max) = IF n > max THEN max ELSE (IF neg THEN -n ELSE n) % (max + 1)
  <2> DEFINE neg2 == IsPrefix(<<MINUS>>, t)
             u2 == IF neg2 \/ IsPrefix(<<PLUS>>, t) THEN Tail(t) ELSE t
             hex2 == base \in {0, 16} /\ \E x \in {88, 120} : IsPrefix(<<ZERO, x>>, u2)
             b2 == IF hex2 THEN 16 ELSE IF base > 0 THEN base
                   ELSE IF IsPrefix(<<ZERO>>, u2) THEN 8 ELSE 10
             w2 == IF hex2 THEN SubSeq(u2, 3, Len(u2)) ELSE u2
             n2 == Numeral(Leading(w2, b2), b2)
  <2>1. Value(s, base, max) = IF n2 > max THEN max ELSE (IF neg2 THEN -n2 ELSE n2) % (max + 1)
    BY DEF Value, t
  <2>2. u2 = u
    BY <1>4
  <2>3. hex2 <=> hex
    BY <1>5, <2>2
  <2>4. b2 = b
    BY <1>7, <2>2, <2>3
  <2>5. w2 = w
    BY <2>2, <2>3
  <2> HIDE DEF b2, w2, b, w, neg, neg2
  <2>6. n2 = n
    BY <2>4, <2>5
  <2>7. neg2 <=> neg
    BY <1>3 DEF neg, neg2
  <2> HIDE DEF n, n2
  <2> QED BY <2>1, <2>6, <2>7
<1> HIDE DEF b, w
<1>11. z \in Seq(Nat) /\ \A i \in 1 .. Len(z) : Digit(z[i]) \in Nat /\ Digit(z[i]) < b
  <2>1. z \in Seq(Nat) /\ \A i \in 1 .. Len(z) : Digit(z[i]) < b
    BY <1>8, TakeType
  <2>2. \A i \in 1 .. Len(z) : z[i] \in Nat
    BY <2>1
  <2> QED BY <2>1, <2>2, DigitType
<1> HIDE DEF z
<1>12. Says(r, n, max)
  BY <1>7, <1>9, <1>11, FoldSays
<1> HIDE DEF n, r
<1>13. n \in Nat /\ r \in Accumulator(max) /\ (r.over = TRUE <=> n > max)
       /\ (r.over # TRUE => r.acc = n)
  BY <1>12 DEF Says
<1>14. strtoul(s, base, max) = Signed(r, neg, max)
  BY DEF strtoul, Strtoul, r, u, t
<1> HIDE DEF neg
<1>15. CASE n > max
  <2>1. Signed(r, neg, max) = max
    BY <1>13, <1>15 DEF Signed
  <2> QED BY <1>10, <1>14, <1>15, <2>1
<1>16. CASE ~(n > max)
  <2> DEFINE M == max + 1
  <2>1. r.acc = n /\ r.over = FALSE
    <3>1. r.over \in BOOLEAN /\ r.over # TRUE
      BY <1>13, <1>16 DEF Accumulator
    <3> QED BY <1>13, <3>1
  <2>2. n < M /\ M \in Nat \ {0} /\ n \in 0 .. max /\ M - 1 = max
    BY <1>13, <1>16
  <2>3. Value(s, base, max) = (IF neg THEN -n ELSE n) % M
    BY <1>10, <1>16
  <2>4. Signed(r, neg, max) = IF neg THEN (M - n) % M ELSE n
    <3>1. Signed(r, neg, max) = IF neg THEN (max + 1 - r.acc) % (max + 1) ELSE r.acc
      BY <2>1 DEF Signed
    <3>2. (max + 1 - r.acc) % (max + 1) = (M - n) % M
      BY <1>13, <2>1
    <3> HIDE DEF M
    <3> QED BY <2>1, <3>1, <3>2
  <2> HIDE DEF M
  <2>5. n % M = n /\ (M - n) % M = (-n) % M /\ (-n) % M \in 0 .. M - 1
    BY <1>13, <2>2, Negated
  <2> QED BY <1>14, <2>2, <2>3, <2>4, <2>5
<1> QED BY <1>15, <1>16

-----------------------------------------------------------------------------
(* The commands.                                                           *)

LEMMA Sizes ==
  /\ N \in Nat \ {0} /\ H \in Nat \ {0} /\ BYTE \in Nat \ {0} /\ ULONG_MAX \in Nat
  /\ MaxCalls \in Nat /\ NUL \in Char /\ Char \subseteq Nat
BY ShellAssumption

Bytes == [Addr -> 0 .. BYTE - 1]

\* What a command may leave of the line v and the memory.
CommandOK(L, q, v, c) == CutOf(L, q, v, c.m) /\ c.ram \in Bytes

LEMMA ResultOK ==
  ASSUME NEW L, NEW q, NEW v, NEW t, CutOf(L, q, v, t.m), NEW print, NEW r \in Bytes
  PROVE  CommandOK(L, q, v, Result(t, print, r))
BY DEF CommandOK, Result

LEMMA NumberType ==
  ASSUME NEW L, NEW v, String(L, v), NEW q, NEW t, TokenOK(L, q, v, t), t.tok # NULLPTR
  PROVE  Number(t) \in Nat
<1>1. StrAt(t.m, t.tok) \in Seq(Nat)
  BY TokenText
<1>2. ULONG_MAX \in Nat /\ 16 \in {0} \cup 2 .. 36
  BY ShellAssumption
<1>3. Number(t) \in 0 .. ULONG_MAX
  BY <1>1, <1>2, StrtoulIs DEF Number
<1> QED BY <1>2, <1>3

LEMMA PokeOK ==
  ASSUME NEW L, NEW v, String(L, v), NEW q \in Nat, NEW t, TokenOK(L, q, v, t), NEW r \in Bytes
  PROVE  CommandOK(L, q, v, poke(t, r))
<1> DEFINE a == NextToken(t)
           val == Number(a)
           x == Number(t)
           mem == [y \in Addr |-> IF y = x THEN val % BYTE ELSE r[y]]
<1>1. TokenOK(L, q, v, a) /\ CutOf(L, q, v, t.m)
  BY NextOK DEF TokenOK
<1>2. CutOf(L, q, v, a.m)
  BY <1>1 DEF TokenOK
<1>3. CASE t.tok = NULLPTR
  BY <1>1, <1>3, ResultOK DEF poke
<1>4. CASE t.tok # NULLPTR /\ a.tok = NULLPTR
  <2>1. poke(t, r) = Result(a, Printf("usage poke", <<>>), r)
    BY <1>4 DEF poke, poke_value
  <2> HIDE DEF a
  <2> QED BY <1>2, <2>1, ResultOK
<1>5. CASE t.tok # NULLPTR /\ a.tok # NULLPTR
  <2>1. poke(t, r) = Result(a, Printf("poke", <<x, val>>), mem)
    BY <1>5 DEF poke, poke_value
  <2>2. val \in Nat
    BY <1>1, <1>5, NumberType
  <2> HIDE DEF a, val, x
  <2>3. BYTE \in Nat \ {0}
    BY ShellAssumption
  <2>4. val % BYTE \in 0 .. BYTE - 1
    BY <2>2, <2>3
  <2>5. mem \in Bytes
    BY <2>4 DEF Bytes
  <2> HIDE DEF mem
  <2> QED BY <1>2, <2>1, <2>5, ResultOK
<1> QED BY <1>3, <1>4, <1>5

LEMMA CommandCuts ==
  ASSUME NEW L, NEW v, String(L, v), NEW r \in Bytes, NEW e
  PROVE  CommandOK(L, WordEnd(v), v, Command(v, r, e))
<1> DEFINE q == WordEnd(v)
           w == strtok(v, 0, 0, {SPACE})
           a == NextToken(w)
<1>1. q \in Nat /\ TokenOK(L, q, v, w)
  BY FirstToken
<1> HIDE DEF q, w
<1>2. TokenOK(L, q, v, a)
  BY <1>1, NextOK
<1>3. CutOf(L, q, v, w.m)
  BY <1>1 DEF TokenOK
<1> HIDE DEF a
<1>4. CutOf(L, q, v, a.m)
  BY <1>2 DEF TokenOK
<1>5. \A print : /\ CommandOK(L, q, v, Result(w, print, r))
                 /\ CommandOK(L, q, v, Result(a, print, r))
  BY <1>3, <1>4, ResultOK
<1>6. CommandOK(L, q, v, peek(a, r, e))
  BY <1>5 DEF peek
<1>7. CommandOK(L, q, v, poke(a, r))
  BY <1>1, <1>2, PokeOK
<1> DEFINE word == IF w.tok = NULLPTR THEN e.null ELSE StrAt(w.m, w.tok)
<1>8. Dispatch(w, r, e) \in {peek(a, r, e), poke(a, r), Result(w, Printf("unknown", word), r)}
  BY DEF Dispatch, a
<1> QED BY <1>5, <1>6, <1>7, <1>8 DEF Command, w, q

-----------------------------------------------------------------------------
(* The first word of a line, and what is left of a line that strtok cut.   *)

\* The facts about the first word of a string.
LEMMA WordIs ==
  ASSUME NEW L, NEW v, String(L, v)
  PROVE  \E k \in Nat :
           /\ WordEnd(v) \in Nat /\ k <= WordEnd(v) /\ WordEnd(v) <= L
           /\ v[k] = NUL \/ v[k] # SPACE
           /\ v[WordEnd(v)] = NUL \/ v[WordEnd(v)] = SPACE
           /\ \A j \in Nat : j < k => v[j] = SPACE
           /\ \A j \in Nat : k <= j /\ j < WordEnd(v) => v[j] # SPACE
           /\ \A j \in Nat : j < WordEnd(v) => v[j] # NUL
<1> DEFINE k == Skip(v, 0, {SPACE})
           q == WordEnd(v)
<1>1. L \in Nat /\ 0 \in 0 .. L
  BY DEF String
<1>2. /\ k \in Nat /\ k <= L
      /\ v[k] = NUL \/ v[k] \notin {SPACE}
      /\ \A j \in Nat : 0 <= j /\ j < k => v[j] # NUL /\ v[j] \in {SPACE}
  BY <1>1, SkipEnds
<1>3. k \in 0 .. L
  BY <1>1, <1>2
<1>4. /\ q \in Nat /\ k <= q /\ q <= L
      /\ v[q] = NUL \/ v[q] \in {SPACE}
      /\ \A j \in Nat : k <= j /\ j < q => v[j] # NUL /\ v[j] \notin {SPACE}
  BY <1>3, TokenEnds DEF WordEnd
<1> HIDE DEF k, q
<1>5. \A j \in Nat : j < q => v[j] # NUL
  <2> TAKE j \in Nat
  <2>1. j < k \/ k <= j
    BY <1>2
  <2> QED BY <1>2, <1>4, <2>1
<1> QED BY <1>2, <1>4, <1>5 DEF q

Blanks(l) == FirstNot(l, LAMBDA c : c = SPACE)
Solids(l) == TakeWhile(l, LAMBDA c : c # SPACE)

LEMMA BlanksIs ==
  ASSUME NEW l \in Seq(Nat), NEW k \in 1 .. Len(l) + 1,
         \A j \in 1 .. Len(l) : j < k => l[j] = SPACE, k # Len(l) + 1 => l[k] # SPACE
  PROVE  Blanks(l) = k
<1> DEFINE n == Len(l)
           I == {i \in 1 .. n : ~(l[i] = SPACE)}
<1>1. n \in Nat /\ k \in 1 .. n + 1
  OBVIOUS
<1>2. FirstOf(n, I) = k
  <2>1. /\ I \in SUBSET (1 .. n) /\ (k # n + 1 => k \in I)
        /\ \A j \in 1 .. n : j < k => j \notin I
    BY <1>1
  <2> HIDE DEF n, I
  <2> QED BY <1>1, <2>1, FirstOfIs
<1>3. I # {} => Min(I) # 0
  <2>1. I \in SUBSET (1 .. n)
    OBVIOUS
  <2> HIDE DEF I, n
  <2> QED BY <1>1, <2>1, FirstOfType
<1>4. SelectInSeq(l, LAMBDA c : ~(c = SPACE)) = IF I # {} THEN Min(I) ELSE 0
  BY DEF SelectInSeq
<1>5. Blanks(l) = FirstOf(n, I)
  <2>1. CASE I = {}
    BY <1>4, <2>1 DEF Blanks, FirstNot, FirstOf
  <2>2. CASE I # {}
    BY <1>3, <1>4, <2>2 DEF Blanks, FirstNot, FirstOf
  <2> QED BY <2>1, <2>2
<1> QED BY <1>2, <1>5

LEMMA SolidsIs ==
  ASSUME NEW l \in Seq(Nat), NEW k \in 1 .. Len(l) + 1,
         \A j \in 1 .. Len(l) : j < k => l[j] # SPACE, k # Len(l) + 1 => l[k] = SPACE
  PROVE  Solids(l) = SubSeq(l, 1, k - 1)
<1> DEFINE n == Len(l)
           I == {i \in 1 .. n : ~(l[i] # SPACE)}
<1>1. n \in Nat /\ k \in 1 .. n + 1
  OBVIOUS
<1>2. FirstOf(n, I) = k
  <2>1. /\ I \in SUBSET (1 .. n) /\ (k # n + 1 => k \in I)
        /\ \A j \in 1 .. n : j < k => j \notin I
    BY <1>1
  <2> HIDE DEF n, I
  <2> QED BY <1>1, <2>1, FirstOfIs
<1>3. I # {} => Min(I) # 0
  <2>1. I \in SUBSET (1 .. n)
    OBVIOUS
  <2> HIDE DEF I, n
  <2> QED BY <1>1, <2>1, FirstOfType
<1>4. SelectInSeq(l, LAMBDA c : ~(c # SPACE)) = IF I # {} THEN Min(I) ELSE 0
  BY DEF SelectInSeq
<1>5. FirstNot(l, LAMBDA c : c # SPACE) = FirstOf(n, I)
  <2>1. CASE I = {}
    BY <1>4, <2>1 DEF FirstNot, FirstOf
  <2>2. CASE I # {}
    BY <1>3, <1>4, <2>2 DEF FirstNot, FirstOf
  <2> QED BY <2>1, <2>2
<1> QED BY <1>2, <1>5 DEF Solids, TakeWhile

\* The first word of l ends at w.
LEMMA FirstWordIs ==
  ASSUME NEW l \in Seq(Nat), NEW k \in Nat, NEW w \in Nat, k <= w, w <= Len(l),
         \A j \in 1 .. Len(l) : j <= k => l[j] = SPACE,
         \A j \in 1 .. Len(l) : k < j /\ j <= w => l[j] # SPACE,
         k # Len(l) => l[k + 1] # SPACE,
         w # Len(l) => l[w + 1] = SPACE
  PROVE  /\ FirstWord(l) \in Seq(Nat) /\ Len(FirstWord(l)) = w
         /\ \A j \in 1 .. w : FirstWord(l)[j] = l[j]
<1> DEFINE n == Len(l)
           s == SubSeq(l, k + 1, n)
           a == SubSeq(l, 1, k)
           b == SubSeq(s, 1, w - k)
<1>1. n \in Nat
  OBVIOUS
<1>2. Blanks(l) = k + 1
  <2>1. k + 1 \in 1 .. Len(l) + 1
    BY <1>1
  <2>2. \A j \in 1 .. Len(l) : j < k + 1 => l[j] = SPACE
    BY <1>1
  <2> QED BY <2>1, <2>2, BlanksIs
<1>3. /\ s \in Seq(Nat) /\ Len(s) = n - k
      /\ \A j \in 1 .. n - k : s[j] = l[k + j]
  BY <1>1
<1>4. Solids(s) = b
  <2> DEFINE x == w - k + 1
  <2>1. x \in 1 .. Len(s) + 1 /\ x - 1 = w - k
    BY <1>1, <1>3
  <2>2. \A j \in 1 .. Len(s) : j < x => s[j] # SPACE
    <3> TAKE j \in 1 .. Len(s)
    <3> HAVE j < x
    <3>1. k + j \in 1 .. Len(l) /\ k < k + j /\ k + j <= w /\ s[j] = l[k + j]
      BY <1>1, <1>3
    <3> QED BY <3>1
  <2>3. x # Len(s) + 1 => s[x] = SPACE
    <3> HAVE x # Len(s) + 1
    <3>1. x # n - k + 1 /\ w # n /\ x \in 1 .. n - k /\ k + x = w + 1
      BY <1>1, <1>3
    <3>2. s[x] = l[k + x]
      BY <1>3, <3>1
    <3> QED BY <3>1, <3>2
  <2> HIDE DEF x, s
  <2>4. Solids(s) = SubSeq(s, 1, x - 1)
    BY <1>3, <2>1, <2>2, <2>3, SolidsIs
  <2> QED BY <2>1, <2>4
<1>5. FirstWord(l) = a \o b
  <2>1. FirstWord(l) = SubSeq(l, 1, Blanks(l) - 1) \o Solids(SubSeq(l, Blanks(l), Len(l)))
    BY DEF FirstWord, Blanks, Solids
  <2>2. k + 1 - 1 = k
    OBVIOUS
  <2>3. FirstWord(l) = SubSeq(l, 1, k + 1 - 1) \o Solids(s)
    BY <1>2, <2>1
  <2> HIDE DEF b, s
  <2> QED BY <1>4, <2>2, <2>3
<1>6. a \in Seq(Nat) /\ Len(a) = k /\ \A j \in 1 .. k : a[j] = l[j]
  BY <1>1
<1> HIDE DEF s, a
<1>7. b \in Seq(Nat) /\ Len(b) = w - k /\ \A j \in 1 .. w - k : b[j] = s[j]
  <2> DEFINE d == w - k
  <2>1. d \in Nat /\ d <= Len(s)
    BY <1>1, <1>3
  <2> HIDE DEF d
  <2>2. /\ SubSeq(s, 1, d) \in Seq(Nat) /\ Len(SubSeq(s, 1, d)) = d
        /\ \A j \in 1 .. d : SubSeq(s, 1, d)[j] = s[j]
    BY <1>3, <2>1, FrontIs
  <2> QED BY <2>2 DEF d
<1> HIDE DEF b
<1>8. \A j \in 1 .. w - k : b[j] = l[k + j]
  <2> TAKE j \in 1 .. w - k
  <2>1. j \in 1 .. n - k
    BY <1>1
  <2> QED BY <1>3, <1>7, <2>1
<1>9. a \o b \in Seq(Nat) /\ Len(a \o b) = w
  <2>1. a \o b \in Seq(Nat) /\ Len(a \o b) = Len(a) + Len(b)
    BY <1>6, <1>7, JoinLength
  <2>2. k + (w - k) = w
    OBVIOUS
  <2> QED BY <1>6, <1>7, <2>1, <2>2
<1>10. ASSUME NEW j \in 1 .. w PROVE (a \o b)[j] = l[j]
  <2>1. CASE j <= k
    <3>1. j \in 1 .. Len(a) + Len(b) /\ j \in 1 .. k /\ Len(a) = k
      BY <1>6, <1>7, <2>1
    <3>2. (a \o b)[j] = IF j <= Len(a) THEN a[j] ELSE b[j - Len(a)]
      BY <1>6, <1>7, <3>1, JoinIs
    <3> QED BY <1>6, <2>1, <3>1, <3>2
  <2>2. CASE k < j
    <3>1. j - k \in 1 .. w - k /\ k + (j - k) = j
      BY <2>2
    <3>2. j \in 1 .. Len(a) + Len(b) /\ ~(j <= Len(a)) /\ Len(a) = k
      BY <1>6, <1>7, <2>2
    <3>3. (a \o b)[j] = b[j - k]
      <4>1. (a \o b)[j] = IF j <= Len(a) THEN a[j] ELSE b[j - Len(a)]
        BY <1>6, <1>7, <3>2, JoinIs
      <4> QED BY <3>2, <4>1
    <3> QED BY <1>8, <3>1, <3>3
  <2>3. j <= k \/ k < j
    OBVIOUS
  <2> QED BY <2>1, <2>2, <2>3
<1> QED BY <1>5, <1>9, <1>10

LEMMA PrefixIs ==
  ASSUME NEW s \in Seq(Nat), NEW t \in Seq(Nat), Len(s) <= Len(t),
         \A j \in 1 .. Len(s) : s[j] = t[j]
  PROVE  IsPrefix(s, t)
<1>1. SubSeq(s, 1, Len(s)) = SubSeq(t, 1, Len(s))
  <2>1. SubSeq(s, 1, Len(s)) = [j \in 1 .. Len(s) |-> s[j]]
    OBVIOUS
  <2>2. SubSeq(t, 1, Len(s)) = [j \in 1 .. Len(s) |-> t[j]]
    OBVIOUS
  <2> QED BY <2>1, <2>2
<1> QED BY <1>1 DEF IsPrefix

\* A row recalls the line l at least to the end of its first word.
Recalls(l, row) ==
  IsPrefix(FirstWord(l), Text(row, <<>>)) /\ IsPrefix(Text(row, <<>>), l)

LEMMA ViewString ==
  ASSUME NEW buf \in Buffer, NEW past \in Seq(Char \ {NUL})
  PROVE  /\ String(N + Len(past), View(buf, past))
         /\ \A i \in Idx : i \in 0 .. N + Len(past) /\ View(buf, past)[i] = buf[i]
<1>1. Len(past) \in Nat /\ N \in Nat
  BY ShellAssumption
<1>2. View(buf, past) \in [0 .. N + Len(past) -> Char]
  BY ShellAssumption DEF View, Buffer, Idx
<1>3. N + Len(past) \in 0 .. N + Len(past) /\ ~(N + Len(past) < N)
  BY <1>1
<1>4. View(buf, past)[N + Len(past)] = NUL
  BY <1>3 DEF View
<1>5. \A i \in Idx : i \in 0 .. N + Len(past) /\ View(buf, past)[i] = buf[i]
  BY <1>1 DEF View, Idx
<1> QED BY <1>1, <1>2, <1>4, <1>5 DEF String

\* The string at the start of a memory.
LEMMA LineIs ==
  ASSUME NEW L, NEW m, String(L, m)
  PROVE  /\ StrAt(m, 0) \in Seq(Nat) /\ Len(StrAt(m, 0)) = strlen(m, 0)
         /\ strlen(m, 0) \in Nat /\ strlen(m, 0) <= L /\ m[strlen(m, 0)] = NUL
         /\ \A j \in Nat : j < strlen(m, 0) => m[j] # NUL
         /\ \A j \in 1 .. strlen(m, 0) : StrAt(m, 0)[j] = m[j - 1]
<1> DEFINE n == strlen(m, 0)
<1>1. L \in Nat /\ 0 \in 0 .. L
  BY DEF String
<1>2. /\ n \in Nat /\ 0 + n <= L /\ m[0 + n] = NUL
      /\ \A j \in Nat : 0 <= j /\ j < 0 + n => m[j] # NUL
  BY <1>1, NulEnds
<1> HIDE DEF n
<1>3. n \in Nat /\ n <= L /\ m[n] = NUL /\ \A j \in Nat : j < n => m[j] # NUL
  BY <1>2
<1>4. \A k \in 1 .. n : 0 + k - 1 \in 0 .. L /\ 0 + k - 1 = k - 1
  BY <1>1, <1>3
<1>5. \A k \in 1 .. n : m[0 + k - 1] \in Nat
  BY <1>4, ShellAssumption DEF String
<1> DEFINE t == [k \in 1 .. n |-> m[0 + k - 1]]
<1>6. t \in Seq(Nat) /\ Len(t) = n
  BY <1>3, <1>5
<1>7. \A j \in 1 .. n : t[j] = m[j - 1]
  BY <1>4
<1>8. StrAt(m, 0) = t
  BY DEF StrAt, n
<1> HIDE DEF t
<1> QED BY <1>3, <1>6, <1>7, <1>8 DEF n

\* The first word of the line at the start of a memory ends at WordEnd.
LEMMA LineWord ==
  ASSUME NEW L, NEW v, String(L, v)
  PROVE  /\ FirstWord(StrAt(v, 0)) \in Seq(Nat)
         /\ Len(FirstWord(StrAt(v, 0))) = WordEnd(v)
         /\ WordEnd(v) \in Nat /\ WordEnd(v) <= strlen(v, 0)
         /\ \A j \in 1 .. WordEnd(v) : FirstWord(StrAt(v, 0))[j] = v[j - 1]
<1> DEFINE l == StrAt(v, 0)
           n == strlen(v, 0)
           w == WordEnd(v)
<1>1. /\ l \in Seq(Nat) /\ Len(l) = n /\ n \in Nat /\ n <= L /\ v[n] = NUL
      /\ \A j \in Nat : j < n => v[j] # NUL
      /\ \A j \in 1 .. n : l[j] = v[j - 1]
  BY LineIs
<1>2. PICK k \in Nat :
        /\ w \in Nat /\ k <= w /\ w <= L
        /\ v[k] = NUL \/ v[k] # SPACE
        /\ v[w] = NUL \/ v[w] = SPACE
        /\ \A j \in Nat : j < k => v[j] = SPACE
        /\ \A j \in Nat : k <= j /\ j < w => v[j] # SPACE
        /\ \A j \in Nat : j < w => v[j] # NUL
  BY WordIs
<1> HIDE DEF l, n, w
<1>3. w <= n /\ k <= n
  BY <1>1, <1>2
<1>4. \A j \in 1 .. Len(l) : j - 1 \in Nat /\ l[j] = v[j - 1]
  BY <1>1
<1>5. \A j \in 1 .. Len(l) : j <= k => l[j] = SPACE
  <2> TAKE j \in 1 .. Len(l)
  <2> HAVE j <= k
  <2>1. j - 1 < k
    BY <1>2
  <2> QED BY <1>2, <1>4, <2>1
<1>6. \A j \in 1 .. Len(l) : k < j /\ j <= w => l[j] # SPACE
  <2> TAKE j \in 1 .. Len(l)
  <2> HAVE k < j /\ j <= w
  <2>1. k <= j - 1 /\ j - 1 < w
    BY <1>1, <1>2
  <2> QED BY <1>2, <1>4, <2>1
<1>7. k # Len(l) => l[k + 1] # SPACE
  <2> HAVE k # Len(l)
  <2>1. k + 1 \in 1 .. Len(l) /\ (k + 1) - 1 = k /\ k < n
    BY <1>1, <1>3
  <2>2. l[k + 1] = v[k] /\ v[k] # NUL
    BY <1>1, <1>4, <2>1
  <2> QED BY <1>2, <2>2
<1>8. w # Len(l) => l[w + 1] = SPACE
  <2> HAVE w # Len(l)
  <2>1. w + 1 \in 1 .. Len(l) /\ (w + 1) - 1 = w /\ w < n /\ w \in Nat
    BY <1>1, <1>2, <1>3
  <2>2. l[w + 1] = v[w] /\ v[w] # NUL
    BY <1>1, <1>4, <2>1
  <2> QED BY <1>2, <2>2
<1>9. w \in Nat /\ k <= w /\ w <= Len(l)
  BY <1>1, <1>2, <1>3
<1>10. /\ FirstWord(l) \in Seq(Nat) /\ Len(FirstWord(l)) = w
       /\ \A j \in 1 .. w : FirstWord(l)[j] = l[j]
  BY <1>1, <1>5, <1>6, <1>7, <1>8, <1>9, FirstWordIs
<1>11. \A j \in 1 .. w : FirstWord(l)[j] = v[j - 1]
  <2> TAKE j \in 1 .. w
  <2>1. j \in 1 .. Len(l)
    BY <1>9
  <2> QED BY <1>4, <1>10, <2>1
<1> QED BY <1>1, <1>3, <1>9, <1>10, <1>11 DEF l, n, w

\* What strtok leaves of a line that ends in its buffer recalls the line.
LEMMA CutRecalls ==
  ASSUME NEW buf \in Buffer, buf[N - 1] = NUL, NEW past \in Seq(Char \ {NUL}), NEW m,
         CutOf(N + Len(past), WordEnd(View(buf, past)), View(buf, past), m),
         NEW row \in Buffer, \A i \in Idx : row[i] = m[i]
  PROVE  Recalls(Text(buf, past), row)
<1> DEFINE L == N + Len(past)
           v == View(buf, past)
           x == View(row, <<>>)
           n == strlen(v, 0)
           y == strlen(x, 0)
           w == WordEnd(v)
           l == Text(buf, past)
           t == Text(row, <<>>)
           f == FirstWord(l)
<1>1. N \in Nat \ {0} /\ N - 1 \in Idx /\ Idx = 0 .. N - 1
  BY ShellAssumption DEF Idx
<1>2. String(L, v) /\ \A i \in Idx : i \in 0 .. L /\ v[i] = buf[i]
  BY ViewString
<1>3. /\ l \in Seq(Nat) /\ Len(l) = n /\ n \in Nat /\ n <= L /\ v[n] = NUL
      /\ \A j \in Nat : j < n => v[j] # NUL
      /\ \A j \in 1 .. n : l[j] = v[j - 1]
  BY <1>2, LineIs DEF Text
<1>4. <<>> \in Seq(Char \ {NUL}) /\ Len(<<>>) = 0 /\ N + 0 = N
  BY <1>1
<1>5. String(N + 0, x) /\ \A i \in Idx : x[i] = row[i]
  BY <1>4, ViewString
<1>6. /\ t \in Seq(Nat) /\ Len(t) = y /\ y \in Nat /\ x[y] = NUL
      /\ \A j \in Nat : j < y => x[j] # NUL
      /\ \A j \in 1 .. y : t[j] = x[j - 1]
  BY <1>5, LineIs DEF Text
<1>7. /\ f \in Seq(Nat) /\ Len(f) = w /\ w \in Nat /\ w <= n
      /\ \A j \in 1 .. w : f[j] = v[j - 1]
  BY <1>2, LineWord DEF Text
<1>8. \A i \in Idx : /\ v[i] = buf[i] /\ x[i] = m[i]
                     /\ m[i] \in {v[i], NUL} /\ (i < w => m[i] = v[i])
  BY <1>2, <1>5 DEF CutOf
<1> HIDE DEF L, v, x, n, y, w, l, t, f
<1>9. n \in Idx /\ n <= N - 1
  <2>1. v[N - 1] = NUL
    BY <1>1, <1>8
  <2>2. ~(N - 1 < n) /\ N - 1 \in Nat
    BY <1>1, <1>3, <2>1
  <2> QED BY <1>1, <1>3, <2>2
<1>10. y <= n
  <2>1. x[n] = NUL
    BY <1>3, <1>8, <1>9
  <2> QED BY <1>3, <1>6, <2>1
<1>11. y \in Idx
  BY <1>1, <1>6, <1>9, <1>10
<1>12. w <= y
  <2>1. v[y] = NUL => ~(y < n)
    BY <1>3, <1>6
  <2>2. y < w => v[y] = NUL
    BY <1>6, <1>8, <1>11
  <2>3. y < w => y < n
    BY <1>3, <1>6, <1>7
  <2> QED BY <1>6, <1>7, <2>1, <2>2, <2>3
<1>13. \A j \in 1 .. y : t[j] = l[j]
  <2> TAKE j \in 1 .. y
  <2>1. j - 1 \in Nat /\ j - 1 < y /\ j - 1 \in Idx /\ j \in 1 .. n
    BY <1>1, <1>3, <1>6, <1>10, <1>11
  <2>2. x[j - 1] # NUL /\ x[j - 1] = v[j - 1]
    BY <1>6, <1>8, <2>1
  <2> QED BY <1>3, <1>6, <2>1, <2>2
<1>14. \A j \in 1 .. w : f[j] = t[j]
  <2> TAKE j \in 1 .. w
  <2>1. j - 1 < w /\ j - 1 \in Idx /\ j \in 1 .. y
    BY <1>1, <1>6, <1>7, <1>11, <1>12
  <2>2. x[j - 1] = v[j - 1]
    BY <1>8, <2>1
  <2> QED BY <1>6, <1>7, <2>1, <2>2
<1>15. IsPrefix(f, t)
  BY <1>6, <1>7, <1>12, <1>14, PrefixIs
<1>16. IsPrefix(t, l)
  BY <1>3, <1>6, <1>10, <1>13, PrefixIs
<1> QED BY <1>15, <1>16 DEF Recalls, f, t, l

LEMMA BlankRecalls == Recalls(<<>>, Blank)
<1> DEFINE x == View(Blank, <<>>)
           t == Text(Blank, <<>>)
           e == <<>>
<1>1. Blank \in Buffer /\ 0 \in Idx /\ Blank[0] = NUL /\ N \in Nat
  BY ShellAssumption DEF Blank, Buffer, Idx
<1>2. <<>> \in Seq(Char \ {NUL}) /\ e \in Seq(Nat) /\ Len(e) = 0 /\ 1 .. 0 = {}
  OBVIOUS
<1>3. String(N + Len(e), x) /\ x[0] = NUL
  BY <1>1, <1>2, ViewString
<1>4. /\ t \in Seq(Nat) /\ Len(t) = strlen(x, 0) /\ strlen(x, 0) \in Nat
      /\ \A j \in Nat : j < strlen(x, 0) => x[j] # NUL
  BY <1>3, LineIs DEF Text
<1>5. Len(t) = 0
  BY <1>3, <1>4
<1> HIDE DEF t, e
<1>6. FirstWord(e) \in Seq(Nat) /\ Len(FirstWord(e)) = 0
  <2>1. \A j \in 1 .. Len(e) : FALSE
    BY <1>2
  <2> DEFINE z == 0
  <2>2. /\ z \in Nat /\ z <= z /\ z <= Len(e) /\ z = Len(e)
        /\ \A j \in 1 .. Len(e) : j <= z => e[j] = SPACE
        /\ \A j \in 1 .. Len(e) : z < j /\ j <= z => e[j] # SPACE
    BY <1>2, <2>1
  <2> HIDE DEF z
  <2>3. FirstWord(e) \in Seq(Nat) /\ Len(FirstWord(e)) = z
    BY <1>2, <2>2, FirstWordIs
  <2> QED BY <2>3 DEF z
<1>7. IsPrefix(FirstWord(e), t)
  BY <1>2, <1>4, <1>5, <1>6, PrefixIs
<1>8. IsPrefix(t, e)
  <2>1. Len(t) <= Len(e) /\ \A j \in 1 .. Len(t) : t[j] = e[j]
    BY <1>2, <1>5
  <2> QED BY <1>2, <1>4, <2>1, PrefixIs
<1> QED BY <1>7, <1>8 DEF Recalls, t, e

-----------------------------------------------------------------------------
(* The branches of kcallback keep the statics well formed, and keep Clear  *)
(* unless the call overruns.                                               *)

Clear(s) ==
  /\ TailClear(s.buf, s.ptr)
  /\ \A j \in Slot : TailClear(s.hist[j], s.hptr[j])

LEMMA ProcOK ==
  ASSUME NEW s \in Statics, NEW r \in Bytes, NEW e \in Env
  PROVE  /\ shell_proc(s, r, e).sh \in Statics /\ shell_proc(s, r, e).ram \in Bytes
         /\ Clear(s) => Clear(shell_proc(s, r, e).sh)
         /\ Clear(s) => Recalls(Text(s.buf, e.past), shell_proc(s, r, e).sh.hist[s.h])
         /\ \A j \in Slot : j # s.h => shell_proc(s, r, e).sh.hist[j] = s.hist[j]
<1> DEFINE L == N + Len(e.past)
           v == View(s.buf, e.past)
           c == Command(v, r, e)
           line == [i \in Idx |-> c.m[i]]
           t == [buf |-> Blank, ptr |-> 0, hist |-> [s.hist EXCEPT ![s.h] = line],
                 hptr |-> [s.hptr EXCEPT ![s.h] = s.ptr], h |-> Inc(s.h, H)]
<1>1. shell_proc(s, r, e).sh = t /\ shell_proc(s, r, e).ram = c.ram
  BY DEF shell_proc, Finish
<1>2. s.buf \in Buffer /\ s.ptr \in Idx /\ s.hist \in [Slot -> Buffer]
      /\ s.hptr \in [Slot -> Idx] /\ s.h \in Slot
  BY DEF Statics
<1>3. e.past \in Seq(Char \ {NUL})
  BY ShellAssumption
<1>4. String(L, v) /\ \A i \in Idx : i \in 0 .. L /\ v[i] = s.buf[i]
  BY <1>2, <1>3, ViewString
<1>5. CutOf(L, WordEnd(v), v, c.m) /\ c.ram \in Bytes
  BY <1>4, CommandCuts DEF CommandOK
<1> HIDE DEF c
<1>6. line \in Buffer /\ \A i \in Idx : line[i] = c.m[i] /\ line[i] \in {s.buf[i], NUL}
  <2>1. \A i \in Idx : line[i] = c.m[i] /\ line[i] \in {s.buf[i], NUL}
    <3> HIDE DEF L, v
    <3> QED BY <1>4, <1>5 DEF CutOf
  <2>2. \A i \in Idx : line[i] \in Char
    BY <1>2, <2>1, Sizes DEF Buffer
  <2> HIDE DEF L, v
  <2> QED BY <2>1, <2>2 DEF Buffer
<1> HIDE DEF line
<1>7. Blank \in Buffer /\ 0 \in Idx /\ Inc(s.h, H) \in Slot
  <2>1. Blank \in Buffer /\ 0 \in Idx
    BY Sizes DEF Blank, Buffer, Idx
  <2>2. Inc(s.h, H) \in Slot
    BY <1>2, Sizes DEF Slot, Inc
  <2> QED BY <2>1, <2>2
<1>8. t \in Statics
  BY <1>2, <1>6, <1>7 DEF Statics
<1>9. t.hist[s.h] = line /\ \A j \in Slot : j # s.h => t.hist[j] = s.hist[j]
  BY <1>2
<1>10. ASSUME Clear(s) PROVE Clear(t)
  <2>1. TailClear(t.buf, t.ptr)
    BY DEF TailClear, Blank
  <2>2. TailClear(line, s.ptr)
    BY <1>6, <1>10 DEF TailClear, Clear
  <2>3. ASSUME NEW j \in Slot PROVE TailClear(t.hist[j], t.hptr[j])
    <3>1. CASE j = s.h
      <4>1. t.hist[j] = line /\ t.hptr[j] = s.ptr
        BY <1>2, <3>1
      <4> QED BY <4>1, <2>2
    <3>2. CASE j # s.h
      <4>1. t.hist[j] = s.hist[j] /\ t.hptr[j] = s.hptr[j]
        BY <1>2, <3>2
      <4> QED BY <4>1, <1>10 DEF Clear
    <3> QED BY <3>1, <3>2
  <2> QED BY <2>1, <2>3 DEF Clear
<1>11. ASSUME Clear(s) PROVE Recalls(Text(s.buf, e.past), line)
  <2>1. N - 1 \in Idx /\ N - 1 >= s.ptr
    BY <1>2, ShellAssumption DEF Idx
  <2>2. s.buf[N - 1] = NUL
    BY <1>11, <2>1 DEF Clear, TailClear
  <2> QED BY <1>2, <1>3, <1>5, <1>6, <2>2, CutRecalls
<1> HIDE DEF t
<1> QED BY <1>1, <1>5, <1>8, <1>9, <1>10, <1>11

LEMMA EditOK ==
  ASSUME NEW s \in Statics, NEW buf \in Buffer, NEW p \in Idx, NEW h \in Slot
  PROVE  /\ Edit(s, buf, p, h) \in Statics /\ Edit(s, buf, p, h).hist = s.hist
         /\ Clear(s) /\ TailClear(buf, p) => Clear(Edit(s, buf, p, h))
<1> DEFINE t == Edit(s, buf, p, h)
<1>1. t \in Statics
  BY DEF Edit, Statics
<1>2. t.buf = buf /\ t.ptr = p /\ t.hist = s.hist /\ t.hptr = s.hptr
  BY DEF Edit, Statics
<1> QED BY <1>1, <1>2 DEF Clear

LEMMA EraseOK ==
  ASSUME NEW s \in Statics
  PROVE  erase(s) \in Statics /\ erase(s).hist = s.hist /\ (Clear(s) => Clear(erase(s)))
<1> DEFINE p == IF s.ptr > 0 THEN s.ptr - 1 ELSE s.ptr
           buf == [s.buf EXCEPT ![p] = NUL]
<1>1. s.buf \in Buffer /\ s.ptr \in Idx /\ s.h \in Slot
  BY DEF Statics
<1>2. p \in Idx /\ (p = s.ptr - 1 \/ p = s.ptr) /\ erase(s) = Edit(s, buf, p, s.h)
  BY <1>1, ShellAssumption DEF erase, Idx
<1> HIDE DEF p
<1>3. buf \in Buffer
  BY <1>1, <1>2, ShellAssumption DEF Buffer
<1>4. Clear(s) => TailClear(buf, p)
  BY <1>1, <1>2, ShellAssumption DEF Clear, TailClear, Buffer, Idx
<1> QED BY <1>1, <1>2, <1>3, <1>4, EditOK

LEMMA UpOK ==
  ASSUME NEW s \in Statics, NEW e \in Env
  PROVE  /\ up(s, e) \in Statics /\ up(s, e).hist = s.hist
         /\ Clear(s) /\ s.h # 0 => Clear(up(s, e))
<1> DEFINE g == Dec(s.h, H)
           buf == IF s.h > 0 THEN s.hist[s.h - 1] ELSE e.junk
<1>1. s.hist \in [Slot -> Buffer] /\ s.hptr \in [Slot -> Idx] /\ s.h \in Slot
  BY DEF Statics
<1>2. g \in Slot /\ (s.h # 0 => s.h > 0 /\ g = s.h - 1 /\ s.h - 1 \in Slot)
  BY <1>1, Sizes DEF Slot, Dec
<1>a. e.junk \in Buffer
  BY ShellAssumption
<1>3. buf \in Buffer
  BY <1>1, <1>a, Sizes DEF Slot
<1>4. up(s, e) = Edit(s, buf, s.hptr[g], g) /\ s.hptr[g] \in Idx
  BY <1>1, <1>2 DEF up
<1>5. Clear(s) /\ s.h # 0 => TailClear(buf, s.hptr[g])
  BY <1>2 DEF Clear
<1> HIDE DEF g, buf
<1> QED BY <1>2, <1>3, <1>4, <1>5, EditOK

LEMMA DownOK ==
  ASSUME NEW s \in Statics, NEW e \in Env
  PROVE  /\ down(s, e) \in Statics /\ down(s, e).hist = s.hist
         /\ Clear(s) /\ s.h # H - 1 => Clear(down(s, e))
<1> DEFINE g == Inc(s.h, H)
           buf == IF s.h < H - 1 THEN s.hist[s.h + 1] ELSE e.junk
<1>1. s.hist \in [Slot -> Buffer] /\ s.hptr \in [Slot -> Idx] /\ s.h \in Slot
  BY DEF Statics
<1>2. g \in Slot /\ (s.h # H - 1 => s.h < H - 1 /\ g = s.h + 1)
  BY <1>1, Sizes DEF Slot, Inc
<1>a. e.junk \in Buffer
  BY ShellAssumption
<1>3. buf \in Buffer
  BY <1>1, <1>a, Sizes DEF Slot
<1>4. down(s, e) = Edit(s, buf, s.hptr[g], g) /\ s.hptr[g] \in Idx
  BY <1>1, <1>2 DEF down
<1>5. Clear(s) /\ s.h # H - 1 => TailClear(buf, s.hptr[g])
  BY <1>2 DEF Clear
<1> HIDE DEF g, buf
<1> QED BY <1>2, <1>3, <1>4, <1>5, EditOK

LEMMA TypeCharOK ==
  ASSUME NEW s \in Statics, NEW c \in Char
  PROVE  /\ type(s, c) \in Statics /\ type(s, c).hist = s.hist
         /\ Clear(s) /\ s.ptr # N - 1 => Clear(type(s, c))
<1> DEFINE g == Inc(s.ptr, N)
           buf == [s.buf EXCEPT ![s.ptr] = c]
<1>1. s.buf \in Buffer /\ s.ptr \in Idx /\ s.h \in Slot
  BY DEF Statics
<1>2. g \in Idx /\ (s.ptr # N - 1 => g = s.ptr + 1)
  BY <1>1, ShellAssumption DEF Idx, Inc
<1>3. buf \in Buffer
  BY <1>1 DEF Buffer
<1>4. type(s, c) = Edit(s, buf, g, s.h)
  BY DEF type
<1> HIDE DEF g
<1>5. Clear(s) /\ s.ptr # N - 1 => TailClear(buf, g)
  BY <1>1, <1>2, ShellAssumption DEF Clear, TailClear, Buffer, Idx
<1> HIDE DEF buf
<1> QED BY <1>1, <1>2, <1>3, <1>4, <1>5, EditOK

-----------------------------------------------------------------------------

(* Blank rows recall nothing, and only Enter changes a row.                *)
Recalled(s, l) == \A j \in Slot : Recalls(l[j], s.hist[j])

IInv ==
  /\ TypeOK /\ DOMAIN entered = Slot
  /\ ~overrun => Clear(sh) /\ Recalled(sh, entered)

LEMMA InitInv == Init => IInv
<1> SUFFICES ASSUME Init PROVE IInv
  OBVIOUS
<1>1. Blank \in Buffer /\ 0 \in Idx /\ 0 \in Slot
  BY ShellAssumption DEF Blank, Buffer, Idx, Slot
<1>2. sh \in Statics
  BY <1>1 DEF Init, shell_statics, Statics
<1>3. Clear(sh)
  BY DEF Init, shell_statics, Clear, TailClear, Blank
<1>4. ram \in [Addr -> 0 .. BYTE - 1] /\ count \in 0 .. MaxCalls
  BY ShellAssumption DEF Init
<1>5. Recalled(sh, entered) /\ DOMAIN entered = Slot
  <2>1. \A j \in Slot : entered[j] = <<>> /\ sh.hist[j] = Blank
    BY DEF Init, shell_statics
  <2>2. DOMAIN entered = Slot
    BY DEF Init
  <2> QED BY <2>1, <2>2, BlankRecalls DEF Recalled
<1>6. overrun \in BOOLEAN
  BY DEF Init
<1> QED BY <1>2, <1>3, <1>4, <1>5, <1>6 DEF IInv, TypeOK, StaticsOK

\* A call that edits the line keeps the rows, the lines and the memory.
LEMMA EditInv ==
  ASSUME IInv, NEW c \in Char, c # LF, NEW st, NEW e \in Env
  PROVE  /\ edit(sh, c, st, e) \in Statics /\ edit(sh, c, st, e).hist = sh.hist
         /\ Clear(sh) /\ ~Overruns(sh, c, st) => Clear(edit(sh, c, st, e))
<1>1. sh \in Statics
  BY DEF IInv, TypeOK, StaticsOK
<1>2. CASE "BCKSP" \in st
  <2>1. edit(sh, c, st, e) = erase(sh)
    BY <1>2 DEF edit
  <2> QED BY <1>1, <2>1, EraseOK
<1>3. CASE "BCKSP" \notin st /\ "UP" \in st
  <2>1. edit(sh, c, st, e) = up(sh, e) /\ (~Overruns(sh, c, st) => sh.h # 0)
    BY <1>3 DEF edit, Overruns
  <2> QED BY <1>1, <2>1, UpOK
<1>4. CASE "BCKSP" \notin st /\ "UP" \notin st /\ "DOWN" \in st
  <2>1. edit(sh, c, st, e) = down(sh, e) /\ (~Overruns(sh, c, st) => sh.h # H - 1)
    BY <1>4 DEF edit, Overruns
  <2> QED BY <1>1, <2>1, DownOK
<1>5. CASE "BCKSP" \notin st /\ "UP" \notin st /\ "DOWN" \notin st
  <2>1. edit(sh, c, st, e) = type(sh, c) /\ (~Overruns(sh, c, st) => sh.ptr # N - 1)
    BY <1>5 DEF edit, Overruns
  <2> QED BY <1>1, <2>1, TypeCharOK
<1> QED BY <1>2, <1>3, <1>4, <1>5

LEMMA CallInv ==
  ASSUME IInv, NEW c \in Char \cup {LF}, NEW st, NEW e \in Env, Call(c, st, e)
  PROVE  IInv'
<1> DEFINE r == kcallback(sh, ram, c, st, e)
           over == Overruns(sh, c, st)
<1>1. /\ sh \in Statics /\ overrun \in BOOLEAN /\ ram \in Bytes /\ count \in 0 .. MaxCalls
      /\ DOMAIN entered = Slot /\ (~overrun => Clear(sh) /\ Recalled(sh, entered))
  BY DEF IInv, TypeOK, StaticsOK, Bytes
<1>2. /\ sh' = r.sh /\ ram' = r.ram /\ overrun' = (overrun \/ over)
      /\ entered' = IF c = LF THEN [entered EXCEPT ![sh.h] = Text(sh.buf, e.past)] ELSE entered
  BY DEF Call, Returns
<1>3. count' \in 0 .. MaxCalls
  BY <1>1, ShellAssumption DEF Call, Returns
<1>4. overrun' \in BOOLEAN /\ (~overrun' => ~overrun /\ ~over)
  BY <1>1, <1>2 DEF Overruns
<1> SUFFICES /\ r.sh \in Statics /\ r.ram \in Bytes /\ DOMAIN entered' = Slot
             /\ Clear(sh) /\ Recalled(sh, entered) /\ ~over
                  => Clear(r.sh) /\ Recalled(r.sh, entered')
  BY <1>1, <1>2, <1>3, <1>4 DEF IInv, TypeOK, StaticsOK, Bytes
<1>5. CASE c = LF
  <2> DEFINE p == shell_proc(sh, ram, e)
             l == Text(sh.buf, e.past)
  <2>1. r.sh = p.sh /\ r.ram = p.ram
    BY <1>5 DEF kcallback, enter, Framed, shell_proc, Finish
  <2>2. /\ p.sh \in Statics /\ p.ram \in Bytes
        /\ Clear(sh) => Clear(p.sh)
        /\ Clear(sh) => Recalls(l, p.sh.hist[sh.h])
        /\ \A j \in Slot : j # sh.h => p.sh.hist[j] = sh.hist[j]
    BY <1>1, ProcOK
  <2> HIDE DEF p, l, r
  <2>3. entered' = [entered EXCEPT ![sh.h] = l]
    BY <1>2, <1>5 DEF l
  <2>4. DOMAIN entered' = Slot
    BY <1>1, <2>3
  <2>5. ASSUME Clear(sh), Recalled(sh, entered), NEW j \in Slot
        PROVE  Recalls(entered'[j], p.sh.hist[j])
    <3>1. CASE j = sh.h
      <4>1. entered'[j] = l
        BY <1>1, <2>3, <3>1
      <4> QED BY <2>2, <2>5, <3>1, <4>1
    <3>2. CASE j # sh.h
      <4>1. entered'[j] = entered[j]
        BY <1>1, <2>3, <3>2
      <4> QED BY <2>2, <2>5, <3>2, <4>1 DEF Recalled
    <3> QED BY <3>1, <3>2
  <2> QED BY <2>1, <2>2, <2>4, <2>5 DEF Recalled
<1>6. CASE c # LF
  <2> DEFINE t == edit(sh, c, st, e)
  <2>1. r.sh = t /\ r.ram = ram /\ entered' = entered
    BY <1>2, <1>6 DEF kcallback, Echo
  <2>2. t \in Statics /\ t.hist = sh.hist /\ (Clear(sh) /\ ~over => Clear(t))
    BY <1>6, EditInv
  <2> HIDE DEF t, r, over
  <2>3. Recalled(sh, entered) => Recalled(t, entered)
    BY <2>2 DEF Recalled
  <2> QED BY <1>1, <2>1, <2>2, <2>3
<1> QED BY <1>5, <1>6

LEMMA StepInv == IInv /\ [Next]_vars => IInv'
<1> SUFFICES ASSUME IInv, [Next]_vars PROVE IInv'
  OBVIOUS
<1>1. CASE Next
  <2>1. PICK k \in Strokes, e \in Env : Call(k[1], k[2], e)
    BY <1>1 DEF Next, Enter, Erase, Up, Down, Type
  <2>2. k[1] \in Char \cup {LF}
    BY ShellAssumption
  <2> QED BY <2>1, <2>2, CallInv
<1>2. CASE UNCHANGED vars
  BY <1>2 DEF vars, IInv, TypeOK, StaticsOK, Clear, Recalled
<1> QED BY <1>1, <1>2

(* The statics of shell.c keep their types, shellptr and histptr their     *)
(* ranges, and poke stores bytes whatever number it has read, through      *)
(* every sequence of callbacks, overruns included.                         *)
THEOREM StaticsWellFormed == Spec => []TypeOK
<1>1. IInv => TypeOK
  BY DEF IInv
<1> QED BY InitInv, StepInv, <1>1, PTL DEF Spec

(* Lengths and contents of the line and of the history stay in step until  *)
(* an index leaves its array (shell.c:29-102), for every buffer size.      *)
THEOREM LengthsInStep == Spec => []BuffersMatchLengths
<1>1. IInv => BuffersMatchLengths
  BY DEF IInv, Clear, BuffersMatchLengths
<1> QED BY InitInv, StepInv, <1>1, PTL DEF Spec

(* Until then puts and strtok always find a terminator inside the buffer.  *)
THEOREM StringsEnd == Spec => []LinesTerminated
<1>1. IInv => LinesTerminated
  <2> SUFFICES ASSUME IInv, ~overrun PROVE
        /\ \E i \in Idx : sh.buf[i] = NUL
        /\ \A j \in Slot : \E i \in Idx : sh.hist[j][i] = NUL
    BY DEF LinesTerminated
  <2>1. N - 1 \in Idx /\ \A p \in Idx : N - 1 >= p
    BY ShellAssumption DEF Idx
  <2>2. sh.ptr \in Idx /\ \A j \in Slot : sh.hptr[j] \in Idx
    BY DEF IInv, TypeOK, StaticsOK, Statics
  <2>3. sh.buf[N - 1] = NUL /\ \A j \in Slot : sh.hist[j][N - 1] = NUL
    BY <2>1, <2>2 DEF IInv, Clear, TailClear
  <2> QED BY <2>1, <2>3
<1> QED BY InitInv, StepInv, <1>1, PTL DEF Spec

(* Until then every row of the history is a prefix of the line entered in  *)
(* its slot that holds at least its first word: strtok writes NULs into    *)
(* the line before it is copied (shell.c:30-46, 65), but never before the  *)
(* end of the first word, however many tokens the command goes on to read. *)
THEOREM RecallsEnteredLine == Spec => []HistoryRecallsLine
<1>1. IInv => HistoryRecallsLine
  BY DEF IInv, Recalled, Recalls, HistoryRecallsLine
<1> QED BY InitInv, StepInv, <1>1, PTL DEF Spec

-----------------------------------------------------------------------------
(* The tokens of a line: one call of strtok finds the next word.          *)

\* s is the string of length n at the start of the memory v.
Line(L, v, n, s) ==
  /\ String(L, v) /\ n \in 0 .. L /\ v[n] = NUL
  /\ s \in Seq(Nat) /\ Len(s) = n
  /\ \A j \in 1 .. n : s[j] = v[j - 1] /\ s[j] # NUL

(* What strtok leaves when it has read the words before o: the line, with  *)
(* NULs for some of the spaces that end a word, and a place between words. *)
Scanned(L, v, n, m, o) ==
  /\ m \in [0 .. L -> Nat] /\ o \in 0 .. n
  /\ \A i \in 0 .. L :
       m[i] # v[i] => i < o /\ m[i] = NUL /\ v[i] = SPACE /\ i > 0 /\ v[i - 1] # SPACE
  /\ o = 0 \/ o = n \/ v[o - 1] = SPACE

\* From o to t there are spaces only, from t to k a word.
WordFrom(v, n, o, t, k) ==
  /\ t \in Nat /\ k \in Nat /\ o <= t /\ t < k /\ k <= n
  /\ \A i \in Nat : o <= i /\ i < t => v[i] = SPACE
  /\ t = 0 \/ v[t - 1] = SPACE
  /\ \A i \in Nat : t <= i /\ i < k => v[i] # SPACE
  /\ k = n \/ v[k] = SPACE

NoWordFrom(v, n, o) == \A i \in Nat : o <= i /\ i < n => v[i] = SPACE

\* The token r that strtok finds in m from o on.
Found(L, v, n, o, r) ==
  /\ Scanned(L, v, n, r.m, r.olds)
  /\ \/ r.tok = NULLPTR /\ r.olds = n /\ NoWordFrom(v, n, o)
     \/ \E k \in Nat : /\ WordFrom(v, n, o, r.tok, k)
                       /\ r.olds = IF k = n THEN n ELSE k + 1
                       /\ strlen(r.m, r.tok) = k - r.tok
                       /\ \A i \in Nat : r.tok <= i /\ i < k => r.m[i] = v[i]

LEMMA LineFacts ==
  ASSUME NEW L, NEW v, NEW n, NEW s, Line(L, v, n, s)
  PROVE  /\ L \in Nat /\ n \in Nat /\ n <= L /\ v \in [0 .. L -> Nat] /\ v[n] = NUL
         /\ \A i \in Nat : i < n => i \in 0 .. L /\ v[i] # NUL /\ s[i + 1] = v[i]
<1>1. L \in Nat /\ n \in Nat /\ n <= L /\ v \in [0 .. L -> Nat] /\ v[n] = NUL
  BY DEF Line, String
<1>2. ASSUME NEW i \in Nat, i < n PROVE i \in 0 .. L /\ v[i] # NUL /\ s[i + 1] = v[i]
  <2>1. i \in 0 .. L /\ i + 1 \in 1 .. n /\ (i + 1) - 1 = i
    BY <1>1, <1>2
  <2> QED BY <2>1 DEF Line
<1> QED BY <1>1, <1>2

\* The string that a NUL at k ends.
LEMMA StringTo ==
  ASSUME NEW L, NEW m, String(L, m), NEW t \in Nat, NEW k \in Nat, t <= k, k <= L,
         m[k] = NUL, \A i \in Nat : t <= i /\ i < k => m[i] # NUL
  PROVE  strlen(m, t) = k - t /\ strchr(m, t, NUL) = k
<1> DEFINE n == strlen(m, t)
<1>1. L \in Nat /\ t \in 0 .. L
  BY DEF String
<1>2. /\ n \in Nat /\ m[t + n] = NUL /\ strchr(m, t, NUL) = t + n
      /\ \A j \in Nat : t <= j /\ j < t + n => m[j] # NUL
  BY <1>1, NulEnds
<1> HIDE DEF n
<1>3. t + n = k
  BY <1>2
<1>4. n = k - t
  BY <1>2, <1>3
<1> QED BY <1>2, <1>3, <1>4 DEF n

LEMMA Scan ==
  ASSUME NEW L, NEW v, NEW n, NEW s, Line(L, v, n, s),
         NEW m, NEW o, Scanned(L, v, n, m, o)
  PROVE  Found(L, v, n, o, TokenAt(m, Skip(m, o, {SPACE}), {SPACE}))
<1> DEFINE t == Skip(m, o, {SPACE})
           k == TokenEnd(m, t, {SPACE})
           r == TokenAt(m, t, {SPACE})
<1> SUFFICES Found(L, v, n, o, r)
  OBVIOUS
<1>1. /\ L \in Nat /\ n \in Nat /\ n <= L /\ v \in [0 .. L -> Nat] /\ v[n] = NUL
      /\ \A i \in Nat : i < n => i \in 0 .. L /\ v[i] # NUL
  BY LineFacts
<1>2. /\ o \in Nat /\ o <= n /\ m \in [0 .. L -> Nat]
      /\ \A i \in 0 .. L :
           m[i] # v[i] => i < o /\ m[i] = NUL /\ v[i] = SPACE /\ i > 0 /\ v[i - 1] # SPACE
      /\ o = 0 \/ o = n \/ v[o - 1] = SPACE
  BY <1>1 DEF Scanned
<1>3. \A i \in Nat : o <= i /\ i <= L => m[i] = v[i]
  <2> TAKE i \in Nat
  <2> HAVE o <= i /\ i <= L
  <2>1. i \in 0 .. L /\ ~(i < o)
    BY <1>1, <1>2
  <2> QED BY <1>2, <2>1
<1>4. String(L, m) /\ o \in 0 .. L
  <2>1. L \in 0 .. L /\ o \in 0 .. L /\ o <= L
    BY <1>1, <1>2
  <2>2. m[L] = v[L]
    BY <1>1, <1>3, <2>1
  <2>3. v[L] = NUL
    BY DEF Line, String
  <2> QED BY <1>1, <1>2, <2>1, <2>2, <2>3 DEF String
<1>5. /\ t \in Nat /\ o <= t /\ t <= L
      /\ m[t] = NUL \/ m[t] \notin {SPACE}
      /\ \A j \in Nat : o <= j /\ j < t => m[j] # NUL /\ m[j] \in {SPACE}
  BY <1>4, SkipEnds
<1> HIDE DEF t
<1>6. t \in 0 .. L
  BY <1>1, <1>5
<1>7. /\ k \in Nat /\ t <= k /\ k <= L
      /\ m[k] = NUL \/ m[k] \in {SPACE}
      /\ \A j \in Nat : t <= j /\ j < k => m[j] # NUL /\ m[j] \notin {SPACE}
      /\ m[k] = NUL => strpbrk(m, t, {SPACE}) = NULLPTR
      /\ m[k] # NUL => strpbrk(m, t, {SPACE}) = k
  BY <1>4, <1>6, TokenEnds
<1> HIDE DEF k
<1>8. m[n] = NUL /\ t <= n
  <2>1. m[n] = NUL
    BY <1>1, <1>2, <1>3
  <2> QED BY <1>1, <1>2, <1>5, <2>1
<1>9. k <= n
  BY <1>1, <1>7, <1>8
<1>10. \A i \in Nat : o <= i /\ i < t => v[i] = SPACE
  BY <1>1, <1>3, <1>5
<1>11. CASE m[t] = NUL
  <2>1. r = [tok |-> NULLPTR, m |-> m, olds |-> t]
    BY <1>11 DEF TokenAt
  <2>2. t = n
    BY <1>1, <1>3, <1>5, <1>8, <1>11
  <2>3. Scanned(L, v, n, m, t)
    <3>1. \A i \in 0 .. L : i < o => i < t
      BY <1>1, <1>2, <1>5
    <3> QED BY <1>1, <1>2, <2>2, <3>1 DEF Scanned
  <2>4. NoWordFrom(v, n, o)
    BY <1>10, <2>2 DEF NoWordFrom
  <2> HIDE DEF r
  <2> QED BY <2>1, <2>2, <2>3, <2>4 DEF Found
<1>12. CASE m[t] # NUL
  <2>1. t < k /\ t < n /\ t # n
    <3>1. t # k
      BY <1>5, <1>7, <1>12
    <3>2. t # n
      BY <1>8, <1>12
    <3> QED BY <1>1, <1>5, <1>7, <1>8, <3>1, <3>2
  <2>2. t = 0 \/ v[t - 1] = SPACE
    <3>1. CASE o < t
      <4>1. t - 1 \in Nat /\ o <= t - 1 /\ t - 1 < t
        BY <1>2, <1>5, <3>1
      <4> QED BY <1>10, <4>1
    <3>2. CASE o = t
      BY <1>2, <2>1, <3>2
    <3> QED BY <1>2, <1>5, <3>1, <3>2
  <2>3. \A i \in Nat : t <= i /\ i < k => v[i] # SPACE /\ m[i] = v[i] /\ m[i] # NUL
    <3> TAKE i \in Nat
    <3> HAVE t <= i /\ i < k
    <3>1. o <= i /\ i <= L
      BY <1>1, <1>2, <1>5, <1>7
    <3> QED BY <1>3, <1>7, <3>1
  <2>4. m[k] = v[k]
    BY <1>2, <1>3, <1>5, <1>7
  <2>5. k = n \/ v[k] = SPACE
    BY <1>1, <1>7, <1>9, <2>4
  <2>6. WordFrom(v, n, o, t, k)
    BY <1>5, <1>7, <1>9, <1>10, <2>1, <2>2, <2>3, <2>5 DEF WordFrom
  <2>7. CASE k = n
    <3>1. strlen(m, t) = k - t /\ strchr(m, t, NUL) = n
      BY <1>1, <1>4, <1>5, <1>7, <1>8, <2>3, <2>7, StringTo
    <3>2. r = [tok |-> t, m |-> m, olds |-> n]
      BY <1>7, <1>8, <1>12, <2>7, <3>1 DEF TokenAt, Cut
    <3>3. Scanned(L, v, n, m, n)
      <4>1. n \in 0 .. n /\ \A i \in 0 .. L : i < o => i < n
        BY <1>1, <1>2
      <4> QED BY <1>2, <4>1 DEF Scanned
    <3>4. /\ WordFrom(v, n, o, r.tok, k)
          /\ r.olds = IF k = n THEN n ELSE k + 1
          /\ strlen(r.m, r.tok) = k - r.tok
          /\ \A i \in Nat : r.tok <= i /\ i < k => r.m[i] = v[i]
          /\ Scanned(L, v, n, r.m, r.olds)
      <4> HIDE DEF r
      <4> QED BY <2>3, <2>6, <2>7, <3>1, <3>2, <3>3
    <3> HIDE DEF r
    <3> QED BY <1>7, <3>4 DEF Found
  <2>8. CASE k # n
    <3> DEFINE u == [m EXCEPT ![k] = NUL]
    <3>1. k < n /\ k # NULLPTR /\ k + 1 \in 0 .. n /\ (k + 1) - 1 = k /\ k \in 0 .. L /\ k > 0
      BY <1>1, <1>5, <1>7, <1>9, <2>1, <2>8 DEF NULLPTR
    <3>2. v[k] = SPACE /\ m[k] # NUL
      BY <1>1, <1>7, <2>4, <2>5, <2>8, <3>1
    <3>3. r = [tok |-> t, m |-> u, olds |-> k + 1]
      BY <1>7, <1>12, <3>1, <3>2 DEF TokenAt, Cut
    <3>4. u[k] = NUL /\ u \in [0 .. L -> Nat] /\ \A i \in 0 .. L : i # k => u[i] = m[i]
      BY <1>2, <3>1, ShellAssumption
    <3> HIDE DEF u
    <3>5. v[k - 1] # SPACE
      <4>1. k - 1 \in Nat /\ t <= k - 1 /\ k - 1 < k
        BY <1>5, <1>7, <2>1
      <4> QED BY <2>3, <4>1
    <3>6. ASSUME NEW i \in 0 .. L, u[i] # v[i]
          PROVE  i < k + 1 /\ u[i] = NUL /\ v[i] = SPACE /\ i > 0 /\ v[i - 1] # SPACE
      <4>1. CASE i = k
        BY <1>7, <3>1, <3>2, <3>4, <3>5, <4>1
      <4>2. CASE i # k
        <5>1. m[i] # v[i] /\ u[i] = m[i]
          BY <3>4, <3>6, <4>2
        <5>2. i < o /\ m[i] = NUL /\ v[i] = SPACE /\ i > 0 /\ v[i - 1] # SPACE
          BY <1>2, <5>1
        <5>3. i < k + 1
          BY <1>2, <1>5, <1>7, <5>2
        <5> QED BY <5>1, <5>2, <5>3
      <4> QED BY <4>1, <4>2
    <3>7. Scanned(L, v, n, u, k + 1)
      BY <3>1, <3>2, <3>4, <3>6 DEF Scanned
    <3>8. String(L, u)
      <4>1. L \in 0 .. L /\ L # k
        BY <1>1, <3>1
      <4> QED BY <1>4, <3>4, <4>1 DEF String
    <3>9. \A i \in Nat : t <= i /\ i < k => u[i] = v[i] /\ u[i] # NUL
      <4> TAKE i \in Nat
      <4> HAVE t <= i /\ i < k
      <4>1. i \in 0 .. L /\ i # k
        BY <1>1, <1>7
      <4> QED BY <2>3, <3>4, <4>1
    <3>10. strlen(u, t) = k - t
      BY <1>1, <1>5, <1>7, <3>4, <3>8, <3>9, StringTo
    <3>11. /\ WordFrom(v, n, o, r.tok, k)
           /\ r.olds = IF k = n THEN n ELSE k + 1
           /\ strlen(r.m, r.tok) = k - r.tok
           /\ \A i \in Nat : r.tok <= i /\ i < k => r.m[i] = v[i]
           /\ Scanned(L, v, n, r.m, r.olds)
      <4> HIDE DEF r
      <4> QED BY <2>6, <2>8, <3>3, <3>7, <3>9, <3>10
    <3> HIDE DEF r
    <3> QED BY <1>7, <3>11 DEF Found
  <2> QED BY <2>7, <2>8
<1> QED BY <1>11, <1>12

-----------------------------------------------------------------------------
(* The words of a line are counted by their starts.                        *)

\* The starts of words up to o, and those before i.
StartsTo(s, o) == {j \in WordStarts(s) : j <= o}
StartsBefore(s, i) == {j \in WordStarts(s) : j < i}

LEMMA StartsFinite ==
  ASSUME NEW s \in Seq(Nat)
  PROVE  /\ WordStarts(s) \subseteq Nat /\ IsFiniteSet(WordStarts(s))
         /\ \A o : IsFiniteSet(StartsTo(s, o)) /\ IsFiniteSet(StartsBefore(s, o))
<1>1. Len(s) \in Int /\ 1 \in Int /\ WordStarts(s) \subseteq 1 .. Len(s)
  BY DEF WordStarts
<1>2. IsFiniteSet(1 .. Len(s))
  BY <1>1, FS_Interval
<1>3. IsFiniteSet(WordStarts(s))
  BY <1>1, <1>2, FS_Subset
<1>4. \A o : StartsTo(s, o) \subseteq WordStarts(s) /\ StartsBefore(s, o) \subseteq WordStarts(s)
  BY DEF StartsTo, StartsBefore
<1>5. \A o : IsFiniteSet(StartsTo(s, o)) /\ IsFiniteSet(StartsBefore(s, o))
  BY <1>3, <1>4, FS_Subset
<1>6. WordStarts(s) \subseteq Nat
  BY <1>1
<1> QED BY <1>3, <1>5, <1>6

LEMMA NoMore ==
  ASSUME NEW L, NEW v, NEW n, NEW s, Line(L, v, n, s), NEW o \in 0 .. n, NoWordFrom(v, n, o)
  PROVE  StartsTo(s, o) = WordStarts(s)
<1>1. n \in Nat /\ s \in Seq(Nat) /\ Len(s) = n
  BY DEF Line
<1>2. ASSUME NEW j \in WordStarts(s) PROVE j <= o
  <2>1. j \in 1 .. n /\ s[j] # SPACE
    BY <1>1 DEF WordStarts
  <2>2. s[j] = v[j - 1] /\ j - 1 \in Nat /\ j - 1 < n
    BY <1>1, <2>1 DEF Line
  <2>3. ~(o <= j - 1)
    BY <2>1, <2>2 DEF NoWordFrom
  <2> QED BY <2>1, <2>3
<1> QED BY <1>2 DEF StartsTo

LEMMA OneMore ==
  ASSUME NEW L, NEW v, NEW n, NEW s, Line(L, v, n, s), NEW o \in 0 .. n, NEW t, NEW k,
         WordFrom(v, n, o, t, k), NEW p, p = IF k = n THEN n ELSE k + 1
  PROVE  /\ t + 1 \in WordStarts(s) /\ t + 1 \notin StartsTo(s, o)
         /\ StartsTo(s, p) = StartsTo(s, o) \cup {t + 1}
         /\ StartsBefore(s, t + 1) = StartsTo(s, o)
<1>1. /\ n \in Nat /\ s \in Seq(Nat) /\ Len(s) = n
      /\ \A i \in Nat : i < n => s[i + 1] = v[i]
  BY LineFacts DEF Line
<1>2. /\ t \in Nat /\ k \in Nat /\ o <= t /\ t < k /\ k <= n
      /\ \A i \in Nat : o <= i /\ i < t => v[i] = SPACE
      /\ t = 0 \/ v[t - 1] = SPACE
      /\ \A i \in Nat : t <= i /\ i < k => v[i] # SPACE
      /\ k = n \/ v[k] = SPACE
  BY DEF WordFrom
<1>3. t + 1 \in WordStarts(s)
  <2>1. t + 1 \in 1 .. Len(s) /\ s[t + 1] # SPACE
    <3>1. t < n /\ t <= t /\ t + 1 \in 1 .. n
      BY <1>1, <1>2
    <3> QED BY <1>1, <1>2, <3>1
  <2>2. t # 0 => t - 1 \in Nat /\ t - 1 < n /\ (t - 1) + 1 = (t + 1) - 1
    BY <1>1, <1>2
  <2>3. t # 0 => s[(t + 1) - 1] = SPACE
    BY <1>1, <1>2, <2>2
  <2>4. t = 0 => t + 1 = 1
    OBVIOUS
  <2> QED BY <2>1, <2>3, <2>4 DEF WordStarts
<1>4. ~(t + 1 <= o) /\ t + 1 <= p /\ p \in Nat /\ o <= p
  BY <1>1, <1>2
<1>5. ASSUME NEW j \in WordStarts(s), j <= p, ~(j <= o) PROVE j = t + 1
  <2>1. j \in 1 .. n /\ s[j] # SPACE /\ (j = 1 \/ s[j - 1] = SPACE)
    BY <1>1 DEF WordStarts
  <2>2. j - 1 \in Nat /\ j - 1 < n /\ (j - 1) + 1 = j /\ o <= j - 1
    BY <1>1, <1>5, <2>1
  <2>3. v[j - 1] # SPACE
    BY <1>1, <2>1, <2>2
  <2>4. ~(j - 1 < t) /\ j - 1 # k
    BY <1>1, <1>2, <2>2, <2>3
  <2>5. j - 1 < k
    BY <1>1, <1>2, <1>5, <2>2, <2>4
  <2> SUFFICES ASSUME t < j - 1 PROVE FALSE
    BY <1>2, <2>2, <2>4
  <2>6. j - 2 \in Nat /\ j - 2 < n /\ (j - 2) + 1 = j - 1 /\ t <= j - 2 /\ j - 2 < k /\ j # 1
    BY <1>1, <1>2, <2>1, <2>5
  <2>7. s[j - 1] = v[j - 2] /\ v[j - 2] # SPACE
    BY <1>1, <1>2, <2>6
  <2> QED BY <2>1, <2>6, <2>7
<1>6. WordStarts(s) \subseteq Nat
  BY <1>1, StartsFinite
<1>7. \A j \in WordStarts(s) : j <= p <=> j <= o \/ j = t + 1
  <2> TAKE j \in WordStarts(s)
  <2>1. j \in Nat /\ o \in Nat
    BY <1>6
  <2>2. j <= o => j <= p
    BY <1>4, <2>1
  <2> QED BY <1>4, <1>5, <2>2
<1>8. \A j \in WordStarts(s) : j < t + 1 <=> j <= o
  <2> TAKE j \in WordStarts(s)
  <2>1. j \in Nat /\ o \in Nat
    BY <1>6
  <2>2. j <= o => j < t + 1
    BY <1>2, <2>1
  <2>3. j < t + 1 => j <= p /\ j # t + 1
    BY <1>2, <1>4, <2>1
  <2> QED BY <1>5, <2>2, <2>3
<1>9. StartsTo(s, p) = StartsTo(s, o) \cup {t + 1}
  BY <1>3, <1>7 DEF StartsTo
<1>10. StartsBefore(s, t + 1) = StartsTo(s, o)
  BY <1>8 DEF StartsTo, StartsBefore
<1>11. t + 1 \notin StartsTo(s, o)
  BY <1>4 DEF StartsTo
<1> QED BY <1>3, <1>9, <1>10, <1>11

\* A start is known by the number of starts before it.
LEMMA NthStart ==
  ASSUME NEW s \in Seq(Nat), NEW i \in WordStarts(s), NEW x \in WordStarts(s),
         Cardinality(StartsBefore(s, i)) = Cardinality(StartsBefore(s, x))
  PROVE  i = x
<1>1. WordStarts(s) \subseteq Nat /\ \A o : IsFiniteSet(StartsBefore(s, o))
  BY StartsFinite
<1>2. ASSUME NEW a \in WordStarts(s), NEW b \in WordStarts(s), a < b,
             Cardinality(StartsBefore(s, a)) = Cardinality(StartsBefore(s, b))
      PROVE  FALSE
  <2>1. a \in Nat /\ b \in Nat
    BY <1>1
  <2>2. a \in StartsBefore(s, b) /\ a \notin StartsBefore(s, a)
    BY <1>2, <2>1 DEF StartsBefore
  <2>3. StartsBefore(s, a) \subseteq StartsBefore(s, b)
    BY <1>1, <1>2 DEF StartsBefore
  <2>4. StartsBefore(s, a) = StartsBefore(s, b)
    BY <1>1, <1>2, <2>3, FS_Subset
  <2> QED BY <2>2, <2>4
<1>3. i \in Nat /\ x \in Nat
  BY <1>1
<1>4. ~(i < x) /\ ~(x < i)
  BY <1>2
<1> QED BY <1>3, <1>4

LEMMA WordsIs ==
  ASSUME NEW s \in Seq(Nat)
  PROVE  /\ Cardinality(WordStarts(s)) \in Nat
         /\ Len(Words(s)) = Cardinality(WordStarts(s))
         /\ Words(s) = [n \in 1 .. Cardinality(WordStarts(s)) |-> Words(s)[n]]
         /\ \A i \in WordStarts(s), n \in Nat :
              n = Cardinality(StartsBefore(s, i)) + 1 =>
                n \in 1 .. Cardinality(WordStarts(s)) /\ Words(s)[n] = WordAt(s, i)
<1> DEFINE c == Cardinality(WordStarts(s))
           nth(n) == CHOOSE i \in WordStarts(s) : Cardinality(StartsBefore(s, i)) = n - 1
           w == [n \in 1 .. c |-> WordAt(s, nth(n))]
<1>1. Words(s) = w
  BY DEF Words, StartsBefore
<1>2. c \in Nat
  BY StartsFinite, FS_CardinalityType
<1>3. Len(w) = c
  <2> HIDE DEF c, nth
  <2> DEFINE W == {WordAt(s, nth(n)) : n \in 1 .. c}
  <2>1. \A n \in 1 .. c : WordAt(s, nth(n)) \in W
    OBVIOUS
  <2> HIDE DEF W
  <2>2. w \in Seq(W) /\ Len(w) = c
    BY <1>2, <2>1
  <2> QED BY <2>2
<1>4. ASSUME NEW i \in WordStarts(s), NEW n \in Nat, n = Cardinality(StartsBefore(s, i)) + 1
      PROVE  n \in 1 .. c /\ w[n] = WordAt(s, i)
  <2>1. StartsBefore(s, i) \cup {i} \subseteq WordStarts(s) /\ i \notin StartsBefore(s, i)
    <3>1. i \in Nat
      BY StartsFinite
    <3> QED BY <3>1 DEF StartsBefore
  <2>2. Cardinality(StartsBefore(s, i) \cup {i}) = Cardinality(StartsBefore(s, i)) + 1
    BY <2>1, StartsFinite, FS_AddElement
  <2>3. Cardinality(StartsBefore(s, i) \cup {i}) <= c
    BY <2>1, StartsFinite, FS_Subset
  <2>4. Cardinality(StartsBefore(s, i)) \in Nat
    BY StartsFinite, FS_CardinalityType
  <2>5. n \in 1 .. c /\ Cardinality(StartsBefore(s, i)) = n - 1
    BY <1>2, <1>4, <2>2, <2>3, <2>4
  <2>6. nth(n) \in WordStarts(s) /\ Cardinality(StartsBefore(s, nth(n))) = n - 1
    BY <2>5
  <2> HIDE DEF nth
  <2>7. nth(n) = i
    BY <2>5, <2>6, NthStart
  <2> QED BY <2>5, <2>7
<1>5. w = [n \in 1 .. c |-> w[n]]
  OBVIOUS
<1> HIDE DEF w
<1> QED BY <1>1, <1>2, <1>3, <1>4, <1>5

LEMMA SliceIs ==
  ASSUME NEW s \in Seq(Nat), NEW a \in Nat, NEW b \in Nat
  PROVE  SubSeq(s, a, b) = [i \in 1 .. b - a + 1 |-> s[a + i - 1]]
OBVIOUS

LEMMA MiddleIs ==
  ASSUME NEW s \in Seq(Nat), NEW a \in Nat, NEW b \in Nat, 1 <= a, a <= b, b <= Len(s)
  PROVE  /\ Len(SubSeq(s, a, b)) = b - a + 1
         /\ \A i \in 1 .. b - a + 1 : SubSeq(s, a, b)[i] = s[a + i - 1]
OBVIOUS

\* The word that starts at t + 1 is what lies before the next space.
LEMMA WordAtIs ==
  ASSUME NEW L, NEW v, NEW n, NEW s, Line(L, v, n, s), NEW o \in 0 .. n, NEW t, NEW k,
         WordFrom(v, n, o, t, k)
  PROVE  WordAt(s, t + 1) = SubSeq(s, t + 1, k)
<1> DEFINE W == {SubSeq(s, t + 1, j) : j \in t + 1 .. Len(s)}
           Ends(w) == /\ \A i \in 1 .. Len(w) : w[i] # SPACE
                      /\ t + 1 + Len(w) > Len(s) \/ s[t + 1 + Len(w)] = SPACE
<1>1. /\ n \in Nat /\ s \in Seq(Nat) /\ Len(s) = n
      /\ \A i \in Nat : i < n => s[i + 1] = v[i]
  BY LineFacts DEF Line
<1>2. /\ t \in Nat /\ k \in Nat /\ t < k /\ k <= n
      /\ \A i \in Nat : t <= i /\ i < k => v[i] # SPACE
      /\ k = n \/ v[k] = SPACE
  BY DEF WordFrom
<1>3. ASSUME NEW j \in t + 1 .. n
      PROVE  /\ Len(SubSeq(s, t + 1, j)) = j - t
             /\ \A i \in 1 .. j - t : SubSeq(s, t + 1, j)[i] = s[t + i]
  <2> DEFINE a == t + 1
  <2>1. a \in Nat /\ j \in Nat /\ 1 <= a /\ a <= j /\ j <= Len(s)
    BY <1>1, <1>2
  <2>2. j - a + 1 = j - t /\ \A i \in 1 .. j - t : a + i - 1 = t + i
    BY <1>2, <2>1
  <2> HIDE DEF a
  <2>3. /\ Len(SubSeq(s, a, j)) = j - a + 1
        /\ \A i \in 1 .. j - a + 1 : SubSeq(s, a, j)[i] = s[a + i - 1]
    BY <1>1, <2>1, MiddleIs
  <2>4. Len(SubSeq(s, a, j)) = j - t /\ \A i \in 1 .. j - t : SubSeq(s, a, j)[i] = s[t + i]
    BY <2>2, <2>3
  <2> QED BY <2>4 DEF a
<1>4. k \in t + 1 .. n /\ Ends(SubSeq(s, t + 1, k))
  <2>1. k \in t + 1 .. n /\ k - t \in Nat /\ (t + 1) + (k - t) = k + 1
    BY <1>1, <1>2
  <2>2. \A i \in 1 .. k - t : s[t + i] # SPACE
    <3> TAKE i \in 1 .. k - t
    <3>1. t + i - 1 \in Nat /\ t <= t + i - 1 /\ t + i - 1 < k /\ t + i - 1 < n
          /\ (t + i - 1) + 1 = t + i
      BY <1>1, <1>2
    <3> QED BY <1>1, <1>2, <3>1
  <2>3. k + 1 > Len(s) \/ s[k + 1] = SPACE
    BY <1>1, <1>2
  <2> DEFINE x == SubSeq(s, t + 1, k)
  <2>4. Len(x) = k - t /\ \A i \in 1 .. k - t : x[i] = s[t + i]
    BY <1>3, <2>1
  <2> HIDE DEF x
  <2>5. \A i \in 1 .. Len(x) : x[i] # SPACE
    BY <2>2, <2>4
  <2>6. t + 1 + Len(x) > Len(s) \/ s[t + 1 + Len(x)] = SPACE
    BY <2>1, <2>3, <2>4
  <2> QED BY <2>1, <2>5, <2>6 DEF x
<1>5. ASSUME NEW j \in t + 1 .. n, Ends(SubSeq(s, t + 1, j)) PROVE j = k
  <2> DEFINE x == SubSeq(s, t + 1, j)
  <2>1. Len(x) = j - t /\ \A i \in 1 .. j - t : x[i] = s[t + i]
    BY <1>3
  <2>2. /\ \A i \in 1 .. Len(x) : x[i] # SPACE
        /\ t + 1 + Len(x) > Len(s) \/ s[t + 1 + Len(x)] = SPACE
    BY <1>5
  <2> HIDE DEF x
  <2>3. j \in Nat /\ j <= n /\ t + 1 <= j /\ t + 1 + (j - t) = j + 1
    BY <1>1, <1>2
  <2>4. ~(j < k)
    <3> SUFFICES ASSUME j < k PROVE FALSE
      OBVIOUS
    <3>1. j < n /\ t <= j
      BY <1>1, <1>2, <2>3
    <3>2. s[j + 1] = v[j] /\ v[j] # SPACE
      BY <1>1, <1>2, <2>3, <3>1
    <3>3. ~(j + 1 > Len(s))
      BY <1>1, <2>3, <3>1
    <3> QED BY <2>1, <2>2, <2>3, <3>2, <3>3
  <2>5. ~(k < j)
    <3> SUFFICES ASSUME k < j PROVE FALSE
      OBVIOUS
    <3> DEFINE i == k + 1 - t
    <3>1. i \in 1 .. j - t /\ t + i = k + 1 /\ k < n
      BY <1>1, <1>2, <2>3
    <3>2. s[k + 1] = v[k] /\ v[k] = SPACE
      <4>1. k # n /\ k \in Nat
        BY <1>1, <1>2, <3>1
      <4> QED BY <1>1, <1>2, <3>1, <4>1
    <3> HIDE DEF i
    <3> QED BY <2>1, <2>2, <3>1, <3>2
  <2> QED BY <1>2, <2>3, <2>4, <2>5
<1> HIDE DEF Ends
<1>6. \A w \in W : Ends(w) => w = SubSeq(s, t + 1, k)
  BY <1>1, <1>5
<1>7. SubSeq(s, t + 1, k) \in W /\ Ends(SubSeq(s, t + 1, k))
  BY <1>1, <1>4
<1>8. WordAt(s, t + 1) = CHOOSE w \in W : Ends(w)
  BY DEF WordAt, Ends
<1> HIDE DEF W
<1> QED BY <1>6, <1>7, <1>8

\* The token that strtok finds is the next word.
LEMMA NextWord ==
  ASSUME NEW L, NEW v, NEW n, NEW s, Line(L, v, n, s), NEW o \in 0 .. n,
         NEW c, c = Cardinality(StartsTo(s, o)), NEW r, Found(L, v, n, o, r)
  PROVE  /\ c \in Nat
         /\ r.tok = NULLPTR => Len(Words(s)) = c
         /\ r.tok # NULLPTR =>
              /\ c + 1 \in 1 .. Len(Words(s)) /\ Words(s)[c + 1] = StrAt(r.m, r.tok)
              /\ Cardinality(StartsTo(s, r.olds)) = c + 1
              /\ StrAt(r.m, r.tok) \in Seq(Nat)
<1>1. /\ n \in Nat /\ s \in Seq(Nat) /\ Len(s) = n
      /\ \A i \in Nat : i < n => s[i + 1] = v[i]
  BY LineFacts DEF Line
<1>2. c \in Nat
  BY <1>1, StartsFinite, FS_CardinalityType
<1>3. /\ Len(Words(s)) = Cardinality(WordStarts(s))
      /\ \A i \in WordStarts(s), x \in Nat :
           x = Cardinality(StartsBefore(s, i)) + 1 =>
             x \in 1 .. Cardinality(WordStarts(s)) /\ Words(s)[x] = WordAt(s, i)
  BY <1>1, WordsIs
<1>4. CASE r.tok = NULLPTR
  <2>1. ~ \E k \in Nat : WordFrom(v, n, o, r.tok, k)
    BY <1>4 DEF WordFrom, NULLPTR
  <2>2. NoWordFrom(v, n, o)
    BY <2>1 DEF Found
  <2> QED BY <1>2, <1>3, <1>4, <2>2, NoMore
<1>5. CASE r.tok # NULLPTR
  <2> DEFINE t == r.tok
  <2>1. PICK k \in Nat : /\ WordFrom(v, n, o, t, k)
                         /\ r.olds = IF k = n THEN n ELSE k + 1
                         /\ strlen(r.m, t) = k - t
                         /\ \A i \in Nat : t <= i /\ i < k => r.m[i] = v[i]
    BY <1>5 DEF Found
  <2> HIDE DEF t
  <2>2. t \in Nat /\ t < k /\ k <= n
    BY <2>1 DEF WordFrom
  <2>3. /\ t + 1 \in WordStarts(s) /\ t + 1 \notin StartsTo(s, o)
        /\ StartsTo(s, r.olds) = StartsTo(s, o) \cup {t + 1}
        /\ StartsBefore(s, t + 1) = StartsTo(s, o)
    BY <2>1, OneMore
  <2>4. Cardinality(StartsTo(s, r.olds)) = c + 1
    BY <1>1, <2>3, StartsFinite, FS_AddElement
  <2>5. c + 1 \in 1 .. Len(Words(s)) /\ Words(s)[c + 1] = WordAt(s, t + 1)
    <3>1. c + 1 \in Nat /\ c + 1 = Cardinality(StartsBefore(s, t + 1)) + 1
      BY <1>2, <2>3
    <3> QED BY <1>3, <2>3, <3>1
  <2>6. WordAt(s, t + 1) = SubSeq(s, t + 1, k)
    BY <2>1, WordAtIs
  <2>7. SubSeq(s, t + 1, k) = [i \in 1 .. k - t |-> s[t + i]]
    <3>1. SubSeq(s, t + 1, k) = [i \in 1 .. k - (t + 1) + 1 |-> s[(t + 1) + i - 1]]
      <4>1. t + 1 \in Nat /\ k \in Nat /\ s \in Seq(Nat)
        BY <1>1, <2>2
      <4> QED BY <4>1, SliceIs
    <3>2. k - (t + 1) + 1 = k - t /\ \A i \in 1 .. k - t : (t + 1) + i - 1 = t + i
      BY <2>2
    <3> QED BY <3>1, <3>2
  <2>8. \A i \in 1 .. k - t : r.m[t + i - 1] = s[t + i] /\ s[t + i] \in Nat
    <3> TAKE i \in 1 .. k - t
    <3>1. t + i - 1 \in Nat /\ t <= t + i - 1 /\ t + i - 1 < k /\ t + i - 1 < n
          /\ (t + i - 1) + 1 = t + i /\ t + i \in 1 .. Len(s)
      BY <1>1, <2>2
    <3> QED BY <1>1, <2>1, <3>1
  <2>9. StrAt(r.m, t) = [i \in 1 .. k - t |-> s[t + i]]
    BY <2>1, <2>8 DEF StrAt
  <2>10. [i \in 1 .. k - t |-> s[t + i]] \in Seq(Nat)
    <3>1. k - t \in Nat
      BY <2>2
    <3> QED BY <2>8, <3>1
  <2>11. StrAt(r.m, t) = WordAt(s, t + 1) /\ StrAt(r.m, t) \in Seq(Nat)
    BY <2>6, <2>7, <2>9, <2>10
  <2> QED BY <1>2, <1>5, <2>4, <2>5, <2>11 DEF t
<1> QED BY <1>4, <1>5

-----------------------------------------------------------------------------
(* A caller that takes the tokens of a line one by one.                    *)

TInv ==
  LET n == Len(typed)
      v == Memory(typed)
  IN  /\ Line(n, v, n, typed) /\ Scanned(n, v, n, cut, olds)
      /\ toks \in Seq(Seq(Nat)) /\ Len(toks) = Cardinality(StartsTo(typed, olds))
      /\ \A i \in 1 .. Len(toks) : i \in 1 .. Len(Words(typed)) /\ toks[i] = Words(typed)[i]
      /\ done => Len(toks) = Len(Words(typed))
      /\ ~done /\ toks = <<>> => olds = 0

LEMMA MemoryLine ==
  ASSUME NEW s \in Seq(Alphabet)
  PROVE  Line(Len(s), Memory(s), Len(s), s)
<1> DEFINE n == Len(s)
           v == Memory(s)
<1>1. n \in Nat /\ NUL \in Nat /\ \A j \in 1 .. n : s[j] \in Nat /\ s[j] # NUL
  <2>1. n \in Nat /\ \A j \in 1 .. n : s[j] \in Alphabet
    OBVIOUS
  <2>2. NUL \in Nat
    BY DEF NUL
  <2> QED BY <2>1, <2>2, TokensAssumption
<1>2. v = [i \in 0 .. n |-> IF i < n THEN s[i + 1] ELSE NUL]
  BY DEF Memory
<1>3. v \in [0 .. n -> Nat] /\ v[n] = NUL
  <2>1. \A i \in 0 .. n : i < n => i + 1 \in 1 .. n
    BY <1>1
  <2>2. n \in 0 .. n
    BY <1>1
  <2> HIDE DEF n, v
  <2> QED BY <1>1, <1>2, <2>1, <2>2
<1>4. \A j \in 1 .. n : s[j] = v[j - 1] /\ s[j] # NUL
  <2> TAKE j \in 1 .. n
  <2>1. j - 1 \in 0 .. n /\ j - 1 < n /\ (j - 1) + 1 = j
    BY <1>1
  <2> HIDE DEF n, v
  <2> QED BY <1>1, <1>2, <2>1
<1>5. s \in Seq(Nat)
  <2>1. s = [j \in 1 .. n |-> s[j]]
    OBVIOUS
  <2> HIDE DEF n
  <2>2. \A j \in 1 .. n : s[j] \in Nat
    BY <1>1
  <2>3. [j \in 1 .. n |-> s[j]] \in Seq(Nat)
    BY <1>1, <2>2
  <2> QED BY <2>1, <2>3
<1>6. n \in 0 .. n
  BY <1>1
<1> HIDE DEF v
<1> QED BY <1>1, <1>3, <1>4, <1>5, <1>6 DEF Line, String, v

LEMMA TInit == TokensInit => TInv
<1> SUFFICES ASSUME TokensInit PROVE TInv
  OBVIOUS
<1> DEFINE n == Len(typed)
           v == Memory(typed)
<1>1. typed \in Seq(Alphabet)
  <2>1. PICK k \in 0 .. MaxLen : typed \in [1 .. k -> Alphabet]
    BY DEF TokensInit, BoundedSeq, SeqOf
  <2>2. k \in Nat
    BY <2>1, TokensAssumption
  <2> QED BY <2>1, <2>2
<1>2. cut = v /\ olds = 0 /\ toks = <<>> /\ done = FALSE
  BY DEF TokensInit
<1>3. Line(n, v, n, typed)
  BY <1>1, MemoryLine
<1>4. n \in Nat /\ typed \in Seq(Nat)
  BY <1>3 DEF Line
<1> HIDE DEF n, v
<1>5. Scanned(n, v, n, cut, olds)
  <2>1. 0 \in 0 .. n
    BY <1>4
  <2> QED BY <1>2, <1>3, <2>1 DEF Scanned, Line, String
<1>6. Cardinality(StartsTo(typed, olds)) = 0
  <2>1. \A j \in WordStarts(typed) : ~(j <= 0)
    BY <1>4 DEF WordStarts
  <2>2. StartsTo(typed, olds) = {}
    BY <1>2, <2>1 DEF StartsTo
  <2> QED BY <2>2, FS_EmptySet
<1>7. toks \in Seq(Seq(Nat)) /\ Len(toks) = 0 /\ 1 .. 0 = {}
  BY <1>2
<1> QED BY <1>2, <1>3, <1>5, <1>6, <1>7 DEF TInv, n, v

LEMMA TToken ==
  ASSUME TInv, Token
  PROVE  TInv'
<1> DEFINE n == Len(typed)
           v == Memory(typed)
           r == strtok(cut, olds, IF toks = <<>> THEN 0 ELSE NULLPTR, {SPACE})
           c == Len(toks)
<1>1. /\ ~done /\ cut' = r.m /\ olds' = r.olds /\ done' = (r.tok = NULLPTR)
      /\ toks' = IF r.tok = NULLPTR THEN toks ELSE Append(toks, StrAt(r.m, r.tok))
      /\ typed' = typed
  BY DEF Token
<1>2. /\ Line(n, v, n, typed) /\ Scanned(n, v, n, cut, olds)
      /\ toks \in Seq(Seq(Nat)) /\ c = Cardinality(StartsTo(typed, olds))
      /\ \A i \in 1 .. c : i \in 1 .. Len(Words(typed)) /\ toks[i] = Words(typed)[i]
      /\ toks = <<>> => olds = 0
  BY <1>1 DEF TInv
<1>3. r = TokenAt(cut, Skip(cut, olds, {SPACE}), {SPACE})
  <2>1. Start(olds, IF toks = <<>> THEN 0 ELSE NULLPTR) = olds
    BY <1>2 DEF Start, NULLPTR
  <2> QED BY <2>1 DEF strtok
<1> HIDE DEF r, v
<1>4. Found(n, v, n, olds, r)
  BY <1>2, <1>3, Scan
<1>5. olds \in 0 .. n
  BY <1>2 DEF Scanned
<1>6. Scanned(n, v, n, r.m, r.olds)
  BY <1>4 DEF Found
<1>7. /\ c \in Nat
      /\ r.tok = NULLPTR => Len(Words(typed)) = c
      /\ r.tok # NULLPTR =>
           /\ c + 1 \in 1 .. Len(Words(typed)) /\ Words(typed)[c + 1] = StrAt(r.m, r.tok)
           /\ Cardinality(StartsTo(typed, r.olds)) = c + 1
           /\ StrAt(r.m, r.tok) \in Seq(Nat)
  BY <1>2, <1>4, <1>5, NextWord
<1>8. v' = v /\ n' = n
  BY <1>1 DEF v, Memory
<1>9. CASE r.tok = NULLPTR
  <2>1. toks' = toks /\ done' /\ Len(Words(typed)) = c
    BY <1>1, <1>7, <1>9
  <2>2. Cardinality(StartsTo(typed, r.olds)) = c
    <3>1. r.olds = n /\ NoWordFrom(v, n, olds) /\ n \in Nat
      <4>1. ~ \E k \in Nat : WordFrom(v, n, olds, r.tok, k)
        BY <1>9 DEF WordFrom, NULLPTR
      <4> QED BY <1>2, <1>4, <4>1 DEF Found, Line
    <3>2. StartsTo(typed, olds) = WordStarts(typed)
      BY <1>2, <1>5, <3>1, NoMore
    <3>3. StartsTo(typed, r.olds) = WordStarts(typed)
      <4>1. n \in 0 .. n /\ NoWordFrom(v, n, n)
        BY <3>1 DEF NoWordFrom
      <4> QED BY <1>2, <3>1, <4>1, NoMore
    <3> QED BY <1>2, <3>2, <3>3
  <2> QED BY <1>1, <1>2, <1>6, <1>8, <2>1, <2>2 DEF TInv, v
<1>10. CASE r.tok # NULLPTR
  <2> DEFINE w == StrAt(r.m, r.tok)
  <2>1. toks' = Append(toks, w) /\ ~done'
    BY <1>1, <1>10
  <2>2. w \in Seq(Nat) /\ c + 1 \in 1 .. Len(Words(typed)) /\ Words(typed)[c + 1] = w
        /\ Cardinality(StartsTo(typed, r.olds)) = c + 1
    BY <1>7, <1>10
  <2> HIDE DEF w
  <2>3. /\ toks' \in Seq(Seq(Nat)) /\ Len(toks') = c + 1 /\ toks'[c + 1] = w
        /\ \A i \in 1 .. c : toks'[i] = toks[i]
    BY <1>2, <2>1, <2>2
  <2>4. toks' # <<>>
    BY <1>7, <2>3
  <2>5. \A i \in 1 .. Len(toks') : i \in 1 .. Len(Words(typed)) /\ toks'[i] = Words(typed)[i]
    <3> TAKE i \in 1 .. Len(toks')
    <3>1. i = c + 1 \/ i \in 1 .. c
      BY <1>7, <2>3
    <3> QED BY <1>2, <2>2, <2>3, <3>1
  <2> QED BY <1>1, <1>2, <1>6, <1>8, <2>1, <2>2, <2>3, <2>4, <2>5 DEF TInv, v
<1> QED BY <1>9, <1>10

LEMMA TStep == TInv /\ [TokensNext]_tokenVars => TInv'
<1> SUFFICES ASSUME TInv, [TokensNext]_tokenVars PROVE TInv'
  OBVIOUS
<1>1. CASE Token
  BY <1>1, TToken
<1>2. CASE UNCHANGED <<typed, cut, olds, toks, done>>
  BY <1>2 DEF TInv, Memory
<1>3. CASE \E base \in Bases : Convert(base)
  BY <1>2, <1>3 DEF Convert
<1>4. CASE UNCHANGED tokenVars
  BY <1>2, <1>4 DEF tokenVars
<1> QED BY <1>1, <1>3, <1>4 DEF TokensNext

(* strtoul gives the value of the numeral, in every base, exactly, and     *)
(* MaxULong just when the value exceeds it (strtoul.c:31-54): the test    *)
(* against cutoff and cutlim loses no number and lets none wrap.           *)
THEOREM StrtoulExact == TokensSpec => []StrtoulSaturates
<1> DEFINE Exact == conv # <<>> => conv[2] = Value(toks[Len(toks)], conv[1], MaxULong)
           CInv == TInv /\ Exact
<1>1. TokensInit => CInv
  BY TInit DEF TokensInit
<1>2. CInv /\ [TokensNext]_tokenVars => CInv'
  <2> SUFFICES ASSUME CInv, [TokensNext]_tokenVars PROVE Exact'
    BY TStep
  <2>1. CASE Token
    BY <2>1 DEF Token
  <2>2. ASSUME NEW base \in Bases, Convert(base) PROVE Exact'
    <3> DEFINE w == toks[Len(toks)]
    <3>1. toks # <<>> /\ toks' = toks /\ conv' = <<base, strtoul(w, base, MaxULong)>>
      BY <2>2 DEF Convert, Last
    <3>2. w \in Seq(Nat)
      <4>1. toks \in Seq(Seq(Nat))
        BY DEF TInv
      <4>2. Len(toks) \in 1 .. Len(toks)
        BY <3>1, <4>1
      <4> QED BY <4>1, <4>2
    <3> HIDE DEF w
    <3>3. strtoul(w, base, MaxULong) = Value(w, base, MaxULong)
      BY <3>2, StrtoulIs, TokensAssumption
    <3>4. conv'[2] = Value(w, base, MaxULong) /\ conv'[1] = base
      BY <3>1, <3>3
    <3> QED BY <3>1, <3>4 DEF w
  <2>3. CASE UNCHANGED tokenVars
    BY <2>3 DEF tokenVars
  <2> QED BY <2>1, <2>2, <2>3 DEF TokensNext
<1>3. CInv => StrtoulSaturates
  BY DEF StrtoulSaturates, Last
<1> QED BY <1>1, <1>2, <1>3, PTL DEF TokensSpec

(* Repeated calls of strtok return the words of the line, in order and     *)
(* each once, whatever the line and wherever its spaces are (strtok.c):    *)
(* the static pointer always rests between two words.                      *)
THEOREM TokensEnumerateWords == TokensSpec => []TokensAreWords
<1>1. TInv => TokensAreWords
  <2> SUFFICES ASSUME TInv
               PROVE  IsPrefix(toks, Words(typed)) /\ (done => toks = Words(typed))
    BY DEF TokensAreWords
  <2> DEFINE n == Len(typed)
             c == Cardinality(WordStarts(typed))
             w == Words(typed)
  <2>1. /\ typed \in Seq(Nat) /\ toks \in Seq(Seq(Nat))
        /\ \A i \in 1 .. Len(toks) : i \in 1 .. Len(w) /\ toks[i] = w[i]
        /\ done => Len(toks) = Len(w)
    BY DEF TInv, Line
  <2>2. c \in Nat /\ Len(w) = c /\ w = [i \in 1 .. c |-> w[i]]
    BY <2>1, WordsIs
  <2> HIDE DEF w, c
  <2>3. Len(toks) \in Nat /\ toks = [i \in 1 .. Len(toks) |-> toks[i]]
    BY <2>1
  <2>4. Len(toks) <= c
    <3>1. Len(toks) # 0 => Len(toks) \in 1 .. Len(toks)
      BY <2>3
    <3>2. Len(toks) # 0 => Len(toks) \in 1 .. c
      BY <2>1, <2>2, <3>1
    <3> QED BY <2>2, <2>3, <3>2
  <2>5. SubSeq(toks, 1, Len(toks)) = [i \in 1 .. Len(toks) |-> toks[i]]
    BY <2>1
  <2>6. SubSeq(w, 1, Len(toks)) = [i \in 1 .. Len(toks) |-> w[i]]
    <3>1. w \in Seq({w[i] : i \in 1 .. c})
      BY <2>2
    <3> QED BY <2>2, <2>3, <2>4, <3>1
  <2>7. IsPrefix(toks, w)
    BY <2>1, <2>2, <2>4, <2>5, <2>6 DEF IsPrefix
  <2>8. done => toks = w
    BY <2>1, <2>2, <2>3
  <2> QED BY <2>7, <2>8 DEF w
<1> QED BY TInit, TStep, <1>1, PTL DEF TokensSpec

(* strtok writes nothing but NULs over the spaces that end a word          *)
(* (strtok.c:28), through any number of calls.                             *)
THEOREM OnlyDelimitersCut == TokensSpec => []CutsOnlyDelimiters
<1>1. TInv => CutsOnlyDelimiters
  <2> SUFFICES ASSUME TInv, NEW i \in 1 .. Len(typed), cut[i - 1] # typed[i]
               PROVE  /\ cut[i - 1] = NUL /\ typed[i] = SPACE
                      /\ i > 1 /\ typed[i - 1] # SPACE
    BY DEF CutsOnlyDelimiters
  <2> DEFINE n == Len(typed)
             v == Memory(typed)
  <2>1. Line(n, v, n, typed) /\ Scanned(n, v, n, cut, olds)
    BY DEF TInv
  <2> HIDE DEF v
  <2>2. n \in Nat /\ \A j \in Nat : j < n => typed[j + 1] = v[j]
    BY <2>1, LineFacts
  <2>3. i - 1 \in Nat /\ i - 1 < n /\ (i - 1) + 1 = i /\ i - 1 \in 0 .. n
    BY <2>2
  <2>4. typed[i] = v[i - 1]
    BY <2>2, <2>3
  <2>5. cut[i - 1] = NUL /\ v[i - 1] = SPACE /\ i - 1 > 0 /\ v[(i - 1) - 1] # SPACE
    BY <2>1, <2>3, <2>4 DEF Scanned
  <2>6. i > 1 /\ i - 2 \in Nat /\ i - 2 < n /\ (i - 2) + 1 = i - 1 /\ (i - 1) - 1 = i - 2
    BY <2>2, <2>3, <2>5
  <2>7. typed[i - 1] = v[i - 2]
    BY <2>2, <2>6
  <2> QED BY <2>4, <2>5, <2>6, <2>7
<1> QED BY TInit, TStep, <1>1, PTL DEF TokensSpec

-----------------------------------------------------------------------------
(* The refinement.  The operators of Editor are those of Words.            *)

LEMMA SamePrefix ==
  ASSUME NEW s, NEW t
  PROVE  Editor!IsPrefix(s, t) = IsPrefix(s, t)
BY DEF Editor!IsPrefix, IsPrefix

LEMMA SameWords ==
  ASSUME NEW s
  PROVE  Editor!Words(s) = Words(s)
BY DEF Editor!Words, Words, Editor!WordStarts, WordStarts, Editor!WordAt, WordAt,
       Editor!SPACE, SPACE, Editor!Cardinality, Cardinality

LEMMA SameNumeral ==
  ASSUME NEW s, NEW b
  PROVE  Editor!Numeral(s, b) = Numeral(s, b)
BY DEF Editor!Numeral, Numeral, Editor!FoldLeft, FoldLeft,
       Editor!MapThenFoldSet, MapThenFoldSet, Editor!Digit, Digit, Editor!ISDIGIT, ISDIGIT,
       Editor!ISUPPER, ISUPPER, Editor!ISLOWER, ISLOWER, Editor!ZERO, ZERO, Editor!Max, Max

LEMMA SameLeading ==
  ASSUME NEW s, NEW b
  PROVE  Editor!Leading(s, b) = Leading(s, b)
BY DEF Editor!Leading, Leading, Editor!TakeWhile, TakeWhile, Editor!FirstNot, FirstNot,
       Editor!SelectInSeq, SelectInSeq, Editor!Max, Max, Editor!Min, Min,
       Editor!Digit, Digit, Editor!ISDIGIT, ISDIGIT, Editor!ISUPPER, ISUPPER,
       Editor!ISLOWER, ISLOWER, Editor!ZERO, ZERO

LEMMA SameAfterSpace ==
  ASSUME NEW s
  PROVE  Editor!AfterSpace(s) = AfterSpace(s)
BY DEF Editor!AfterSpace, AfterSpace, Editor!DropWhile, DropWhile, Editor!FirstNot, FirstNot,
       Editor!SelectInSeq, SelectInSeq, Editor!Max, Max, Editor!Min, Min,
       Editor!ISSPACE, ISSPACE, Editor!SPACE, SPACE

LEMMA SameNumber ==
  ASSUME NEW s
  PROVE  Editor!Number(s) = Value(s, 16, ULONG_MAX)
<1>1. Editor!Value(s, 16, ULONG_MAX) = Value(s, 16, ULONG_MAX)
  BY SameAfterSpace, SameLeading, SamePrefix, SameNumeral
     DEF Editor!Value, Value, Editor!MINUS, MINUS, Editor!PLUS, PLUS, Editor!ZERO, ZERO
<1> QED BY <1>1 DEF Editor!Number

-----------------------------------------------------------------------------
(* The replies among the console calls.                                    *)

IsReplies(o, n, f) ==
  f = [k \in 0 .. n |->
         IF k = 0 THEN <<>>
         ELSE IF o[k].op \in Formats THEN Append(f[k - 1], o[k]) ELSE f[k - 1]]

LEMMA RepliesExist ==
  ASSUME NEW o, NEW n \in Nat
  PROVE  \E f : IsReplies(o, n, f)
<1> DEFINE S == {x \in Nat : \E f : IsReplies(o, x, f)}
<1>1. 0 \in S
  <2> DEFINE f == [k \in 0 .. 0 |-> <<>>]
  <2>1. IsReplies(o, 0, f)
    BY DEF IsReplies
  <2> HIDE DEF f
  <2> QED BY <2>1
<1>2. ASSUME NEW x \in Nat, x \in S PROVE x + 1 \in S
  <2>1. PICK f : IsReplies(o, x, f)
    BY <1>2
  <2> DEFINE last == IF o[x + 1].op \in Formats THEN Append(f[x], o[x + 1]) ELSE f[x]
             g == [k \in 0 .. x + 1 |-> IF k = x + 1 THEN last ELSE f[k]]
  <2>2. \A k \in 0 .. x : f[k] = IF k = 0 THEN <<>>
                                 ELSE IF o[k].op \in Formats THEN Append(f[k - 1], o[k])
                                 ELSE f[k - 1]
    BY <2>1 DEF IsReplies
  <2>3. \A k \in 0 .. x + 1 : k # x + 1 => k \in 0 .. x /\ g[k] = f[k]
    OBVIOUS
  <2>4. g[x + 1] = last /\ x + 1 # 0 /\ (x + 1) - 1 = x /\ x \in 0 .. x + 1 /\ x # x + 1
    OBVIOUS
  <2>5. g[x] = f[x]
    BY <2>3, <2>4
  <2>6. ASSUME NEW k \in 0 .. x + 1
        PROVE  g[k] = IF k = 0 THEN <<>>
                      ELSE IF o[k].op \in Formats THEN Append(g[k - 1], o[k])
                      ELSE g[k - 1]
    <3> HIDE DEF g
    <3>1. CASE k = x + 1
      BY <2>4, <2>5, <3>1
    <3>2. CASE k # x + 1
      <4>1. k \in 0 .. x /\ g[k] = f[k]
        BY <2>3, <3>2
      <4>2. k # 0 => k - 1 \in 0 .. x + 1 /\ k - 1 # x + 1
        BY <4>1
      <4>3. k # 0 => g[k - 1] = f[k - 1]
        BY <2>3, <4>2
      <4> QED BY <2>2, <4>1, <4>3
    <3> QED BY <3>1, <3>2
  <2>7. g = [k \in 0 .. x + 1 |-> g[k]]
    OBVIOUS
  <2> HIDE DEF g
  <2>8. IsReplies(o, x + 1, g)
    BY <2>6, <2>7 DEF IsReplies
  <2> QED BY <2>8
<1> HIDE DEF S
<1>3. Nat \subseteq S
  BY <1>1, <1>2, Induction
<1> QED BY <1>3 DEF S

LEMMA RepliesAre ==
  ASSUME NEW o, Len(o) \in Nat
  PROVE  \E f : IsReplies(o, Len(o), f) /\ Replies(o) = f[Len(o)]
<1> DEFINE f == CHOOSE g : IsReplies(o, Len(o), g)
<1>1. IsReplies(o, Len(o), f)
  BY RepliesExist
<1>2. Replies(o) = f[Len(o)]
  BY DEF Replies, IsReplies
<1> HIDE DEF f
<1> QED BY <1>1, <1>2

LEMMA ReplyStep ==
  ASSUME NEW o, NEW n \in Nat, NEW f, IsReplies(o, n, f)
  PROVE  /\ f[0] = <<>>
         /\ \A k \in Nat : k < n =>
              f[k + 1] = IF o[k + 1].op \in Formats THEN Append(f[k], o[k + 1]) ELSE f[k]
<1>1. \A k \in 0 .. n : f[k] = IF k = 0 THEN <<>>
                               ELSE IF o[k].op \in Formats THEN Append(f[k - 1], o[k])
                               ELSE f[k - 1]
  BY DEF IsReplies
<1>2. f[0] = <<>>
  BY <1>1
<1>3. ASSUME NEW k \in Nat, k < n
      PROVE  f[k + 1] = IF o[k + 1].op \in Formats THEN Append(f[k], o[k + 1]) ELSE f[k]
  <2>1. k + 1 \in 0 .. n /\ k + 1 # 0 /\ (k + 1) - 1 = k
    BY <1>3
  <2> QED BY <1>1, <2>1
<1> QED BY <1>2, <1>3

\* Calls without a printf, and calls with one.
LEMMA NoReply ==
  ASSUME NEW o, Len(o) \in Nat, \A k \in 1 .. Len(o) : o[k].op \notin Formats
  PROVE  Replies(o) = <<>>
<1>1. PICK f : IsReplies(o, Len(o), f) /\ Replies(o) = f[Len(o)]
  BY RepliesAre
<1> DEFINE S == {x \in Nat : x <= Len(o) => f[x] = <<>>}
<1>2. 0 \in S
  BY <1>1, ReplyStep
<1>3. ASSUME NEW x \in Nat, x \in S PROVE x + 1 \in S
  <2>1. x + 1 <= Len(o) => x < Len(o) /\ x <= Len(o) /\ x + 1 \in 1 .. Len(o)
    BY <1>3
  <2>2. \A k \in Nat : k < Len(o) =>
          f[k + 1] = IF o[k + 1].op \in Formats THEN Append(f[k], o[k + 1]) ELSE f[k]
    BY <1>1, ReplyStep
  <2>3. x + 1 <= Len(o) => f[x + 1] = f[x] /\ f[x] = <<>>
    BY <1>3, <2>1, <2>2
  <2> QED BY <2>3
<1> HIDE DEF S
<1>4. Nat \subseteq S
  BY <1>2, <1>3, Induction
<1> QED BY <1>1, <1>4 DEF S

LEMMA OneReply ==
  ASSUME NEW a, NEW b, NEW p, NEW c, NEW d, NEW o, o = <<a, b, p, c, d>>,
         a.op \notin Formats, b.op \notin Formats, c.op \notin Formats, d.op \notin Formats,
         p.op \in Formats
  PROVE  Replies(o) = <<p>>
<1>1. Len(o) = 5 /\ o[1] = a /\ o[2] = b /\ o[3] = p /\ o[4] = c /\ o[5] = d
  OBVIOUS
<1>2. PICK f : IsReplies(o, Len(o), f) /\ Replies(o) = f[Len(o)]
  BY <1>1, RepliesAre
<1>3. /\ f[0] = <<>>
      /\ \A k \in Nat : k < 5 =>
           f[k + 1] = IF o[k + 1].op \in Formats THEN Append(f[k], o[k + 1]) ELSE f[k]
  BY <1>1, <1>2, ReplyStep
<1>4. f[1] = <<>>
  BY <1>1, <1>3
<1>5. f[2] = <<>>
  <2>1. f[1 + 1] = IF o[1 + 1].op \in Formats THEN Append(f[1], o[1 + 1]) ELSE f[1]
    BY <1>3
  <2> QED BY <1>1, <1>4, <2>1
<1>6. f[3] = <<p>>
  <2>1. f[2 + 1] = IF o[2 + 1].op \in Formats THEN Append(f[2], o[2 + 1]) ELSE f[2]
    BY <1>3
  <2> QED BY <1>1, <1>5, <2>1
<1>7. f[4] = <<p>>
  <2>1. f[3 + 1] = IF o[3 + 1].op \in Formats THEN Append(f[3], o[3 + 1]) ELSE f[3]
    BY <1>3
  <2> QED BY <1>1, <1>6, <2>1
<1>8. f[5] = <<p>>
  <2>1. f[4 + 1] = IF o[4 + 1].op \in Formats THEN Append(f[4], o[4 + 1]) ELSE f[4]
    BY <1>3
  <2> QED BY <1>1, <1>7, <2>1
<1> QED BY <1>1, <1>2, <1>8

-----------------------------------------------------------------------------
(* What a command does, in terms of the words of the line.                 *)

LEMMA StrcmpIs ==
  ASSUME NEW s \in Seq(Nat), NEW t \in Seq(Nat),
         \A i \in 1 .. Len(s) : s[i] # NUL, \A i \in 1 .. Len(t) : t[i] # NUL
  PROVE  strcmp(s, t) = 0 <=> s = t
<1> DEFINE at(u, i) == IF i <= Len(u) THEN u[i] ELSE NUL
           J == {i \in 1 .. Len(s) + 1 : at(s, i) # at(t, i) \/ at(s, i) = NUL}
           j == Min(J)
<1>0. NUL = 0 /\ Len(s) \in Nat /\ Len(t) \in Nat
  BY DEF NUL
<1>1. \A i \in Nat \ {0} : at(s, i) \in Nat /\ at(t, i) \in Nat
                           /\ (at(s, i) = NUL <=> i > Len(s)) /\ (at(t, i) = NUL <=> i > Len(t))
  BY <1>0
<1>2. strcmp(s, t) = at(s, j) - at(t, j)
  BY DEF strcmp
<1> HIDE DEF at
<1>3. Len(s) + 1 \in J
  BY <1>0, <1>1
<1>4. J \subseteq Nat \ {0}
  BY <1>0
<1>5. j \in J /\ \A y \in J : j <= y
  BY <1>3, <1>4, MinIsLeast
<1>6. j \in 1 .. Len(s) + 1 /\ (at(s, j) # at(t, j) \/ at(s, j) = NUL)
  BY <1>5
<1>7. \A i \in 1 .. Len(s) : i < j => at(s, i) = at(t, i)
  <2> TAKE i \in 1 .. Len(s)
  <2> HAVE i < j
  <2>1. i \notin J /\ i \in 1 .. Len(s) + 1
    BY <1>0, <1>4, <1>5
  <2> QED BY <2>1
<1> HIDE DEF j, J
<1>8. j \in Nat \ {0} /\ j <= Len(s) + 1
  BY <1>0, <1>6
<1>9. ASSUME s = t PROVE strcmp(s, t) = 0
  <2>1. at(s, j) = at(t, j)
    BY <1>9
  <2> QED BY <1>1, <1>2, <1>8, <2>1
<1>10. ASSUME strcmp(s, t) = 0 PROVE s = t
  <2>1. at(s, j) = at(t, j)
    BY <1>1, <1>2, <1>8, <1>10
  <2>2. j = Len(s) + 1 /\ j > Len(t)
    BY <1>0, <1>1, <1>6, <1>8, <2>1
  <2>3. \A i \in 1 .. Len(s) : at(s, i) = at(t, i) /\ i <= Len(t)
    <3> TAKE i \in 1 .. Len(s)
    <3>1. i \in Nat \ {0} /\ i < j /\ ~(i > Len(s))
      BY <1>0, <2>2
    <3>2. at(s, i) = at(t, i) /\ at(s, i) # NUL
      BY <1>1, <1>7, <3>1
    <3>3. ~(i > Len(t))
      BY <1>1, <3>1, <3>2
    <3> QED BY <1>0, <3>1, <3>2, <3>3
  <2>4. Len(s) = Len(t)
    <3>1. Len(s) # 0 => Len(s) \in 1 .. Len(s)
      BY <1>0
    <3>2. Len(s) <= Len(t)
      BY <1>0, <2>3, <3>1
    <3> QED BY <1>0, <2>2, <3>2
  <2>5. \A i \in 1 .. Len(s) : s[i] = t[i]
    BY <1>0, <2>3, <2>4 DEF at
  <2>6. s = [i \in 1 .. Len(s) |-> s[i]] /\ t = [i \in 1 .. Len(t) |-> t[i]]
    OBVIOUS
  <2> QED BY <2>4, <2>5, <2>6
<1> QED BY <1>9, <1>10

LEMMA HashIs ==
  ASSUME NEW w \in Seq(Nat), \A i \in 1 .. Len(w) : w[i] # NUL
  PROVE  /\ shell_hash(w) = "peek" <=> w = PeekWord
         /\ shell_hash(w) = "poke" <=> w = PokeWord /\ w # PeekWord
<1>1. /\ PeekWord \in Seq(Nat) /\ \A i \in 1 .. Len(PeekWord) : PeekWord[i] # NUL
      /\ PokeWord \in Seq(Nat) /\ \A i \in 1 .. Len(PokeWord) : PokeWord[i] # NUL
  BY ShellAssumption
<1>2. (strcmp(w, PeekWord) = 0 <=> w = PeekWord) /\ (strcmp(w, PokeWord) = 0 <=> w = PokeWord)
  BY <1>1, StrcmpIs
<1> QED BY <1>2 DEF shell_hash

LEMMA FirstFound ==
  ASSUME NEW L, NEW v, NEW n, NEW s, Line(L, v, n, s)
  PROVE  /\ Found(L, v, n, 0, strtok(v, 0, 0, {SPACE}))
         /\ 0 \in 0 .. n /\ Cardinality(StartsTo(s, 0)) = 0
<1>1. n \in Nat /\ L \in Nat /\ v \in [0 .. L -> Nat]
  BY LineFacts
<1>2. 0 \in 0 .. n /\ Scanned(L, v, n, v, 0)
  BY <1>1 DEF Scanned
<1>3. strtok(v, 0, 0, {SPACE}) = TokenAt(v, Skip(v, 0, {SPACE}), {SPACE})
  BY DEF strtok, Start
<1>4. StartsTo(s, 0) = {}
  <2>1. \A j \in WordStarts(s) : ~(j <= 0)
    <3>1. Len(s) \in Nat
      BY DEF Line
    <3> QED BY <3>1 DEF WordStarts
  <2> QED BY <2>1 DEF StartsTo
<1> QED BY <1>2, <1>3, <1>4, Scan, FS_EmptySet

LEMMA NextFound ==
  ASSUME NEW L, NEW v, NEW n, NEW s, Line(L, v, n, s), NEW o, NEW t, Found(L, v, n, o, t)
  PROVE  t.olds \in 0 .. n /\ Found(L, v, n, t.olds, NextToken(t))
<1>1. Scanned(L, v, n, t.m, t.olds)
  BY DEF Found
<1>2. NextToken(t) = TokenAt(t.m, Skip(t.m, t.olds, {SPACE}), {SPACE})
  BY DEF NextToken, strtok, Start
<1>3. t.olds \in 0 .. n
  BY <1>1 DEF Scanned
<1>4. Found(L, v, n, t.olds, TokenAt(t.m, Skip(t.m, t.olds, {SPACE}), {SPACE}))
  BY <1>1, Scan
<1> QED BY <1>2, <1>3, <1>4

\* After the last word there is none.
LEMMA NoneFound ==
  ASSUME NEW L, NEW v, NEW n, NEW s, Line(L, v, n, s), NEW o, NEW t, Found(L, v, n, o, t),
         t.tok = NULLPTR
  PROVE  NextToken(t).tok = NULLPTR
<1> DEFINE r == NextToken(t)
<1>1. n \in Nat /\ t.olds = n
  <2>1. ~ \E k \in Nat : WordFrom(v, n, o, t.tok, k)
    BY DEF WordFrom, NULLPTR
  <2> QED BY <2>1, LineFacts DEF Found
<1>2. Found(L, v, n, n, r)
  BY <1>1, NextFound
<1> HIDE DEF r
<1>3. ~ \E k \in Nat : WordFrom(v, n, n, r.tok, k)
  BY <1>1 DEF WordFrom
<1>4. r.tok = NULLPTR
  BY <1>2, <1>3 DEF Found
<1> QED BY <1>4 DEF r

\* A token holds no NUL.
LEMMA TokenSolid ==
  ASSUME NEW L, NEW v, NEW n, NEW s, Line(L, v, n, s), NEW o, NEW t, Found(L, v, n, o, t),
         t.tok # NULLPTR
  PROVE  \A i \in 1 .. Len(StrAt(t.m, t.tok)) : StrAt(t.m, t.tok)[i] # NUL
<1>1. PICK k \in Nat : WordFrom(v, n, o, t.tok, k) /\ strlen(t.m, t.tok) = k - t.tok
                       /\ \A i \in Nat : t.tok <= i /\ i < k => t.m[i] = v[i]
  BY DEF Found
<1>2. n \in Nat /\ \A i \in Nat : i < n => v[i] # NUL
  BY LineFacts
<1>3. t.tok \in Nat /\ t.tok < k /\ k <= n
  BY <1>1 DEF WordFrom
<1> DEFINE b == t.tok
<1>4. StrAt(t.m, b) = [i \in 1 .. k - b |-> t.m[b + i - 1]]
  BY <1>1 DEF StrAt
<1>5. Len(StrAt(t.m, b)) = k - b
  BY <1>3, <1>4
<1>6. ASSUME NEW i \in 1 .. k - b PROVE StrAt(t.m, b)[i] # NUL
  <2>1. b + i - 1 \in Nat /\ b <= b + i - 1 /\ b + i - 1 < k /\ b + i - 1 < n
    BY <1>2, <1>3
  <2> QED BY <1>1, <1>2, <1>4, <2>1
<1> QED BY <1>5, <1>6

\* r is the word after the first c, which is the d-th.
Taken(s, c, d, r) ==
  /\ r.tok = NULLPTR => Len(Words(s)) = c
  /\ r.tok # NULLPTR =>
       /\ d \in 1 .. Len(Words(s)) /\ Words(s)[d] = StrAt(r.m, r.tok)
       /\ Cardinality(StartsTo(s, r.olds)) = d
       /\ StrAt(r.m, r.tok) \in Seq(Nat)

LEMMA NextTaken ==
  ASSUME NEW L, NEW v, NEW n, NEW s, Line(L, v, n, s), NEW o \in 0 .. n,
         NEW c, Cardinality(StartsTo(s, o)) = c, NEW d, d = c + 1,
         NEW r, Found(L, v, n, o, r)
  PROVE  Taken(s, c, d, r)
BY NextWord DEF Taken

\* The editor's answer p to the line l and its memory q afterwards.
Answered(l, r, p, q) ==
  LET w == Words(l)
      n == Len(w)
      num(x) == Value(x, 16, ULONG_MAX)
  IN  \/ n = 0 /\ q = r
      \/ n = 1 /\ w[1] = PeekWord /\ p = Printf("usage peek", <<>>) /\ q = r
      \/ /\ n > 1 /\ w[1] = PeekWord /\ q = r
         /\ \E b \in 0 .. BYTE - 1 :
              (num(w[2]) \in Addr => b = r[num(w[2])]) /\ p = Printf("peek", <<num(w[2]), b>>)
      \/ n \in {1, 2} /\ w[1] = PokeWord /\ p = Printf("usage poke", <<>>) /\ q = r
      \/ /\ n > 2 /\ w[1] = PokeWord /\ p = Printf("poke", <<num(w[2]), num(w[3])>>)
         /\ q = [a \in Addr |-> IF a = num(w[2]) THEN num(w[3]) % BYTE ELSE r[a]]
      \/ n > 0 /\ w[1] \notin {PeekWord, PokeWord} /\ p = Printf("unknown", w[1]) /\ q = r

LEMMA CommandRuns ==
  ASSUME NEW L, NEW v, NEW n, NEW s, Line(L, v, n, s), NEW r \in Bytes, NEW e \in Env
  PROVE  /\ Answered(s, r, Command(v, r, e).print, Command(v, r, e).ram)
         /\ Command(v, r, e).print.op \in Formats
<1> DEFINE w == Words(s)
           t1 == strtok(v, 0, 0, {SPACE})
           t2 == NextToken(t1)
           t3 == NextToken(t2)
           c == Command(v, r, e)
           num(x) == Value(x, 16, ULONG_MAX)
           word == IF t1.tok = NULLPTR THEN e.null ELSE StrAt(t1.m, t1.tok)
<1>1. Found(L, v, n, 0, t1) /\ 0 \in 0 .. n /\ Cardinality(StartsTo(s, 0)) = 0
  BY FirstFound
<1>2. t1.olds \in 0 .. n /\ Found(L, v, n, t1.olds, t2)
  BY <1>1, NextFound
<1>3. t2.olds \in 0 .. n /\ Found(L, v, n, t2.olds, t3)
  BY <1>2, NextFound
<1>4. c = CASE shell_hash(word) = "peek" -> peek(t2, r, e)
            [] shell_hash(word) = "poke" -> poke(t2, r)
            [] OTHER -> Result(t1, Printf("unknown", word), r)
  BY DEF Command, Dispatch
<1>5. /\ t2.tok = NULLPTR => poke(t2, r) = Result(t2, Printf("usage poke", <<>>), r)
      /\ t2.tok # NULLPTR => poke(t2, r) = poke_value(Number(t2), t3, r)
  BY DEF poke
<1>6. t1.tok = NULLPTR => t2.tok = NULLPTR
  BY <1>1, NoneFound
<1> HIDE DEF c, t1, t2, t3, word
<1>7. c.print.op \in Formats
  <2>1. c = peek(t2, r, e) \/ c = poke(t2, r) \/ c = Result(t1, Printf("unknown", word), r)
    BY <1>4
  <2>2. peek(t2, r, e).print.op \in Formats
    BY DEF peek, Result, Printf, Formats
  <2>3. poke(t2, r).print.op \in Formats
    <3>1. Result(t2, Printf("usage poke", <<>>), r).print.op \in Formats
      BY DEF Result, Printf, Formats
    <3>2. poke_value(Number(t2), t3, r).print.op \in Formats
      BY DEF poke_value, Result, Printf, Formats
    <3> QED BY <1>5, <3>1, <3>2
  <2>4. Result(t1, Printf("unknown", word), r).print.op \in Formats
    BY DEF Result, Printf, Formats
  <2> QED BY <2>1, <2>2, <2>3, <2>4
<1>8. CASE t1.tok = NULLPTR
  <2>1. Len(w) = 0
    BY <1>1, <1>8, NextWord
  <2>2. c.ram = r
    <3>1. c = peek(t2, r, e) \/ c = poke(t2, r) \/ c = Result(t1, Printf("unknown", word), r)
      BY <1>4
    <3>2. peek(t2, r, e).ram = r
      BY <1>6, <1>8 DEF peek, Result
    <3>3. poke(t2, r).ram = r
      <4>1. poke(t2, r) = Result(t2, Printf("usage poke", <<>>), r)
        BY <1>5, <1>6, <1>8
      <4>2. Result(t2, Printf("usage poke", <<>>), r).ram = r
        BY DEF Result
      <4> QED BY <4>1, <4>2
    <3> QED BY <3>1, <3>2, <3>3 DEF Result
  <2> QED BY <1>7, <2>1, <2>2 DEF Answered, c
<1>9. CASE t1.tok # NULLPTR
  <2>1. /\ 0 + 1 \in 1 .. Len(w) /\ w[0 + 1] = StrAt(t1.m, t1.tok)
        /\ Cardinality(StartsTo(s, t1.olds)) = 0 + 1
        /\ StrAt(t1.m, t1.tok) \in Seq(Nat)
    BY <1>1, <1>9, NextWord
  <2>a. Len(w) \in Nat
    BY WordsIs DEF Line
  <2>2. Len(w) > 0 /\ w[1] = word /\ word \in Seq(Nat) /\ Cardinality(StartsTo(s, t1.olds)) = 1
    BY <1>9, <2>1, <2>a DEF word
  <2>3. \A i \in 1 .. Len(word) : word[i] # NUL
    BY <1>1, <1>9, TokenSolid DEF word
  <2> HIDE DEF w
  <2>4. /\ shell_hash(word) = "peek" <=> word = PeekWord
        /\ shell_hash(word) = "poke" <=> word = PokeWord /\ word # PeekWord
    BY <2>2, <2>3, HashIs
  <2>5. /\ t2.tok = NULLPTR => Len(w) = 1
        /\ t2.tok # NULLPTR =>
             /\ Len(w) > 1 /\ w[2] = StrAt(t2.m, t2.tok) /\ w[2] \in Seq(Nat)
             /\ Cardinality(StartsTo(s, t2.olds)) = 2
    <3>1. Taken(s, 1, 2, t2)
      <4>1. 2 = 1 + 1
        OBVIOUS
      <4> QED BY <1>2, <2>2, <4>1, NextTaken
    <3> QED BY <2>a, <3>1 DEF w, Taken
  <2>6. t2.tok # NULLPTR => Number(t2) = num(w[2])
    BY <2>5, StrtoulIs, ShellAssumption DEF Number
  <2>7. t2.tok # NULLPTR =>
          /\ t3.tok = NULLPTR => Len(w) = 2
          /\ t3.tok # NULLPTR => Len(w) > 2 /\ Number(t3) = num(w[3])
    <3> SUFFICES ASSUME t2.tok # NULLPTR
                 PROVE  /\ t3.tok = NULLPTR => Len(w) = 2
                        /\ t3.tok # NULLPTR => Len(w) > 2 /\ Number(t3) = num(w[3])
      OBVIOUS
    <3>1. Taken(s, 2, 3, t3)
      <4>1. 3 = 2 + 1
        OBVIOUS
      <4> QED BY <1>3, <2>5, <4>1, NextTaken
    <3>2. t3.tok # NULLPTR => Number(t3) = Value(StrAt(t3.m, t3.tok), 16, ULONG_MAX)
      BY <3>1, StrtoulIs, Sizes DEF Number, Taken
    <3> QED BY <2>a, <3>1, <3>2 DEF w, Taken
  <2>8. CASE word = PeekWord
    <3>1. c = peek(t2, r, e)
      BY <1>4, <2>4, <2>8
    <3>2. CASE t2.tok = NULLPTR
      <4>1. c.print = Printf("usage peek", <<>>) /\ c.ram = r
        BY <3>1, <3>2 DEF peek, Result
      <4> QED BY <1>7, <2>2, <2>5, <2>8, <3>2, <4>1 DEF Answered, w, c
    <3>3. CASE t2.tok # NULLPTR
      <4> DEFINE a == num(w[2])
                 b == IF a \in Addr THEN r[a] ELSE e.bus
      <4>1. c.print = Printf("peek", <<a, b>>) /\ c.ram = r
        BY <2>6, <3>1, <3>3 DEF peek, Result
      <4>2. b \in 0 .. BYTE - 1
        BY ShellAssumption DEF Bytes
      <4>3. a \in Addr => b = r[a]
        OBVIOUS
      <4> HIDE DEF b
      <4>4. \E x \in 0 .. BYTE - 1 : (a \in Addr => x = r[a]) /\ c.print = Printf("peek", <<a, x>>)
        BY <4>1, <4>2, <4>3
      <4> QED BY <1>7, <2>2, <2>5, <2>8, <3>3, <4>1, <4>4 DEF Answered, w, c
    <3> QED BY <3>2, <3>3
  <2>9. CASE word # PeekWord /\ word = PokeWord
    <3>1. c = poke(t2, r)
      BY <1>4, <2>4, <2>9
    <3>2. CASE t2.tok = NULLPTR
      <4>0. c = Result(t2, Printf("usage poke", <<>>), r)
        BY <1>5, <3>1, <3>2
      <4>1. c.print = Printf("usage poke", <<>>) /\ c.ram = r
        BY <4>0 DEF Result
      <4> QED BY <1>7, <2>2, <2>5, <2>9, <3>2, <4>1 DEF Answered, w, c
    <3>3. CASE t2.tok # NULLPTR /\ t3.tok = NULLPTR
      <4>0. c = Result(t3, Printf("usage poke", <<>>), r)
        <5>1. c = poke_value(Number(t2), t3, r)
          BY <1>5, <3>1, <3>3
        <5> QED BY <3>3, <5>1 DEF poke_value
      <4>1. c.print = Printf("usage poke", <<>>) /\ c.ram = r
        BY <4>0 DEF Result
      <4> QED BY <1>7, <2>2, <2>7, <2>9, <3>3, <4>1 DEF Answered, w, c
    <3>4. CASE t2.tok # NULLPTR /\ t3.tok # NULLPTR
      <4>1. /\ c.print = Printf("poke", <<num(w[2]), num(w[3])>>)
            /\ c.ram = [x \in Addr |-> IF x = num(w[2]) THEN num(w[3]) % BYTE ELSE r[x]]
        <5>1. c = poke_value(Number(t2), t3, r)
          BY <1>5, <3>1, <3>4
        <5>2. Number(t2) = num(w[2]) /\ Number(t3) = num(w[3])
          BY <2>6, <2>7, <3>4
        <5>3. c = Result(t3, Printf("poke", <<num(w[2]), num(w[3])>>),
                         [x \in Addr |-> IF x = num(w[2]) THEN num(w[3]) % BYTE ELSE r[x]])
          BY <3>4, <5>1, <5>2 DEF poke_value
        <5> QED BY <5>3 DEF Result
      <4> QED BY <1>7, <2>2, <2>7, <2>9, <3>4, <4>1 DEF Answered, w, c
    <3> QED BY <3>2, <3>3, <3>4
  <2>10. CASE word # PeekWord /\ word # PokeWord
    <3>1. c.print = Printf("unknown", w[1]) /\ c.ram = r
      BY <1>4, <2>2, <2>4, <2>10 DEF Result
    <3> QED BY <1>7, <2>2, <2>10, <3>1 DEF Answered, w, c
  <2> QED BY <2>8, <2>9, <2>10
<1> QED BY <1>8, <1>9

-----------------------------------------------------------------------------
(* The line of the editor is the line buffer up to its length, as long as  *)
(* no arrow key has put a NUL into it or shortened it.                     *)

Solid(s) == \A i \in Idx : i < s.ptr => s.buf[i] # NUL

\* The line of the statics s.
Shown(s) == Text(s.buf, <<>>)

LEMMA ShownIs ==
  ASSUME NEW s \in Statics, Clear(s), Solid(s)
  PROVE  /\ s.ptr \in Nat /\ s.ptr < N
         /\ Shown(s) = [j \in 1 .. s.ptr |-> s.buf[j - 1]]
         /\ Len(Shown(s)) = s.ptr
         /\ \A j \in 1 .. s.ptr : s.buf[j - 1] \in Char \ {NUL}
<1> DEFINE n == s.ptr
           m == View(s.buf, <<>>)
<1>1. s.buf \in Buffer /\ n \in Idx
  BY DEF Statics
<1>2. n \in Nat /\ n < N /\ N \in Nat
  BY <1>1, Sizes DEF Idx
<1>3. <<>> \in Seq(Char \ {NUL}) /\ Len(<<>>) = 0 /\ N + 0 = N
  BY <1>2
<1>4. String(N, m) /\ \A i \in Idx : i \in 0 .. N /\ m[i] = s.buf[i]
  BY <1>1, <1>3, ViewString
<1> HIDE DEF m
<1>5. \A i \in Nat : i < n => i \in Idx /\ m[i] = s.buf[i] /\ s.buf[i] # NUL /\ s.buf[i] \in Char
  <2> TAKE i \in Nat
  <2> HAVE i < n
  <2>1. i \in Idx
    BY <1>2 DEF Idx
  <2> QED BY <1>1, <1>4, <2>1 DEF Solid, Buffer
<1>6. m[n] = NUL
  <2>1. s.buf[n] = NUL
    BY <1>1, <1>2 DEF Clear, TailClear
  <2> QED BY <1>1, <1>4, <2>1
<1>7. strlen(m, 0) = n - 0
  BY <1>2, <1>4, <1>5, <1>6, StringTo
<1>8. StrAt(m, 0) = [k \in 1 .. strlen(m, 0) |-> m[0 + k - 1]]
  BY DEF StrAt
<1>9. \A k \in 1 .. n : 0 + k - 1 = k - 1 /\ k - 1 \in Nat /\ k - 1 < n
  BY <1>2
<1>10. StrAt(m, 0) = [k \in 1 .. n |-> s.buf[k - 1]]
  <2>1. n - 0 = n /\ \A k \in 1 .. n : m[0 + k - 1] = s.buf[k - 1]
    BY <1>2, <1>5, <1>9
  <2> QED BY <1>7, <1>8, <2>1
<1>11. Shown(s) = [k \in 1 .. n |-> s.buf[k - 1]]
  BY <1>10 DEF Shown, Text, m
<1>12. \A k \in 1 .. n : s.buf[k - 1] \in Char \ {NUL}
  BY <1>5, <1>9
<1> HIDE DEF n
<1>13. Len(Shown(s)) = n
  BY <1>2, <1>11
<1> QED BY <1>2, <1>11, <1>12, <1>13 DEF n

LEMMA BufferLine ==
  ASSUME NEW s \in Statics, Clear(s), Solid(s), NEW past \in Seq(Char \ {NUL})
  PROVE  Line(N + Len(past), View(s.buf, past), s.ptr, Shown(s))
<1> DEFINE n == s.ptr
           L == N + Len(past)
           v == View(s.buf, past)
           l == Shown(s)
<1>1. s.buf \in Buffer /\ n \in Idx
  BY DEF Statics
<1>2. n \in Nat /\ n < N /\ N \in Nat /\ Len(past) \in Nat
  BY <1>1, Sizes DEF Idx
<1>3. String(L, v) /\ \A i \in Idx : i \in 0 .. L /\ v[i] = s.buf[i]
  BY <1>1, ViewString
<1>4. /\ l = [j \in 1 .. n |-> s.buf[j - 1]] /\ Len(l) = n
      /\ \A j \in 1 .. n : s.buf[j - 1] \in Char \ {NUL}
  BY ShownIs
<1> HIDE DEF l, v
<1>5. v[n] = NUL
  <2>1. s.buf[n] = NUL
    BY <1>1, <1>2 DEF Clear, TailClear
  <2> QED BY <1>1, <1>3, <2>1
<1>6. \A j \in 1 .. n : l[j] = v[j - 1] /\ l[j] # NUL /\ l[j] \in Nat
  <2> TAKE j \in 1 .. n
  <2>1. j - 1 \in Idx
    BY <1>2 DEF Idx
  <2> QED BY <1>3, <1>4, <2>1, Sizes
<1>7. l \in Seq(Nat)
  <2>1. l = [j \in 1 .. n |-> l[j]]
    BY <1>4
  <2>2. [j \in 1 .. n |-> l[j]] \in Seq(Nat)
    BY <1>2, <1>6
  <2> QED BY <2>1, <2>2
<1>8. n \in 0 .. L
  BY <1>2
<1> HIDE DEF n, L
<1>9. Line(L, v, n, l)
  BY <1>3, <1>4, <1>5, <1>6, <1>7, <1>8 DEF Line
<1> QED BY <1>9 DEF L, v, n, l

\* A sequence is the function of its elements.
LEMMA AsFunction ==
  ASSUME NEW S, NEW n \in Nat, NEW z \in Seq(S), Len(z) = n
  PROVE  z = [j \in 1 .. n |-> z[j]]
OBVIOUS

\* Typing and erasing keep the line solid and do to it what the editor does.
LEMMA TypeShown ==
  ASSUME NEW s \in Statics, Clear(s), Solid(s), s.ptr # N - 1, NEW c \in Char, c # NUL
  PROVE  Solid(type(s, c)) /\ Shown(type(s, c)) = Append(Shown(s), c)
<1> DEFINE t == type(s, c)
           n == s.ptr
           g == Inc(s.ptr, N)
           buf == [s.buf EXCEPT ![s.ptr] = c]
<1>1. s.buf \in Buffer /\ n \in Idx /\ s.h \in Slot
  BY DEF Statics
<1>2. n \in Nat /\ n < N - 1 /\ g = n + 1 /\ N \in Nat
  BY <1>1, Sizes DEF Idx, Inc
<1>3. t \in Statics /\ Clear(t)
  BY TypeCharOK
<1>4. t.buf = buf /\ t.ptr = g
  BY DEF type, Edit, Statics
<1>5. buf[n] = c /\ \A i \in Idx : i # n => buf[i] = s.buf[i]
  BY <1>1 DEF Buffer
<1> HIDE DEF buf, t
<1>6. Solid(t)
  <2> SUFFICES ASSUME NEW i \in Idx, i < n + 1 PROVE buf[i] # NUL
    BY <1>2, <1>4 DEF Solid
  <2>1. i = n \/ i < n
    BY <1>2 DEF Idx
  <2> QED BY <1>2, <1>5, <2>1 DEF Solid
<1>7. Shown(s) = [j \in 1 .. n |-> s.buf[j - 1]] /\ Len(Shown(s)) = n
      /\ \A j \in 1 .. n : s.buf[j - 1] \in Char \ {NUL}
  BY ShownIs
<1>8. Shown(t) = [j \in 1 .. n + 1 |-> buf[j - 1]]
  <2>1. Shown(t) = [j \in 1 .. t.ptr |-> t.buf[j - 1]]
    BY <1>3, <1>6, ShownIs
  <2> QED BY <1>2, <1>4, <2>1
<1>9. Append(Shown(s), c) = [j \in 1 .. n + 1 |-> buf[j - 1]]
  <2> DEFINE l == Shown(s)
  <2>1. l \in Seq(Char)
    BY <1>2, <1>7
  <2> HIDE DEF l
  <2>4. Len(l) = n
    BY <1>7 DEF l
  <2>2. /\ Append(l, c) = [j \in 1 .. n + 1 |-> Append(l, c)[j]]
        /\ \A j \in 1 .. n + 1 : Append(l, c)[j] = IF j <= n THEN l[j] ELSE c
    <3>1. Append(l, c) \in Seq(Char) /\ Len(Append(l, c)) = n + 1
      BY <2>1, <2>4
    <3>2. \A j \in 1 .. n + 1 : j <= n => j \in 1 .. Len(l)
      BY <1>2, <2>4
    <3>3. \A j \in 1 .. n + 1 : ~(j <= n) => j = Len(l) + 1
      BY <1>2, <2>4
    <3>4. ASSUME NEW j \in 1 .. n + 1 PROVE Append(l, c)[j] = IF j <= n THEN l[j] ELSE c
      BY <2>1, <3>2, <3>3
    <3>5. n + 1 \in Nat
      BY <1>2
    <3>6. Append(l, c) = [j \in 1 .. n + 1 |-> Append(l, c)[j]]
      BY <3>1, <3>5, AsFunction
    <3> QED BY <3>4, <3>6
  <2>3. \A j \in 1 .. n + 1 : (IF j <= n THEN l[j] ELSE c) = buf[j - 1]
    <3> TAKE j \in 1 .. n + 1
    <3>1. CASE j <= n
      <4>1. j \in 1 .. n /\ j - 1 \in Idx /\ j - 1 # n
        BY <1>2, <3>1 DEF Idx
      <4> QED BY <1>5, <1>7, <3>1, <4>1 DEF l
    <3>2. CASE ~(j <= n)
      <4>1. j - 1 = n
        BY <1>2, <3>2
      <4> QED BY <1>5, <3>2, <4>1
    <3> QED BY <3>1, <3>2
  <2> QED BY <2>2, <2>3, <2>4 DEF l
<1> QED BY <1>6, <1>8, <1>9 DEF t

LEMMA EraseShown ==
  ASSUME NEW s \in Statics, Clear(s), Solid(s)
  PROVE  /\ Solid(erase(s))
         /\ Shown(erase(s)) = IF Shown(s) = <<>> THEN <<>> ELSE Editor!Front(Shown(s))
<1> DEFINE t == erase(s)
           n == s.ptr
           p == IF n > 0 THEN n - 1 ELSE n
           buf == [s.buf EXCEPT ![p] = NUL]
           l == Shown(s)
<1>1. s.buf \in Buffer /\ n \in Idx /\ s.h \in Slot
  BY DEF Statics
<1>2. n \in Nat /\ n < N /\ N \in Nat /\ p \in Idx /\ p <= n
  BY <1>1, Sizes DEF Idx
<1>3. t \in Statics /\ Clear(t)
  BY EraseOK
<1>4. t.buf = buf /\ t.ptr = p
  BY DEF erase, Edit, Statics
<1>5. \A i \in Idx : i # p => buf[i] = s.buf[i]
  BY <1>1 DEF Buffer
<1> HIDE DEF buf, t
<1>6. Solid(t)
  <2> SUFFICES ASSUME NEW i \in Idx, i < p PROVE buf[i] # NUL
    BY <1>4 DEF Solid
  <2>1. i # p /\ i < n
    BY <1>2 DEF Idx
  <2> QED BY <1>5, <2>1 DEF Solid
<1>7. l = [j \in 1 .. n |-> s.buf[j - 1]] /\ Len(l) = n
      /\ \A j \in 1 .. n : s.buf[j - 1] \in Char \ {NUL}
  BY ShownIs
<1>8. Shown(t) = [j \in 1 .. p |-> buf[j - 1]]
  <2>1. Shown(t) = [j \in 1 .. t.ptr |-> t.buf[j - 1]]
    BY <1>3, <1>6, ShownIs
  <2> QED BY <1>4, <2>1
<1> HIDE DEF l
<1>9. Shown(t) = [j \in 1 .. p |-> l[j]]
  <2>1. \A j \in 1 .. p : buf[j - 1] = l[j]
    <3> TAKE j \in 1 .. p
    <3>1. p \in Nat /\ j \in 1 .. n /\ j - 1 \in Idx /\ j - 1 # p
      BY <1>2 DEF Idx
    <3> QED BY <1>5, <1>7, <3>1
  <2> QED BY <1>8, <2>1
<1>10. CASE n = 0
  <2>1. p = 0 /\ 1 .. 0 = {}
    BY <1>10
  <2>2. l = <<>> /\ Shown(t) = <<>>
    BY <1>7, <1>9, <1>10, <2>1
  <2> QED BY <1>6, <2>2 DEF l, t
<1>11. CASE n # 0
  <2>1. l # <<>> /\ p = n - 1 /\ p \in Nat
    BY <1>2, <1>7, <1>11
  <2>2. l \in Seq(Char)
    BY <1>2, <1>7
  <2> HIDE DEF p
  <2>3. Editor!Front(l) = SubSeq(l, 1, p)
    BY <1>7, <2>1 DEF Editor!Front
  <2>4. SubSeq(l, 1, p) = [j \in 1 .. p |-> l[j]]
    BY <1>7, <2>1, <2>2
  <2> QED BY <1>6, <1>9, <2>1, <2>3, <2>4 DEF l, t
<1> QED BY <1>10, <1>11

\* Concatenations of tuples, for the console calls of one callback.
LEMMA Tuple2 == ASSUME NEW S, NEW z \in Seq(S), Len(z) = 2 PROVE z = <<z[1], z[2]>>
OBVIOUS
LEMMA Tuple4 == ASSUME NEW S, NEW z \in Seq(S), Len(z) = 4 PROVE z = <<z[1], z[2], z[3], z[4]>>
OBVIOUS
LEMMA Tuple5 ==
  ASSUME NEW S, NEW z \in Seq(S), Len(z) = 5 PROVE z = <<z[1], z[2], z[3], z[4], z[5]>>
OBVIOUS

LEMMA JoinTwo == ASSUME NEW a, NEW b PROVE <<a>> \o <<b>> = <<a, b>>
<1> DEFINE S == {a, b}
           z == <<a>> \o <<b>>
<1>1. <<a>> \in Seq(S) /\ <<b>> \in Seq(S)
  OBVIOUS
<1>2. z \in Seq(S) /\ Len(z) = 2 /\ z[1] = a /\ z[2] = b
  BY <1>1
<1> HIDE DEF S, z
<1>3. z = <<a, b>>
  BY <1>2, Tuple2
<1> QED BY <1>3 DEF z

LEMMA Join == ASSUME NEW a, NEW b, NEW c, NEW d PROVE <<a, b, c>> \o <<d>> = <<a, b, c, d>>
<1> DEFINE S == {a, b, c, d}
           z == <<a, b, c>> \o <<d>>
<1>1. <<a, b, c>> \in Seq(S) /\ <<d>> \in Seq(S)
  OBVIOUS
<1>2. z \in Seq(S) /\ Len(z) = 4 /\ z[1] = a /\ z[2] = b /\ z[3] = c /\ z[4] = d
  BY <1>1
<1> HIDE DEF S, z
<1>3. z = <<a, b, c, d>>
  BY <1>2, Tuple4
<1> QED BY <1>3 DEF z

LEMMA JoinLast ==
  ASSUME NEW S, NEW y \in Seq(S), NEW w \in Seq(S)
  PROVE  Len(y) = 4 /\ Len(w) = 1 => y \o w = <<y[1], y[2], y[3], y[4], w[1]>>
<1> DEFINE z == y \o w
<1>1. z \in Seq(S) /\ Len(z) = Len(y) + Len(w)
  OBVIOUS
<1>2. \A k \in 1 .. Len(y) : z[k] = y[k]
  OBVIOUS
<1>3. \A k \in 1 .. Len(w) : z[Len(y) + k] = w[k]
  OBVIOUS
<1> HIDE DEF z
<1>4. SUFFICES ASSUME Len(y) = 4, Len(w) = 1 PROVE z = <<y[1], y[2], y[3], y[4], w[1]>>
  BY DEF z
<1>5. Len(z) = 5 /\ z[1] = y[1] /\ z[2] = y[2] /\ z[3] = y[3] /\ z[4] = y[4]
  BY <1>1, <1>2, <1>4
<1>6. z[4 + 1] = w[1]
  BY <1>3, <1>4
<1>7. z = <<z[1], z[2], z[3], z[4], z[5]>>
  BY <1>1, <1>5, Tuple5
<1>8. z[5] = w[1]
  BY <1>6
<1> QED BY <1>5, <1>7, <1>8

LEMMA JoinFrame ==
  ASSUME NEW a, NEW b, NEW c, NEW d, NEW e
  PROVE  <<a, b>> \o <<c, d>> \o <<e>> = <<a, b, c, d, e>>
<1> DEFINE S == {a, b, c, d, e}
           y == <<a, b>> \o <<c, d>>
           w == <<e>>
<1>1. <<a, b>> \in Seq(S) /\ <<c, d>> \in Seq(S)
  OBVIOUS
<1>2. w \in Seq(S) /\ Len(w) = 1 /\ w[1] = e
  OBVIOUS
<1>3. y \in Seq(S) /\ Len(y) = 4 /\ y[1] = a /\ y[2] = b /\ y[3] = c /\ y[4] = d
  BY <1>1
<1> HIDE DEF S, y, w
<1>4. y \o w = <<y[1], y[2], y[3], y[4], w[1]>>
  BY <1>2, <1>3, JoinLast
<1> QED BY <1>2, <1>3, <1>4 DEF y, w

\* Entering a line prints one reply, the one its words ask for.
LEMMA EnterIs ==
  ASSUME NEW s \in Statics, Clear(s), Solid(s), NEW r \in Bytes, NEW e \in Env
  PROVE  \E p, q : /\ Answered(Shown(s), r, p, q)
                   /\ Replies(enter(s, r, e).out) = <<p>>
                   /\ enter(s, r, e).ram = q
                   /\ enter(s, r, e).sh = shell_proc(s, r, e).sh
                   /\ enter(s, r, e).sh.ptr = 0
<1> DEFINE v == View(s.buf, e.past)
           c == Command(v, r, e)
           f == shell_proc(s, r, e)
           o == <<SetposX(0), Puts(<<LF>>), c.print, Puts(<<LF>>), Puts(PROMPT)>>
<1>1. e.past \in Seq(Char \ {NUL})
  BY ShellAssumption
<1>2. Line(N + Len(e.past), v, s.ptr, Shown(s))
  BY <1>1, BufferLine
<1>3. Answered(Shown(s), r, c.print, c.ram) /\ c.print.op \in Formats
  BY <1>2, CommandRuns
<1> HIDE DEF v, c
<1>4. f.ram = c.ram /\ f.sh.ptr = 0 /\ f.out = <<c.print, Puts(<<LF>>)>>
  BY DEF shell_proc, Finish, c, v
<1> HIDE DEF f
<1>5. /\ enter(s, r, e).sh = f.sh /\ enter(s, r, e).ram = f.ram
      /\ enter(s, r, e).out = <<SetposX(0), Puts(<<LF>>)>> \o f.out \o <<Puts(PROMPT)>>
  BY DEF enter, Framed, shell_proc, Finish, f
<1>6. enter(s, r, e).out = o
  BY <1>4, <1>5, JoinFrame
<1>7. Replies(o) = <<c.print>>
  <2>1. /\ SetposX(0).op \notin Formats /\ Puts(<<LF>>).op \notin Formats
        /\ Puts(PROMPT).op \notin Formats
    BY DEF SetposX, Puts, Formats
  <2> HIDE DEF o
  <2> QED BY <1>3, <2>1, OneReply DEF o
<1> HIDE DEF o
<1> QED BY <1>3, <1>4, <1>5, <1>6, <1>7 DEF f

\* The echo prints no reply.
LEMMA EchoSilent ==
  ASSUME NEW t, NEW r, NEW st, NEW e
  PROVE  /\ Echo(t, r, st, e).sh = t /\ Echo(t, r, st, e).ram = r
         /\ Replies(Echo(t, r, st, e).out) = <<>>
<1> DEFINE o == Echo(t, r, st, e).out
           last == Puts(Text(t.buf, e.past))
<1>1. /\ SetposX(0).op \notin Formats /\ SetposX(1).op \notin Formats /\ Clrline.op \notin Formats
      /\ Puts(PROMPT).op \notin Formats /\ last.op \notin Formats
  BY DEF SetposX, Puts, Clrline, Formats
<1>2. Echo(t, r, st, e).sh = t /\ Echo(t, r, st, e).ram = r
  BY DEF Echo
<1>3. o = (IF "BCKSP" \in st THEN <<Clrline, SetposX(0), Puts(PROMPT)>> ELSE <<SetposX(1)>>)
           \o <<last>>
  BY DEF Echo
<1> HIDE DEF o, last
<1>4. CASE "BCKSP" \in st
  <2>1. o = <<Clrline, SetposX(0), Puts(PROMPT), last>>
    BY <1>3, <1>4, Join
  <2>2. Len(o) = 4 /\ o[1] = Clrline /\ o[2] = SetposX(0) /\ o[3] = Puts(PROMPT) /\ o[4] = last
    BY <2>1
  <2>3. \A k \in 1 .. 4 : k = 1 \/ k = 2 \/ k = 3 \/ k = 4
    OBVIOUS
  <2>4. \A k \in 1 .. Len(o) : o[k].op \notin Formats
    BY <1>1, <2>2, <2>3
  <2> QED BY <1>2, <2>2, <2>4, NoReply DEF o
<1>5. CASE "BCKSP" \notin st
  <2>1. o = <<SetposX(1), last>>
    BY <1>3, <1>5, JoinTwo
  <2>2. Len(o) = 2 /\ o[1] = SetposX(1) /\ o[2] = last
    BY <2>1
  <2>3. \A k \in 1 .. 2 : k = 1 \/ k = 2
    OBVIOUS
  <2>4. \A k \in 1 .. Len(o) : o[k].op \notin Formats
    BY <1>1, <2>2, <2>3
  <2> QED BY <1>2, <2>2, <2>4, NoReply DEF o
<1> QED BY <1>4, <1>5

\* As long as the promise holds, the line has no NUL before its end.
RInv ==
  /\ IInv /\ arrows \in BOOLEAN
  /\ ~overrun /\ ~arrows => Solid(sh)

\* The shell starts as the editor does.
LEMMA EditorInit == Init => RInv /\ Editor!Init
<1> SUFFICES ASSUME Init PROVE RInv /\ Editor!Init
  OBVIOUS
<1>1. IInv
  BY InitInv
<1>2. sh \in Statics /\ Clear(sh)
  BY <1>1 DEF IInv, TypeOK, StaticsOK, Init
<1>3. sh.ptr = 0
  BY DEF Init, shell_statics
<1>4. Solid(sh)
  <2>1. \A i \in Idx : ~(i < 0)
    BY Sizes DEF Idx
  <2> QED BY <1>3, <2>1 DEF Solid
<1>5. Shown(sh) = <<>>
  <2>1. Shown(sh) = [j \in 1 .. 0 |-> sh.buf[j - 1]] /\ 1 .. 0 = {}
    BY <1>2, <1>3, <1>4, ShownIs
  <2> QED BY <2>1
<1>6. Replies(out) = <<>>
  <2>1. out = <<Puts(PROMPT)>> /\ Puts(PROMPT).op \notin Formats
    BY DEF Init, Puts, Formats
  <2>2. Len(out) = 1 /\ out[1] = Puts(PROMPT)
    BY <2>1
  <2>3. \A k \in 1 .. Len(out) : out[k].op \notin Formats
    BY <2>1, <2>2
  <2> QED BY <2>2, <2>3, NoReply
<1> QED BY <1>1, <1>4, <1>5, <1>6 DEF RInv, Editor!Init, Init, Shown

\* Entering a line is what the editor does with it.
LEMMA EditorEnter ==
  ASSUME IInv, ~overrun, Solid(sh), NEW e \in Env,
         sh' = enter(sh, ram, e).sh, ram' = enter(sh, ram, e).ram, out' = enter(sh, ram, e).out
  PROVE  Solid(sh') /\ Editor!EnterLine
<1>1. sh \in Statics /\ ram \in Bytes /\ Clear(sh)
  BY DEF IInv, TypeOK, StaticsOK, Bytes
<1>2. PICK p, q : /\ Answered(Shown(sh), ram, p, q)
                  /\ Replies(enter(sh, ram, e).out) = <<p>>
                  /\ enter(sh, ram, e).ram = q
                  /\ enter(sh, ram, e).sh = shell_proc(sh, ram, e).sh
                  /\ enter(sh, ram, e).sh.ptr = 0
  BY <1>1, EnterIs
<1>3. sh' \in Statics /\ Clear(sh') /\ sh'.ptr = 0
  BY <1>1, <1>2, ProcOK
<1>4. Solid(sh')
  <2>1. \A i \in Idx : ~(i < 0)
    BY Sizes DEF Idx
  <2> QED BY <1>3, <2>1 DEF Solid
<1>5. Shown(sh') = <<>>
  <2>1. Shown(sh') = [j \in 1 .. 0 |-> sh'.buf[j - 1]] /\ 1 .. 0 = {}
    BY <1>3, <1>4, ShownIs
  <2> QED BY <2>1
<1>6. Replies(out') = <<p>> /\ ram' = q /\ Len(<<p>>) = 1
  BY <1>2
<1> DEFINE l == Shown(sh)
           w == Words(l)
           n == Len(w)
           num(x) == Value(x, 16, ULONG_MAX)
<1>7. \/ n = 0 /\ q = ram
      \/ n = 1 /\ w[1] = PeekWord /\ p = Printf("usage peek", <<>>) /\ q = ram
      \/ /\ n > 1 /\ w[1] = PeekWord /\ q = ram
         /\ \E b \in 0 .. BYTE - 1 :
              (num(w[2]) \in Addr => b = ram[num(w[2])]) /\ p = Printf("peek", <<num(w[2]), b>>)
      \/ n \in {1, 2} /\ w[1] = PokeWord /\ p = Printf("usage poke", <<>>) /\ q = ram
      \/ /\ n > 2 /\ w[1] = PokeWord /\ p = Printf("poke", <<num(w[2]), num(w[3])>>)
         /\ q = [a \in Addr |-> IF a = num(w[2]) THEN num(w[3]) % BYTE ELSE ram[a]]
      \/ n > 0 /\ w[1] \notin {PeekWord, PokeWord} /\ p = Printf("unknown", w[1]) /\ q = ram
  BY <1>2 DEF Answered
<1> HIDE DEF l, w, n
<1>8. Editor!Words(Text(sh.buf, <<>>)) = w /\ Len(w) = n
      /\ \A x : Editor!Number(x) = num(x)
  BY SameWords, SameNumber DEF w, n, l, Shown
<1>9. Text(sh'.buf, <<>>) = <<>>
  BY <1>5 DEF Shown
<1> QED BY <1>4, <1>6, <1>7, <1>8, <1>9 DEF Editor!EnterLine, Editor!Say, Printf

\* One step of the shell is a step of the editor, or none.
LEMMA EditorStep == RInv /\ [Next]_vars => RInv' /\ [Editor!Next]_Editor!vars
<1> SUFFICES ASSUME RInv, [Next]_vars PROVE RInv' /\ [Editor!Next]_Editor!vars
  OBVIOUS
<1>1. IInv /\ arrows \in BOOLEAN /\ overrun \in BOOLEAN
  BY DEF RInv, IInv, TypeOK, StaticsOK
<1>2. IInv'
  BY <1>1, StepInv
<1>3. CASE Next
  <2>1. PICK k \in Strokes, e \in Env : Call(k[1], k[2], e)
    BY <1>3 DEF Next, Enter, Erase, Up, Down, Type
  <2>2. k[1] \in Char \cup {LF}
    BY ShellAssumption
  <2> DEFINE c == k[1]
             st == k[2]
             r == kcallback(sh, ram, c, st, e)
  <2>3. /\ sh' = r.sh /\ ram' = r.ram /\ out' = r.out
        /\ overrun' = (overrun \/ Overruns(sh, c, st))
        /\ arrows' = (arrows \/ IsArrow(c, st))
    BY <2>1 DEF Call, Returns
  <2>4. arrows' \in BOOLEAN /\ overrun' \in BOOLEAN
    BY <1>1, <1>2, <2>3 DEF IsArrow, IInv, TypeOK, StaticsOK
  <2>5. CASE overrun' \/ arrows'
    BY <1>2, <2>4, <2>5 DEF RInv, Editor!Next
  <2>6. CASE ~overrun' /\ ~arrows'
    <3>1. ~overrun /\ ~arrows /\ ~Overruns(sh, c, st) /\ ~IsArrow(c, st)
      BY <1>1, <2>3, <2>6
    <3>2. Solid(sh) /\ sh \in Statics /\ Clear(sh)
      BY <1>1, <3>1 DEF RInv, IInv, TypeOK, StaticsOK
    <3> SUFFICES Solid(sh') /\ (Editor!TypeChar \/ Editor!EraseChar \/ Editor!EnterLine)
      BY <1>2, <2>4, <2>6 DEF RInv, Editor!Next
    <3>3. CASE c = LF
      <4>1. /\ sh' = enter(sh, ram, e).sh /\ ram' = enter(sh, ram, e).ram
            /\ out' = enter(sh, ram, e).out
        BY <2>3, <3>3 DEF kcallback
      <4> QED BY <1>1, <3>1, <3>2, <4>1, EditorEnter
    <3>4. CASE c # LF
      <4> DEFINE t == edit(sh, c, st, e)
      <4>1. r = Echo(t, ram, st, e)
        BY <3>4 DEF kcallback
      <4>2. sh' = t /\ ram' = ram /\ Replies(out') = <<>>
        BY <2>3, <4>1, EchoSilent
      <4>3. Shown(sh') = Text(sh'.buf, <<>>) /\ Shown(sh) = Text(sh.buf, <<>>)
        BY DEF Shown
      <4>4. CASE "BCKSP" \in st
        <5>1. t = erase(sh)
          BY <4>4 DEF edit
        <5>2. /\ Solid(t)
              /\ Shown(t) = IF Shown(sh) = <<>> THEN <<>> ELSE Editor!Front(Shown(sh))
          BY <3>2, <5>1, EraseShown
        <5> QED BY <4>2, <4>3, <5>2 DEF Editor!EraseChar
      <4>5. CASE "BCKSP" \notin st
        <5>1. c # NUL /\ "UP" \notin st /\ "DOWN" \notin st /\ sh.ptr # N - 1 /\ c \in Char
          BY <2>2, <3>1, <3>4, <4>5 DEF IsArrow, Overruns
        <5>2. t = type(sh, c)
          BY <4>5, <5>1 DEF edit
        <5>3. Solid(t) /\ Shown(t) = Append(Shown(sh), c)
          BY <3>2, <5>1, <5>2, TypeShown
        <5> QED BY <4>2, <4>3, <5>1, <5>3 DEF Editor!TypeChar
      <4> QED BY <4>4, <4>5
    <3> QED BY <3>3, <3>4
  <2> QED BY <2>4, <2>5, <2>6
<1>4. CASE UNCHANGED vars
  BY <1>2, <1>4 DEF vars, RInv, Solid, Editor!vars
<1> QED BY <1>3, <1>4

(* The shell implements the line editor (ImplementsLineEditor): as long as *)
(* the line has not filled shellbuf and no arrow key has been used, what   *)
(* shell.c:29-102 does to a buffer of bytes with strtok, strcmp and        *)
(* strtoul is what is said of a line and its words, for every size of the  *)
(* buffer and every word typed.                                            *)
THEOREM ShellIsLineEditor == Spec => ImplementsLineEditor
<1>1. Spec => Editor!Init /\ [][Editor!Next]_Editor!vars
  BY EditorInit, EditorStep, PTL DEF Spec
<1> QED BY <1>1 DEF ImplementsLineEditor, Editor!Spec
=============================================================================
