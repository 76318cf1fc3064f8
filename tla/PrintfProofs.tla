---------------------------- MODULE PrintfProofs ----------------------------
(***************************************************************************)
(* Proofs about printf's integer conversions, for every width of the C     *)
(* types, every format and every argument.                                 *)
(*                                                                         *)
(* The division is exact whenever its first loop ends, also for a long:    *)
(* a base that printf can ask for has at most two bits, so a divisor that  *)
(* overflows has lost its top bit and never comes out larger than the      *)
(* greatest it was before; the least number of shifts comes before the     *)
(* overflow.  From there the two loops of __int_str are followed digit by  *)
(* digit, each of which takes at least one bit away, into buf and b.       *)
(***************************************************************************)
EXTENDS Printf, FiniteSetTheorems, WellFoundedInduction, TLAPS

\* Induction, for a set.
LEMMA Induct ==
  ASSUME NEW S, 0 \in S, \A n \in Nat : n \in S => n + 1 \in S
  PROVE  \A n \in Nat : n \in S
<1> DEFINE T == Nat \ S
           R == {ss \in Nat \X Nat : ss[1] < ss[2]}
<1> SUFFICES ASSUME T # {} PROVE FALSE
  OBVIOUS
<1>1. R = OpToRel(<, Nat)
  BY DEF OpToRel
<1>2. IsWellFoundedOn(R, Nat)
  BY <1>1, NatLessThanWellFounded
<1>3. PICK x \in T : \A y \in T : <<y, x>> \notin R
  BY <1>2, WFMin
<1>4. x - 1 \in Nat /\ (x - 1) + 1 = x /\ <<x - 1, x>> \in R
  BY <1>3
<1>5. x - 1 \notin T
  BY <1>3, <1>4
<1> QED BY <1>3, <1>4, <1>5

LEMMA MinIsLeast ==
  ASSUME NEW S \in SUBSET Nat, S # {}
  PROVE  Min(S) \in S /\ \A y \in S : Min(S) <= y
<1> DEFINE T == {n \in Nat : \A y \in S : n <= y}
<1>1. 0 \in T
  OBVIOUS
<1>2. PICK m \in S : m \in Nat
  OBVIOUS
<1>3. m + 1 \notin T
  BY <1>2
<1>4. PICK n \in Nat : n \in T /\ n + 1 \notin T
  <2>1. ASSUME \A n \in Nat : n \in T => n + 1 \in T PROVE FALSE
    <3> HIDE DEF T
    <3>1. \A n \in Nat : n \in T
      BY <1>1, <2>1, Induct
    <3> QED BY <1>2, <1>3, <3>1
  <2> QED BY <2>1
<1>5. \A y \in S : n <= y
  BY <1>4
<1>6. PICK z \in S : ~(n + 1 <= z)
  BY <1>4
<1>7. n = z
  BY <1>5, <1>6
<1>8. n \in S /\ \A y \in S : n <= y
  BY <1>5, <1>6, <1>7
<1> QED BY <1>8 DEF Min

-----------------------------------------------------------------------------
(* Powers of 2, which the provers know only as sizes of power sets.        *)

LEMMA Doubles ==
  ASSUME NEW n \in Nat
  PROVE  2^n \in Nat /\ 2^(n + 1) = 2 * 2^n
<1> DEFINE S == SUBSET (1 .. n)
           T == {X \cup {n + 1} : X \in S}
           f == [X \in S |-> X \cup {n + 1}]
<1>1. IsFiniteSet(1 .. n) /\ Cardinality(1 .. n) = n
  BY FS_Interval
<1>2. IsFiniteSet(1 .. n + 1) /\ Cardinality(1 .. n + 1) = n + 1
  BY FS_Interval
<1>3. IsFiniteSet(S) /\ Cardinality(S) = 2^n
  BY <1>1, FS_SUBSET
<1>4. Cardinality(SUBSET (1 .. n + 1)) = 2^(n + 1)
  BY <1>2, FS_SUBSET
<1>5. f \in Bijection(S, T)
  <2>1. f \in Injection(S, T)
    <3>1. ASSUME NEW X \in S, NEW Y \in S, X \cup {n + 1} = Y \cup {n + 1} PROVE X = Y
      <4>1. n + 1 \notin X /\ n + 1 \notin Y
        OBVIOUS
      <4> QED BY <3>1, <4>1
    <3>2. f \in [S -> T] /\ DOMAIN f = S
      OBVIOUS
    <3>3. \A X, Y \in S : f[X] = f[Y] => X = Y
      BY <3>1
    <3> HIDE DEF f, S, T
    <3> QED BY <3>2, <3>3 DEF Injection, IsInjective
  <2>2. f \in Surjection(S, T)
    BY DEF Surjection
  <2> QED BY <2>1, <2>2 DEF Bijection
<1>6. IsFiniteSet(T) /\ Cardinality(T) = Cardinality(S)
  BY <1>3, <1>5, FS_Bijection DEF ExistsBijection
<1>7. SUBSET (1 .. n + 1) = S \cup T
  <2>1. ASSUME NEW X \in SUBSET (1 .. n + 1) PROVE X \in S \cup T
    <3>1. CASE n + 1 \in X
      <4>1. X \ {n + 1} \in S
        OBVIOUS
      <4>2. X = (X \ {n + 1}) \cup {n + 1}
        BY <3>1
      <4> QED BY <4>1, <4>2
    <3>2. CASE n + 1 \notin X
      BY <3>2
    <3> QED BY <3>1, <3>2
  <2>2. 1 .. n \subseteq 1 .. n + 1 /\ n + 1 \in 1 .. n + 1
    OBVIOUS
  <2>3. S \cup T \subseteq SUBSET (1 .. n + 1)
    BY <2>2
  <2> QED BY <2>1, <2>3
<1>8. S \cap T = {}
  <2>1. n + 1 \notin 1 .. n
    OBVIOUS
  <2> QED BY <2>1, Zenon
<1>9. Cardinality(S \cup T) = Cardinality(S) + Cardinality(T) - Cardinality(S \cap T)
  BY <1>3, <1>6, FS_Union
<1>10. Cardinality({}) = 0 /\ Cardinality(S) \in Nat
  BY <1>3, FS_EmptySet, FS_CardinalityType
<1>11. Cardinality(S \cup T) = 2 * Cardinality(S)
  <2> HIDE DEF S, T
  <2>1. Cardinality(S \cap T) = 0
    BY <1>8, <1>10, Zenon
  <2> QED BY <1>6, <1>9, <1>10, <2>1
<1> HIDE DEF S, T
<1>12. 2^n = Cardinality(S) /\ 2^(n + 1) = 2 * Cardinality(S)
  BY <1>3, <1>4, <1>7, <1>11, Zenon
<1>13. 2^(n + 1) = 2 * 2^n
  BY <1>12, Zenon
<1>14. 2^n \in Nat
  BY <1>10, <1>12, Zenon
<1> QED BY <1>13, <1>14, Zenon

Pow == [n \in Nat |-> 2^n]

LEMMA PowIs ==
  /\ \A n \in Nat : 2^n = Pow[n]
  /\ Pow[0] = 1
  /\ \A n \in Nat : Pow[n + 1] = 2 * Pow[n]
  /\ \A n \in Nat : Pow[n] \in Nat /\ Pow[n] > 0
<1>1. /\ \A n \in Nat : 2^n = Pow[n]
      /\ \A n \in Nat : Pow[n + 1] = 2 * Pow[n] /\ Pow[n] \in Nat
  <2>1. \A n \in Nat : n + 1 \in Nat
    OBVIOUS
  <2>2. \A n \in Nat : Pow[n] = 2^n
    BY Zenon DEF Pow
  <2> QED BY <2>1, <2>2, Doubles, Zenon
<1>2. Pow[0] = 1
  BY DEF Pow
<1>3. \A n \in Nat : Pow[n] > 0
  <2> DEFINE S == {n \in Nat : Pow[n] > 0}
  <2>1. 0 \in S
    BY <1>2
  <2>2. \A n \in Nat : n \in S => n + 1 \in S
    BY <1>1
  <2> HIDE DEF S
  <2>3. \A n \in Nat : n \in S
    BY <2>1, <2>2, Induct
  <2> QED BY <2>3 DEF S
<1> QED BY <1>1, <1>2, <1>3

\* Powers grow, and a higher one is a multiple of a lower one.
LEMMA PowUp ==
  ASSUME NEW m \in Nat, NEW n \in Nat
  PROVE  Pow[m + n] = Pow[m] * Pow[n]
<1> DEFINE S == {k \in Nat : Pow[m + k] = Pow[m] * Pow[k]}
<1>1. 0 \in S
  BY PowIs
<1>2. ASSUME NEW k \in Nat, k \in S PROVE k + 1 \in S
  <2>1. Pow[m + (k + 1)] = 2 * Pow[m + k] /\ Pow[k + 1] = 2 * Pow[k]
    <3>1. m + (k + 1) = (m + k) + 1 /\ m + k \in Nat
      OBVIOUS
    <3> QED BY <3>1, PowIs
  <2>2. Pow[m] \in Nat /\ Pow[k] \in Nat /\ Pow[m + k] = Pow[m] * Pow[k]
    BY <1>2, PowIs
  <2>3. \A a, b \in Nat : 2 * (a * b) = a * (2 * b)
    OBVIOUS
  <2> QED BY <2>1, <2>2, <2>3
<1> HIDE DEF S
<1>3. \A k \in Nat : k \in S
  BY <1>1, <1>2, Induct
<1> QED BY <1>3 DEF S

LEMMA PowMono ==
  ASSUME NEW m \in Nat, NEW n \in Nat
  PROVE  /\ m <= n => Pow[m] <= Pow[n]
         /\ m < n => 2 * Pow[m] <= Pow[n]
<1>1. ASSUME NEW a \in Nat, NEW b \in Nat, a <= b PROVE Pow[a] <= Pow[b]
  <2>1. Pow[b] = Pow[a] * Pow[b - a]
    <3>1. b - a \in Nat /\ a + (b - a) = b
      BY <1>1
    <3> QED BY <3>1, PowUp
  <2>2. Pow[a] \in Nat /\ Pow[b - a] \in Nat /\ Pow[b - a] > 0
    BY <1>1, PowIs
  <2>3. \A x, y \in Nat : y > 0 => x <= x * y
    OBVIOUS
  <2> QED BY <2>1, <2>2, <2>3
<1>2. m < n => Pow[m + 1] <= Pow[n]
  BY <1>1
<1> QED BY <1>1, <1>2, PowIs

\* What determines quotient and remainder.
LEMMA Quotient ==
  ASSUME NEW n \in Nat, NEW d \in Nat, d > 0, NEW q \in Nat, NEW r \in Nat, r < d, n = d * q + r
  PROVE  n \div d = q /\ n % d = r
<1> DEFINE p == n \div d
           s == n % d
<1>1. p \in Nat /\ s \in Nat /\ s < d /\ n = d * p + s
  OBVIOUS
<1> HIDE DEF p, s
<1>2. ASSUME NEW a \in Nat, NEW b \in Nat, a < b PROVE d * b >= d * a + d
  <2>1. b - a \in Nat /\ b - a >= 1 /\ d * b = d * a + d * (b - a)
    BY <1>2
  <2>2. d * (b - a) >= d
    BY <2>1
  <2> QED BY <2>1, <2>2
<1>3. ~(p < q)
  <2> SUFFICES ASSUME p < q PROVE FALSE
    OBVIOUS
  <2>1. d * q >= d * p + d
    BY <1>1, <1>2
  <2>2. d * q \in Nat /\ d * p \in Nat
    BY <1>1
  <2> QED BY <1>1, <2>1, <2>2
<1>4. ~(q < p)
  <2> SUFFICES ASSUME q < p PROVE FALSE
    OBVIOUS
  <2>1. d * p >= d * q + d
    BY <1>1, <1>2
  <2>2. d * q \in Nat /\ d * p \in Nat
    BY <1>1
  <2> QED BY <1>1, <2>1, <2>2
<1>5. p = q
  BY <1>1, <1>3, <1>4
<1>6. s = r
  <2>1. d * q \in Nat
    OBVIOUS
  <2> QED BY <1>1, <1>5, <2>1
<1> QED BY <1>5, <1>6 DEF p, s

\* Half the divisor: one more bit of the quotient.
LEMMA Halve ==
  ASSUME NEW n \in Nat, NEW d \in Nat, d > 0
  PROVE  /\ n % (2 * d) >= d => n % d = (n % (2 * d)) - d /\ n \div d = 2 * (n \div (2 * d)) + 1
         /\ n % (2 * d) < d => n % d = n % (2 * d) /\ n \div d = 2 * (n \div (2 * d))
<1> DEFINE q == n \div (2 * d)
           r == n % (2 * d)
<1>1. q \in Nat /\ r \in Nat /\ r < 2 * d /\ n = (2 * d) * q + r
  <2>1. 2 * d \in Nat /\ 2 * d > 0
    OBVIOUS
  <2> QED BY <2>1
<1> HIDE DEF q, r
<1>2. (2 * d) * q = d * (2 * q) /\ d * (2 * q + 1) = d * (2 * q) + d /\ d * (2 * q) \in Nat
  BY <1>1
<1>3. CASE r >= d
  <2>1. r - d \in Nat /\ r - d < d /\ 2 * q + 1 \in Nat /\ n = d * (2 * q + 1) + (r - d)
    BY <1>1, <1>2, <1>3
  <2>2. n \div d = 2 * q + 1 /\ n % d = r - d
    BY <2>1, Quotient
  <2> QED BY <1>1, <1>3, <2>2 DEF q, r
<1>4. CASE r < d
  <2>1. 2 * q \in Nat /\ n = d * (2 * q) + r
    BY <1>1, <1>2
  <2>2. n \div d = 2 * q /\ n % d = r
    BY <1>1, <1>4, <2>1, Quotient
  <2> QED BY <1>1, <1>4, <2>2 DEF q, r
<1> QED BY <1>1, <1>3, <1>4 DEF q, r

-----------------------------------------------------------------------------
(* The shifts of the divisor.                                              *)

Bases == {8, 10, 16, 17}

\* The divisor after k shifts.
Shifted(base, k) == (base * Pow[k]) % Pow[INT]

LEMMA IntBits == INT \in Nat /\ INT >= 1 /\ INT - 1 \in Nat /\ 17 < Pow[INT]
                 /\ Pow[INT] = 2 * Pow[INT - 1] /\ Pow[INT - 1] \in Nat
<1>1. INT \in Nat /\ 17 < 2^INT
  BY DivmodAssumption, PrintfAssumption
<1>2. 17 < Pow[INT]
  BY <1>1, PowIs, Zenon
<1>3. INT # 0
  BY <1>2, PowIs
<1>4. INT - 1 \in Nat /\ (INT - 1) + 1 = INT /\ INT >= 1
  BY <1>1, <1>3
<1>5. Pow[(INT - 1) + 1] = 2 * Pow[INT - 1] /\ Pow[INT - 1] \in Nat
  BY <1>4, PowIs
<1> QED BY <1>1, <1>2, <1>4, <1>5

\* A power that has as many bits as an int, or more, overflows to 0.
LEMMA Overflows ==
  ASSUME NEW m \in Nat, m >= INT
  PROVE  \E q \in Nat : Pow[m] = Pow[INT] * q
<1>1. m - INT \in Nat /\ INT + (m - INT) = m
  BY IntBits
<1>2. Pow[m] = Pow[INT] * Pow[m - INT] /\ Pow[m - INT] \in Nat
  BY <1>1, IntBits, PowUp, PowIs
<1> QED BY <1>2

\* A divisor of at most two bits that overflows loses all but its lowest.
LEMMA TwoBits ==
  ASSUME NEW a \in Nat, NEW y \in Nat, Pow[a] + y >= Pow[INT],
         y = 0 \/ \E e \in Nat : e < a /\ y = Pow[e]
  PROVE  (Pow[a] + y) % Pow[INT] <= Pow[INT - 1]
<1>1. Pow[INT] \in Nat /\ Pow[INT] > 0 /\ Pow[a] \in Nat
  BY IntBits, PowIs
<1>2. a >= INT
  <2> SUFFICES ASSUME a < INT PROVE FALSE
    BY IntBits
  <2>1. 2 * Pow[a] <= Pow[INT]
    BY IntBits, PowMono
  <2>2. y < Pow[a]
    <3>1. Pow[a] > 0
      BY PowIs
    <3>2. ASSUME NEW e \in Nat, e < a PROVE Pow[e] < Pow[a]
      <4>1. 2 * Pow[e] <= Pow[a] /\ Pow[e] \in Nat /\ Pow[e] > 0
        BY <3>2, PowMono, PowIs
      <4> QED BY <1>1, <4>1
    <3> QED BY <3>1, <3>2
  <2> QED BY <1>1, <2>1, <2>2
<1>3. PICK q \in Nat : Pow[a] = Pow[INT] * q
  BY <1>2, Overflows
<1>4. CASE y < Pow[INT]
  <2>1. (Pow[a] + y) % Pow[INT] = y
    <3>1. Pow[a] + y \in Nat /\ Pow[a] + y = Pow[INT] * q + y
      BY <1>1, <1>3
    <3> QED BY <1>1, <1>4, <3>1, Quotient
  <2>2. y <= Pow[INT - 1]
    <3>1. ASSUME NEW e \in Nat, y = Pow[e] PROVE y <= Pow[INT - 1]
      <4>1. CASE e >= INT
        <5>1. Pow[INT] <= Pow[e]
          BY <4>1, IntBits, PowMono
        <5>2. Pow[e] \in Nat
          BY PowIs
        <5> QED BY <1>1, <1>4, <3>1, <5>1, <5>2
      <4>2. CASE e < INT
        BY <3>1, <4>2, IntBits, PowMono
      <4> QED BY <4>1, <4>2, IntBits
    <3> QED BY <3>1, IntBits
  <2> QED BY <2>1, <2>2
<1>5. CASE y >= Pow[INT]
  <2>1. PICK e \in Nat : y = Pow[e]
    BY <1>1, <1>5
  <2>2. e >= INT
    <3> SUFFICES ASSUME e < INT PROVE FALSE
      BY IntBits
    <3>1. 2 * Pow[e] <= Pow[INT] /\ Pow[e] \in Nat /\ Pow[e] > 0
      BY IntBits, PowMono, PowIs
    <3> QED BY <1>1, <1>5, <2>1, <3>1
  <2>3. PICK p \in Nat : Pow[e] = Pow[INT] * p
    BY <2>2, Overflows
  <2>4. Pow[a] + y = Pow[INT] * (q + p) + 0 /\ q + p \in Nat /\ Pow[a] + y \in Nat
    BY <1>1, <1>3, <2>1, <2>3
  <2>5. (Pow[a] + y) % Pow[INT] = 0
    BY <1>1, <2>4, Quotient
  <2> QED BY <2>5, IntBits
<1> QED BY <1>1, <1>4, <1>5

LEMMA Wraps ==
  ASSUME NEW base \in Bases, NEW k \in Nat, base * Pow[k] >= Pow[INT]
  PROVE  Shifted(base, k) <= Pow[INT - 1]
<1>1. /\ Pow[k + 1] = 2 * Pow[k] /\ Pow[k + 2] = 4 * Pow[k]
      /\ Pow[k + 3] = 8 * Pow[k] /\ Pow[k + 4] = 16 * Pow[k] /\ Pow[k] \in Nat
  <2>1. /\ k + 2 = (k + 1) + 1 /\ k + 3 = (k + 2) + 1 /\ k + 4 = (k + 3) + 1
        /\ {k + 1, k + 2, k + 3, k + 4} \subseteq Nat
    OBVIOUS
  <2>2. Pow[k + 1] = 2 * Pow[k] /\ Pow[k] \in Nat
    BY PowIs
  <2>3. Pow[k + 2] = 2 * Pow[k + 1] /\ Pow[k + 3] = 2 * Pow[k + 2]
          /\ Pow[k + 4] = 2 * Pow[k + 3]
    BY <2>1, PowIs
  <2> QED BY <2>2, <2>3
<1>2. CASE base = 8
  <2>1. Pow[k + 3] + 0 = base * Pow[k] /\ k + 3 \in Nat
    BY <1>1, <1>2
  <2>2. (Pow[k + 3] + 0) % Pow[INT] <= Pow[INT - 1]
    BY <2>1, TwoBits
  <2> QED BY <2>1, <2>2 DEF Shifted
<1>3. CASE base = 10
  <2>1. Pow[k + 3] + Pow[k + 1] = base * Pow[k] /\ k + 3 \in Nat /\ k + 1 \in Nat
          /\ k + 1 < k + 3
        /\ Pow[k + 1] \in Nat
    BY <1>1, <1>3
  <2>2. (Pow[k + 3] + Pow[k + 1]) % Pow[INT] <= Pow[INT - 1]
    BY <2>1, TwoBits
  <2> QED BY <2>1, <2>2 DEF Shifted
<1>4. CASE base = 16
  <2>1. Pow[k + 4] + 0 = base * Pow[k] /\ k + 4 \in Nat
    BY <1>1, <1>4
  <2>2. (Pow[k + 4] + 0) % Pow[INT] <= Pow[INT - 1]
    BY <2>1, TwoBits
  <2> QED BY <2>1, <2>2 DEF Shifted
<1>5. CASE base = 17
  <2>1. Pow[k + 4] + Pow[k] = base * Pow[k] /\ k + 4 \in Nat /\ k < k + 4
    BY <1>1, <1>5
  <2>2. (Pow[k + 4] + Pow[k]) % Pow[INT] <= Pow[INT - 1]
    BY <1>1, <2>1, TwoBits
  <2> QED BY <2>1, <2>2 DEF Shifted
<1> QED BY <1>2, <1>3, <1>4, <1>5 DEF Bases

\* The last shift before the divisor overflows gives it the top bit.
LEMMA Top ==
  ASSUME NEW base \in Bases
  PROVE  \E m \in Nat : /\ m < INT /\ Shifted(base, m) = base * Pow[m]
                        /\ Shifted(base, m) >= Pow[INT - 1]
                        /\ \A k \in Nat : base * Pow[k] >= Pow[INT] => m < k
<1> DEFINE S == {k \in Nat : base * Pow[k] >= Pow[INT]}
           h == Min(S)
<1>0. base \in Nat /\ base >= 8 /\ base < Pow[INT] /\ Pow[INT] \in Nat
  <2>1. base \in Nat /\ base >= 8 /\ base <= 17
    BY DEF Bases
  <2>2. Pow[INT] \in Nat /\ 17 < Pow[INT]
    BY IntBits, PowIs
  <2> QED BY <2>1, <2>2
<1>1. INT \in S
  <2>1. base * Pow[INT] >= Pow[INT]
    BY <1>0
  <2> QED BY <2>1, IntBits
<1>2. h \in S /\ \A k \in S : h <= k
  <2>1. S \in SUBSET Nat /\ S # {}
    BY <1>1
  <2> HIDE DEF S
  <2> QED BY <2>1, MinIsLeast
<1>3. h # 0
  <2>1. base * Pow[0] = base
    BY <1>0, PowIs
  <2> QED BY <1>0, <1>2, <2>1
<1> HIDE DEF h
<1>4. h \in Nat /\ h <= INT /\ base * Pow[h] >= Pow[INT]
  BY <1>1, <1>2
<1> DEFINE m == h - 1
<1>5. m \in Nat /\ m + 1 = h /\ m < INT /\ ~(h <= m)
  BY <1>3, <1>4, IntBits
<1>6. m \notin S
  BY <1>2, <1>5
<1>7. Pow[h] = 2 * Pow[m] /\ Pow[m] \in Nat
  BY <1>5, PowIs
<1> HIDE DEF m
<1>8. base * Pow[m] < Pow[INT] /\ base * Pow[m] \in Nat
  <2>1. base * Pow[m] \in Nat
    BY <1>0, <1>7
  <2> QED BY <1>0, <1>5, <1>6, <2>1
<1>9. base * Pow[m] >= Pow[INT - 1]
  <2>1. base * Pow[h] = 2 * (base * Pow[m])
    BY <1>0, <1>7
  <2> QED BY <1>4, <1>8, <2>1, IntBits
<1>10. Shifted(base, m) = base * Pow[m]
  <2>1. base * Pow[m] = Pow[INT] * 0 + base * Pow[m]
    BY <1>0, <1>8
  <2>2. Pow[INT] > 0
    BY IntBits
  <2> QED BY <1>0, <1>8, <2>1, <2>2, Quotient DEF Shifted
<1>11. \A k \in Nat : base * Pow[k] >= Pow[INT] => m < k
  BY <1>2, <1>4, <1>5
<1> QED BY <1>5, <1>9, <1>10, <1>11

LEMMA ShiftsAre ==
  ASSUME NEW n, NEW base
  PROVE  Shifts(n, base) = {k \in 0 .. INT : Shifted(base, k) > n \div 2}
<1>1. INT \in Nat /\ 2^INT = Pow[INT]
  BY IntBits, PowIs, Zenon
<1>2. \A k \in 0 .. INT : k \in Nat
  BY <1>1
<1>3. \A k \in 0 .. INT : 2^k = Pow[k]
  BY <1>2, PowIs, Zenon
<1>4. \A k \in 0 .. INT : (base * 2^k) % 2^INT = Shifted(base, k)
  BY <1>1, <1>3, Zenon DEF Shifted
<1>5. \A k \in 0 .. INT : ((base * 2^k) % 2^INT > n \div 2) = (Shifted(base, k) > n \div 2)
  BY <1>4, Zenon
<1> QED BY <1>5, Zenon DEF Shifts

\* The shifting ends before the divisor overflows, if it ends.
LEMMA LeastShift ==
  ASSUME NEW n \in Nat, NEW base \in Bases, Shifts(n, base) # {}
  PROVE  LET k == Min(Shifts(n, base))
         IN  k \in Nat /\ base * Pow[k] < Pow[INT] /\ n < base * Pow[k + 1]
<1> DEFINE S == Shifts(n, base)
           k == Min(S)
<1>1. S = {j \in 0 .. INT : Shifted(base, j) > n \div 2}
  BY ShiftsAre
<1>2. S \in SUBSET Nat /\ S # {}
  BY <1>1, IntBits
<1> HIDE DEF S
<1>3. k \in S /\ \A j \in S : k <= j
  BY <1>2, MinIsLeast
<1> HIDE DEF k
<1>4. k \in Nat /\ Shifted(base, k) > n \div 2
  BY <1>1, <1>2, <1>3
<1>5. base \in Nat /\ base > 0 /\ Pow[k] \in Nat /\ Pow[INT] \in Nat /\ Pow[INT] > 0
  BY <1>4, IntBits, PowIs DEF Bases
<1>6. base * Pow[k] < Pow[INT]
  <2> SUFFICES ASSUME base * Pow[k] >= Pow[INT] PROVE FALSE
    <3>1. base * Pow[k] \in Nat
      BY <1>5
    <3> QED BY <1>5, <3>1
  <2>1. Shifted(base, k) <= Pow[INT - 1]
    BY <1>4, Wraps
  <2>2. PICK m \in Nat : m < INT /\ Shifted(base, m) >= Pow[INT - 1] /\ m < k
    BY <1>4, Top
  <2>3. n \div 2 \in Nat /\ Shifted(base, k) \in Nat /\ Shifted(base, m) \in Int
          /\ Pow[INT - 1] \in Nat
    <3>1. Pow[m] \in Nat
      BY PowIs
    <3>2. base * Pow[m] \in Nat /\ base * Pow[k] \in Nat
      BY <1>5, <3>1
    <3> QED BY <1>5, <3>2, IntBits DEF Shifted
  <2>4. Shifted(base, m) > n \div 2
    BY <1>4, <2>1, <2>2, <2>3
  <2>5. m \in S
    BY <1>1, <2>2, <2>4, IntBits
  <2> QED BY <1>3, <1>4, <2>2, <2>5
<1>7. Shifted(base, k) = base * Pow[k]
  <2>1. base * Pow[k] \in Nat /\ base * Pow[k] = Pow[INT] * 0 + base * Pow[k]
    BY <1>5
  <2> QED BY <1>5, <1>6, <2>1, Quotient DEF Shifted
<1>8. n < base * Pow[k + 1]
  <2>1. Pow[k + 1] = 2 * Pow[k]
    BY <1>4, PowIs
  <2>2. base * Pow[k + 1] = 2 * (base * Pow[k]) /\ base * Pow[k] \in Nat
    BY <1>5, <2>1
  <2>3. base * Pow[k] > n \div 2
    BY <1>4, <1>7
  <2> QED BY <2>2, <2>3
<1> QED BY <1>4, <1>6, <1>8 DEF k, S

\* It ends for every number of an int's bits.
LEMMA ShortEnds ==
  ASSUME NEW n \in Nat, n < Pow[INT], NEW base \in Bases
  PROVE  Shifts(n, base) # {}
<1>1. PICK m \in Nat : m < INT /\ Shifted(base, m) = base * Pow[m]
        /\ Shifted(base, m) >= Pow[INT - 1]
  BY Top
<1>2. n \div 2 < Pow[INT - 1]
  BY IntBits
<1>3. base * Pow[m] \in Nat
  <2>1. base \in Nat /\ Pow[m] \in Nat
    BY PowIs DEF Bases
  <2> QED BY <2>1
<1>4. Shifted(base, m) > n \div 2
  BY <1>1, <1>2, <1>3, IntBits
<1>5. m \in 0 .. INT
  BY <1>1, IntBits
<1>6. m \in Shifts(n, base)
  BY <1>4, <1>5, ShiftsAre
<1> QED BY <1>6

-----------------------------------------------------------------------------
(* The second loop.                                                        *)

\* What the loop has before the divisor has k - j shifts left.
Turn(n, base, k, j) ==
  [n |-> n % (base * Pow[k + 1 - j]), result |-> Pow[k + 1 - j] * (n \div (base * Pow[k + 1 - j]))]

LEMMA TurnStep ==
  ASSUME NEW n \in Nat, NEW base \in Nat, base > 0, NEW k \in Nat, NEW j \in 1 .. k + 1,
         base * Pow[k] < Pow[INT]
  PROVE  LET s == Turn(n, base, k, j - 1)
             shifted == ((base * 2^k) % 2^INT) \div 2^(j - 1)
         IN  Turn(n, base, k, j) =
               IF s.n >= shifted
               THEN [n |-> s.n - shifted, result |-> s.result + 2^(k - j + 1)] ELSE s
<1> DEFINE s == Turn(n, base, k, j - 1)
           shifted == ((base * 2^k) % 2^INT) \div 2^(j - 1)
           c == k - j + 1
           p == Pow[c]
           d == base * p
<1>1. c \in Nat /\ c = k + 1 - j /\ c + 1 = k + 1 - (j - 1) /\ k = (j - 1) + c /\ j - 1 \in Nat
  OBVIOUS
<1>2. p \in Nat /\ p > 0 /\ Pow[c + 1] = 2 * p
  BY <1>1, PowIs
<1>3. d \in Nat /\ d > 0
  BY <1>2
<1>4. Turn(n, base, k, j) = [n |-> n % d, result |-> p * (n \div d)]
  BY <1>1 DEF Turn
<1>5. base * (2 * p) = 2 * d
  BY <1>2
<1>6. s = [n |-> n % (2 * d), result |-> (2 * p) * (n \div (2 * d))]
  BY <1>1, <1>2, <1>5 DEF Turn
<1>7. 2^(k - j + 1) = p /\ 2^k = Pow[k] /\ 2^INT = Pow[INT] /\ 2^(j - 1) = Pow[j - 1]
  BY <1>1, IntBits, PowIs, Zenon
<1>8. shifted = d
  <2>1. base * Pow[k] = Pow[j - 1] * d
    <3>1. Pow[k] = Pow[j - 1] * p /\ Pow[j - 1] \in Nat
      BY <1>1, PowUp, PowIs
    <3>2. \A a, b, e \in Nat : a * (b * e) = b * (a * e)
      OBVIOUS
    <3> QED BY <1>2, <3>1, <3>2
  <2>2. (base * Pow[k]) % Pow[INT] = base * Pow[k]
    <3>1. base * Pow[k] \in Nat /\ Pow[INT] \in Nat /\ Pow[INT] > 0
          /\ base * Pow[k] = Pow[INT] * 0 + base * Pow[k]
      <4>1. Pow[k] \in Nat /\ Pow[INT] \in Nat /\ Pow[INT] > 0
        BY IntBits, PowIs
      <4> QED BY <4>1
    <3> QED BY <3>1, Quotient
  <2>3. (base * Pow[k]) \div Pow[j - 1] = d
    <3>1. Pow[j - 1] \in Nat /\ Pow[j - 1] > 0
      BY <1>1, PowIs
    <3>2. base * Pow[k] = Pow[j - 1] * d + 0 /\ base * Pow[k] \in Nat
      BY <1>3, <2>1, <3>1
    <3> HIDE DEF d
    <3> QED BY <1>3, <3>1, <3>2, Quotient
  <2>4. shifted = ((base * Pow[k]) % Pow[INT]) \div Pow[j - 1]
    BY <1>7, Zenon
  <2> QED BY <2>2, <2>3, <2>4
<1> HIDE DEF d, p, s, shifted
<1>9. n \div d \in Nat /\ n \div (2 * d) \in Nat /\ n % (2 * d) \in Nat /\ n % d \in Nat
  <2>1. 2 * d \in Nat /\ 2 * d > 0
    BY <1>3
  <2> QED BY <1>3, <2>1
<1> DEFINE q == n \div (2 * d)
           r == n % (2 * d)
<1>10. CASE r >= d
  <2>1. n % d = r - d /\ n \div d = 2 * q + 1
    BY <1>3, <1>10, Halve
  <2>2. p * (2 * q + 1) = (2 * p) * q + p
    BY <1>2, <1>9
  <2>3. Turn(n, base, k, j) = [n |-> r - d, result |-> (2 * p) * q + p]
    BY <1>4, <2>1, <2>2
  <2>4. s.n = r /\ s.result = (2 * p) * q /\ s.n >= d
    BY <1>6, <1>10
  <2>5. Turn(n, base, k, j) = [n |-> s.n - shifted, result |-> s.result + 2^(k - j + 1)]
    BY <1>7, <1>8, <2>3, <2>4, Zenon
  <2>6. s.n >= shifted
    BY <1>8, <2>4
  <2> QED BY <2>5, <2>6, Zenon DEF s, shifted
<1>11. CASE r < d
  <2>1. n % d = r /\ n \div d = 2 * q
    BY <1>3, <1>11, Halve
  <2>2. p * (2 * q) = (2 * p) * q
    BY <1>2, <1>9
  <2>3. Turn(n, base, k, j) = s
    BY <1>4, <1>6, <2>1, <2>2
  <2>4. ~(s.n >= shifted)
    BY <1>3, <1>6, <1>8, <1>9, <1>11
  <2> QED BY <2>3, <2>4, Zenon DEF s, shifted
<1> QED BY <1>3, <1>9, <1>10, <1>11

\* One turn of the second loop, of the states that f holds.
Turned(n, base, k, f) ==
  [j \in 0 .. k + 1 |->
     IF j = 0 THEN [n |-> n, result |-> 0]
     ELSE LET s       == f[j - 1]
              shifted == ((base * 2^k) % 2^INT) \div 2^(j - 1)
          IN  IF s.n >= shifted
              THEN [n |-> s.n - shifted, result |-> s.result + 2^(k - j + 1)] ELSE s]

LEMMA DivideIs ==
  ASSUME NEW n, NEW base, NEW k
  PROVE  Divide(n, base, k) = (CHOOSE f : f = Turned(n, base, k, f))[k + 1]
BY DEF Divide, Turned

LEMMA DivideExact ==
  ASSUME NEW n \in Nat, NEW base \in Nat, base > 0, NEW k \in Nat,
         base * Pow[k] < Pow[INT], n < base * Pow[k + 1]
  PROVE  Divide(n, base, k) = [n |-> n % base, result |-> n \div base]
<1> DEFINE W == [j \in 0 .. k + 1 |-> Turn(n, base, k, j)]
<1>1. Turn(n, base, k, 0) = [n |-> n, result |-> 0]
  <2> DEFINE d == base * Pow[k + 1]
  <2>1. Pow[k + 1] \in Nat /\ Pow[k + 1] > 0
    BY PowIs
  <2>2. d \in Nat /\ d > 0
    BY <2>1
  <2> HIDE DEF d
  <2>3. n = d * 0 + n /\ n < d
    BY <2>2 DEF d
  <2>4. n % d = n /\ n \div d = 0
    BY <2>2, <2>3, Quotient
  <2>5. k + 1 - 0 = k + 1
    OBVIOUS
  <2>6. Pow[k + 1] * 0 = 0
    BY <2>1
  <2> QED BY <2>4, <2>5, <2>6 DEF Turn, d
<1>2. W = Turned(n, base, k, W)
  <2>1. ASSUME NEW j \in 0 .. k + 1, j # 0
        PROVE  Turn(n, base, k, j) = Turned(n, base, k, W)[j]
    <3>1. j \in 1 .. k + 1 /\ j - 1 \in 0 .. k + 1
      BY <2>1
    <3>2. W[j - 1] = Turn(n, base, k, j - 1)
      BY <3>1
    <3> HIDE DEF W
    <3>3. LET s == W[j - 1]
              shifted == ((base * 2^k) % 2^INT) \div 2^(j - 1)
          IN  Turn(n, base, k, j) =
                IF s.n >= shifted
                THEN [n |-> s.n - shifted, result |-> s.result + 2^(k - j + 1)] ELSE s
      <4>1. LET s == Turn(n, base, k, j - 1)
                shifted == ((base * 2^k) % 2^INT) \div 2^(j - 1)
            IN  Turn(n, base, k, j) =
                  IF s.n >= shifted
                  THEN [n |-> s.n - shifted, result |-> s.result + 2^(k - j + 1)] ELSE s
        BY <3>1, TurnStep
      <4> QED BY <3>2, <4>1, Zenon
    <3> QED BY <2>1, <3>3, Zenon DEF Turned
  <2>2. 0 \in 0 .. k + 1
    OBVIOUS
  <2>3. Turned(n, base, k, W)[0] = [n |-> n, result |-> 0]
    BY <2>2, Zenon DEF Turned
  <2>4. \A j \in 0 .. k + 1 : Turned(n, base, k, W)[j] = Turn(n, base, k, j)
    BY <1>1, <2>1, <2>3, Zenon
  <2>5. Turned(n, base, k, W) = [j \in 0 .. k + 1 |-> Turned(n, base, k, W)[j]]
    BY DEF Turned
  <2> QED BY <2>4, <2>5, Zenon
<1> DEFINE f == CHOOSE g : g = Turned(n, base, k, g)
<1>3. f = Turned(n, base, k, f)
  <2> HIDE DEF W
  <2> QED BY <1>2, Zenon
<1> HIDE DEF W, f
<1>4. \A j \in 0 .. k + 1 : f[j] = W[j]
  <2> DEFINE S == {j \in Nat : j <= k + 1 => f[j] = W[j]}
  <2>1. 0 \in S
    <3>1. 0 \in 0 .. k + 1 /\ 0 \in Nat
      OBVIOUS
    <3>2. Turned(n, base, k, f)[0] = [n |-> n, result |-> 0]
            /\ Turned(n, base, k, W)[0] = [n |-> n, result |-> 0]
      BY <3>1, Zenon DEF Turned
    <3>3. f[0] = W[0]
      BY <1>2, <1>3, <3>2, Zenon
    <3> QED BY <3>1, <3>3
  <2>2. ASSUME NEW j \in Nat, j \in S PROVE j + 1 \in S
    <3> SUFFICES ASSUME j + 1 <= k + 1 PROVE f[j + 1] = W[j + 1]
      OBVIOUS
    <3>1. j + 1 \in 0 .. k + 1 /\ j + 1 # 0 /\ (j + 1) - 1 = j /\ f[j] = W[j]
      BY <2>2
    <3>2. f[(j + 1) - 1] = W[(j + 1) - 1]
      BY <3>1
    <3> DEFINE e == j + 1
    <3>3. e \in 0 .. k + 1 /\ e # 0 /\ f[e - 1] = W[e - 1]
      BY <3>1, <3>2
    <3> HIDE DEF e
    <3>4. Turned(n, base, k, f)[e] = Turned(n, base, k, W)[e]
      BY <3>3, Zenon DEF Turned
    <3>5. f[e] = W[e]
      BY <1>2, <1>3, <3>4, Zenon
    <3> QED BY <3>5 DEF e
  <2> HIDE DEF S
  <2>3. \A j \in Nat : j \in S
    BY <2>1, <2>2, Induct
  <2> QED BY <2>3 DEF S
<1>5. k + 1 \in 0 .. k + 1
  OBVIOUS
<1>6. Divide(n, base, k) = f[k + 1]
  BY DivideIs, Zenon DEF f
<1>7. W[k + 1] = Turn(n, base, k, k + 1)
  BY <1>5, Zenon DEF W
<1>8. Turn(n, base, k, k + 1) = [n |-> n % base, result |-> n \div base]
  <2>1. k + 1 - (k + 1) = 0 /\ base * 1 = base /\ Pow[0] = 1
    BY PowIs
  <2>2. n \div base \in Nat
    OBVIOUS
  <2>3. 1 * (n \div base) = n \div base
    BY <2>2
  <2> QED BY <2>1, <2>3 DEF Turn
<1> QED BY <1>4, <1>5, <1>6, <1>7, <1>8, Zenon

\* divmod_u64 divides.
LEMMA DivmodExact ==
  ASSUME NEW n \in Nat, NEW base \in Bases, Shifts(n, base) # {}
  PROVE  divmod_u64(n, base) = [n |-> n % base, result |-> n \div base]
<1> DEFINE k == Min(Shifts(n, base))
<1>1. k \in Nat /\ base * Pow[k] < Pow[INT] /\ n < base * Pow[k + 1]
  BY LeastShift
<1>2. base \in Nat /\ base > 0
  BY DEF Bases
<1> HIDE DEF k
<1>3. Divide(n, base, k) = [n |-> n % base, result |-> n \div base]
  BY <1>1, <1>2, DivideExact
<1> QED BY <1>3, Zenon DEF divmod_u64, k

(* divmod_u64 divides: for every base of the integer conversions the       *)
(* shifting of the divisor ends for every number of an int's bits, and     *)
(* whenever it ends, for a longer number too, the result is the quotient   *)
(* and what is left of n the remainder, although the divisor is shifted in *)
(* fewer bits than the number has (printf.c:14-36).                        *)
THEOREM DivisionExact ==
  \A n \in Nat, base \in Bases :
    /\ n < 2^INT => Shifts(n, base) # {}
    /\ Shifts(n, base) # {} => divmod_u64(n, base) = [n |-> n % base, result |-> n \div base]
<1>1. 2^INT = Pow[INT]
  BY IntBits, PowIs, Zenon
<1>2. \A n \in Nat, base \in Bases : n < Pow[INT] => Shifts(n, base) # {}
  BY ShortEnds
<1> QED BY <1>1, <1>2, DivmodExact, Zenon

\* g repeats the step h from x on, m times at least.
Repeats(g, x, h, m) == g[0] = x /\ \A j \in Nat : j < m => g[j + 1] = h[g[j]]

LEMMA Repetition ==
  ASSUME NEW X, NEW x \in X, NEW h \in [X -> X]
  PROVE  \E g \in [Nat -> X] : \A m \in Nat : Repeats(g, x, h, m)
<1> DEFINE S == {m \in Nat : \E g \in [Nat -> X] : Repeats(g, x, h, m)}
<1>1. 0 \in S
  <2> DEFINE g == [j \in Nat |-> x]
  <2>1. g \in [Nat -> X] /\ Repeats(g, x, h, 0)
    BY DEF Repeats
  <2> QED BY <2>1
<1>2. ASSUME NEW m \in Nat, m \in S PROVE m + 1 \in S
  <2>1. PICK g \in [Nat -> X] : Repeats(g, x, h, m)
    BY <1>2
  <2> DEFINE e == [g EXCEPT ![m + 1] = h[g[m]]]
  <2>2. g[m] \in X /\ h[g[m]] \in X
    OBVIOUS
  <2>3. e \in [Nat -> X]
    BY <2>2
  <2>4. e[0] = x
    BY <2>1 DEF Repeats
  <2>5. ASSUME NEW j \in Nat, j < m + 1 PROVE e[j + 1] = h[e[j]]
    <3>1. e[j] = g[j]
      BY <2>5
    <3>2. CASE j = m
      BY <3>1, <3>2
    <3>3. CASE j # m
      <4>1. j < m /\ j + 1 # m + 1 /\ j + 1 \in Nat
        BY <2>5, <3>3
      <4>2. e[j + 1] = g[j + 1]
        BY <4>1
      <4> QED BY <2>1, <3>1, <4>1, <4>2 DEF Repeats
    <3> QED BY <3>2, <3>3
  <2> HIDE DEF e
  <2>6. Repeats(e, x, h, m + 1)
    BY <2>4, <2>5 DEF Repeats
  <2> QED BY <2>3, <2>6
<1>3. \A m \in Nat : m \in S
  <2> HIDE DEF S
  <2> QED BY <1>1, <1>2, Induct
<1> DEFINE r(m) == CHOOSE g \in [Nat -> X] : Repeats(g, x, h, m)
<1>4. ASSUME NEW m \in Nat PROVE r(m) \in [Nat -> X] /\ Repeats(r(m), x, h, m)
  <2>1. \E g \in [Nat -> X] : Repeats(g, x, h, m)
    BY <1>3
  <2> QED BY <2>1, Zenon
<1> HIDE DEF r
<1>5. ASSUME NEW m \in Nat, NEW n \in Nat PROVE \A j \in Nat : j <= m /\ j <= n => r(m)[j] = r(n)[j]
  <2> DEFINE T == {j \in Nat : j <= m /\ j <= n => r(m)[j] = r(n)[j]}
  <2>1. 0 \in T
    BY <1>4 DEF Repeats
  <2>2. ASSUME NEW j \in Nat, j \in T PROVE j + 1 \in T
    <3> SUFFICES ASSUME j + 1 <= m, j + 1 <= n PROVE r(m)[j + 1] = r(n)[j + 1]
      OBVIOUS
    <3>1. j < m /\ j < n /\ r(m)[j] = r(n)[j]
      BY <2>2
    <3>2. r(m)[j + 1] = h[r(m)[j]] /\ r(n)[j + 1] = h[r(n)[j]]
      BY <1>4, <3>1 DEF Repeats
    <3> QED BY <3>1, <3>2
  <2> HIDE DEF T
  <2>3. \A j \in Nat : j \in T
    BY <2>1, <2>2, Induct
  <2> QED BY <2>3 DEF T
<1> DEFINE f == [j \in Nat |-> r(j)[j]]
<1>6. f \in [Nat -> X]
  BY <1>4
<1>7. f[0] = x
  BY <1>4 DEF Repeats
<1>8. ASSUME NEW j \in Nat PROVE f[j + 1] = h[f[j]]
  <2>1. j + 1 \in Nat /\ j < j + 1 /\ j <= j /\ j <= j + 1
    OBVIOUS
  <2>2. r(j + 1)[j + 1] = h[r(j + 1)[j]]
    BY <1>4, <2>1 DEF Repeats
  <2>3. r(j + 1)[j] = r(j)[j]
    BY <1>5, <2>1
  <2> QED BY <2>1, <2>2, <2>3
<1> HIDE DEF f
<1>9. \A m \in Nat : Repeats(f, x, h, m)
  BY <1>7, <1>8 DEF Repeats
<1> QED BY <1>6, <1>9

-----------------------------------------------------------------------------
(* The digits of a number.                                                 *)

\* What f has left after one more turn.
Lessened(n, base, f) == [j \in Nat |-> IF j = 0 THEN n ELSE divmod_u64(f[j - 1], base).result]

Left(n, base) == CHOOSE f : f = Lessened(n, base, f)

LEMMA NumeralsAre ==
  ASSUME NEW n, NEW base
  PROVE  LET len == Min({j \in 1 .. LONG : Left(n, base)[j] = 0})
         IN  Numerals(n, base) =
               [j \in 1 .. len |-> digits[divmod_u64(Left(n, base)[len - j], base).n + 1]]
BY Zenon DEF Numerals, Left, Lessened

\* A smaller number ends the shifting too.
LEMMA FewerShifts ==
  ASSUME NEW n \in Nat, NEW m \in Nat, m <= n, NEW base \in Bases, Shifts(n, base) # {}
  PROVE  Shifts(m, base) # {}
<1>1. PICK k \in 0 .. INT : Shifted(base, k) > n \div 2
  BY ShiftsAre
<1>2. Shifted(base, k) \in Nat
  <2>1. Pow[k] \in Nat /\ base \in Nat /\ Pow[INT] \in Nat /\ Pow[INT] > 0
    BY IntBits, PowIs DEF Bases
  <2>2. base * Pow[k] \in Nat
    BY <2>1
  <2> QED BY <2>1, <2>2 DEF Shifted
<1>3. Shifted(base, k) > m \div 2
  BY <1>1, <1>2
<1> QED BY <1>3, ShiftsAre

LEMMA LeftIs ==
  ASSUME NEW n \in Nat, NEW base \in Bases, Shifts(n, base) # {}
  PROVE  /\ Left(n, base)[0] = n
         /\ \A j \in Nat : /\ Left(n, base)[j] \in Nat /\ Left(n, base)[j] <= n
                           /\ Left(n, base)[j + 1] = Left(n, base)[j] \div base
<1> DEFINE X == 0 .. n
           h == [y \in X |-> y \div base]
<1>0. base \in Nat /\ base > 0
  BY DEF Bases
<1>1. ASSUME NEW y \in Nat PROVE y \div base \in Nat /\ y \div base <= y
  <2> DEFINE q == y \div base
             r == y % base
  <2>1. q \in Nat /\ r \in Nat /\ y = base * q + r
    BY <1>0
  <2> HIDE DEF q, r
  <2>2. base * q >= q /\ base * q \in Nat
    BY <1>0, <2>1
  <2>3. q <= y
    BY <2>1, <2>2
  <2> QED BY <2>1, <2>3 DEF q
<1>2. ASSUME NEW y \in X PROVE divmod_u64(y, base).result = y \div base
  <2>1. y \in Nat /\ y <= n
    OBVIOUS
  <2>2. divmod_u64(y, base) = [n |-> y % base, result |-> y \div base]
    BY <2>1, FewerShifts, DivmodExact
  <2> QED BY <2>2
<1>3. h \in [X -> X] /\ n \in X
  <2>1. \A y \in X : y \in Nat /\ y <= n /\ \A z \in Nat : z <= y => z \in X
    OBVIOUS
  <2>2. \A y \in X : y \div base \in X
    BY <1>1, <2>1
  <2> QED BY <2>2
<1>4. \A y \in X : h[y] = y \div base
  OBVIOUS
<1> HIDE DEF h
<1>5. PICK g \in [Nat -> X] : \A m \in Nat : Repeats(g, n, h, m)
  <2> HIDE DEF X
  <2> QED BY <1>3, Repetition
<1>6. g[0] = n /\ \A j \in Nat : g[j] \in X /\ g[j + 1] = g[j] \div base
  <2>1. \A j \in Nat : j + 1 \in Nat /\ j < j + 1
    OBVIOUS
  <2> HIDE DEF X
  <2> QED BY <1>4, <1>5, <2>1 DEF Repeats
<1> HIDE DEF X
<1>7. g = Lessened(n, base, g)
  <2>1. ASSUME NEW j \in Nat, j # 0 PROVE g[j] = divmod_u64(g[j - 1], base).result
    <3>1. j - 1 \in Nat /\ (j - 1) + 1 = j
      BY <2>1
    <3> QED BY <1>2, <1>6, <3>1
  <2>2. \A j \in Nat : g[j] = IF j = 0 THEN n ELSE divmod_u64(g[j - 1], base).result
    BY <1>6, <2>1
  <2>3. g = [j \in Nat |-> g[j]]
    BY <1>5
  <2> QED BY <2>2, <2>3, Zenon DEF Lessened
<1> DEFINE f == Left(n, base)
<1>8. f = Lessened(n, base, f)
  BY <1>7, Zenon DEF Left
<1> HIDE DEF f
<1>9. \A j \in Nat : f[j] = g[j]
  <2> DEFINE T == {j \in Nat : f[j] = g[j]}
  <2>1. 0 \in T
    <3>1. 0 \in Nat
      OBVIOUS
    <3>2. Lessened(n, base, f)[0] = n
      BY <3>1, Zenon DEF Lessened
    <3> QED BY <1>6, <1>8, <3>1, <3>2
  <2>2. ASSUME NEW j \in Nat, j \in T PROVE j + 1 \in T
    <3>1. j + 1 \in Nat /\ j + 1 # 0 /\ (j + 1) - 1 = j /\ f[j] = g[j]
      BY <2>2
    <3>2. f[(j + 1) - 1] = g[(j + 1) - 1]
      BY <3>1
    <3>3. Lessened(n, base, f)[j + 1] = Lessened(n, base, g)[j + 1]
      BY <3>1, <3>2, Zenon DEF Lessened
    <3>4. f[j + 1] = g[j + 1]
      BY <1>7, <1>8, <3>3, Zenon
    <3> QED BY <3>1, <3>4
  <2> HIDE DEF T
  <2>3. \A j \in Nat : j \in T
    BY <2>1, <2>2, Induct
  <2> QED BY <2>3 DEF T
<1>10. \A j \in Nat : j + 1 \in Nat
  OBVIOUS
<1>11. 0 \in Nat /\ \A y \in X : y \in Nat /\ y <= n
  BY DEF X
<1> QED BY <1>6, <1>9, <1>10, <1>11 DEF f

LEMMA LongBits == LONG \in Nat /\ LONG >= 1 /\ LONG - 1 \in Nat /\ INT <= LONG - 1
                  /\ Pow[LONG] = 2 * Pow[LONG - 1] /\ Pow[LONG - 1] \in Nat
<1>1. LONG \in Nat /\ INT < LONG
  BY DivmodAssumption
<1>2. LONG - 1 \in Nat /\ (LONG - 1) + 1 = LONG /\ INT <= LONG - 1 /\ LONG >= 1
  BY <1>1, IntBits
<1>3. Pow[(LONG - 1) + 1] = 2 * Pow[LONG - 1] /\ Pow[LONG - 1] \in Nat
  BY <1>2, PowIs
<1> QED BY <1>1, <1>2, <1>3

\* A turn of the loop takes at least one bit away.
LEMMA BitsLeft ==
  ASSUME NEW n \in Nat, n < Pow[LONG], NEW base \in Bases, Shifts(n, base) # {}
  PROVE  \A j \in Nat : j <= LONG => Left(n, base)[j] < Pow[LONG - j]
<1> DEFINE f == Left(n, base)
           S == {j \in Nat : j <= LONG => f[j] < Pow[LONG - j]}
<1>1. 0 \in S
  <2>1. LONG - 0 = LONG
    BY LongBits
  <2> QED BY <2>1, LeftIs
<1>2. ASSUME NEW j \in Nat, j \in S PROVE j + 1 \in S
  <2> SUFFICES ASSUME j + 1 <= LONG PROVE f[j + 1] < Pow[LONG - (j + 1)]
    OBVIOUS
  <2> DEFINE m == LONG - (j + 1)
             p == Pow[m]
             y == f[j]
  <2>1. m \in Nat /\ m + 1 = LONG - j /\ j <= LONG
    BY LongBits
  <2>2. p \in Nat /\ Pow[m + 1] = 2 * p
    BY <2>1, PowIs
  <2>3. y < 2 * p
    BY <1>2, <2>1, <2>2
  <2>4. y \in Nat /\ f[j + 1] = y \div base
    BY LeftIs
  <2> HIDE DEF y, p, f
  <2>5. y \div base < p
    <3> DEFINE q == y \div base
               r == y % base
    <3>0. base \in Nat /\ base >= 2
      BY DEF Bases
    <3>1. q \in Nat /\ r \in Nat /\ y = base * q + r
      BY <2>4, <3>0
    <3> HIDE DEF q, r
    <3>2. base * q >= 2 * q /\ base * q \in Nat
      BY <3>0, <3>1
    <3>3. q < p
      BY <2>2, <2>3, <2>4, <3>1, <3>2
    <3> QED BY <3>3 DEF q
  <2> QED BY <2>4, <2>5 DEF p
<1> HIDE DEF S
<1>3. \A j \in Nat : j \in S
  BY <1>1, <1>2, Induct
<1> QED BY <1>3 DEF S

\* What a buffer holds.
Byte == Characters \cup {NUL}

LEMMA Printable ==
  /\ NUL \notin Characters
  /\ \A k \in 1 .. 16 : digits[k] \in Characters
  /\ "-" \in Characters /\ "+" \in Characters /\ " " \in Characters
  /\ "0" \in Characters /\ "x" \in Characters
<1>1. digits[1] = "0" /\ 1 \in 1 .. 16
  BY DEF digits
<1>2. \A k \in 1 .. 16 : digits[k] \in Characters
  BY CharactersAssumption
<1>3. "0" \in Characters
  BY <1>1, <1>2, Zenon
<1> QED BY <1>2, <1>3, CharactersAssumption

\* A number has at most as many digits as bits.
LEMMA NumeralsType ==
  ASSUME NEW n \in Nat, n < Pow[LONG], NEW base \in Bases, Shifts(n, base) # {}
  PROVE  Numerals(n, base) \in Seq(Byte) /\ Len(Numerals(n, base)) <= LONG
<1> DEFINE f == Left(n, base)
           S == {j \in 1 .. LONG : f[j] = 0}
           len == Min(S)
<1>1. LONG \in S
  <2>1. f[LONG] < Pow[LONG - LONG] /\ f[LONG] \in Nat
    BY BitsLeft, LeftIs, LongBits
  <2>2. LONG - LONG = 0 /\ Pow[0] = 1 /\ LONG \in 1 .. LONG
    BY LongBits, PowIs
  <2> QED BY <2>1, <2>2
<1>2. S \in SUBSET Nat /\ S # {}
  BY <1>1
<1>3. len \in S
  <2> HIDE DEF S
  <2> QED BY <1>2, MinIsLeast
<1>4. Numerals(n, base) = [j \in 1 .. len |-> digits[divmod_u64(f[len - j], base).n + 1]]
  BY NumeralsAre, Zenon
<1> HIDE DEF len
<1>5. len \in Nat /\ len <= LONG
  BY <1>3, LongBits
<1>6. ASSUME NEW j \in 1 .. len PROVE digits[divmod_u64(f[len - j], base).n + 1] \in Byte
  <2>1. len - j \in Nat
    BY <1>5
  <2> DEFINE y == f[len - j]
  <2>2. y \in Nat /\ y <= n
    BY <2>1, LeftIs
  <2> HIDE DEF y
  <2>3. divmod_u64(y, base) = [n |-> y % base, result |-> y \div base]
    BY <2>2, FewerShifts, DivmodExact
  <2>4. divmod_u64(y, base).n = y % base
    BY <2>3
  <2>5. base \in Nat /\ base > 0 /\ base <= 17
    BY DEF Bases
  <2>6. y % base \in 0 .. 16
    BY <2>2, <2>5
  <2> DEFINE a == (y % base) + 1
  <2>7. a \in 1 .. 17
    BY <2>6
  <2> HIDE DEF a
  <2>8. digits[a] \in Byte
    <3>1. digits[17] = NUL
      BY DEF digits
    <3>2. a \in 1 .. 16 \/ a = 17
      BY <2>7
    <3> QED BY <3>1, <3>2, Printable, Zenon DEF Byte
  <2> QED BY <2>4, <2>8 DEF a, y
<1>7. Numerals(n, base) \in [1 .. len -> Byte]
  BY <1>4, <1>6
<1> QED BY <1>5, <1>7

LEMMA One ==
  ASSUME NEW S, NEW a \in S
  PROVE  <<a>> \in Seq(S) /\ Len(<<a>>) = 1
OBVIOUS

\* Up to its first terminator a buffer is text.
LEMMA CStringIsText ==
  ASSUME NEW s \in Seq(Byte)
  PROVE  CString(s) \in Seq(Characters) /\ Len(CString(s)) <= Len(s)
<1> DEFINE I == {k \in 1 .. Len(s) : s[k] = NUL}
           k == SelectInSeq(s, LAMBDA c : c = NUL)
<1>1. k = IF I # {} THEN Min(I) ELSE 0
  BY DEF SelectInSeq
<1>2. Len(s) \in Nat /\ I \in SUBSET Nat
  OBVIOUS
<1>3. CASE I = {}
  <2>1. k = 0
    BY <1>1, <1>3
  <2>2. CString(s) = s
    BY <2>1, Zenon DEF CString
  <2>3. \A j \in 1 .. Len(s) : s[j] \in Characters
    <3>1. \A j \in 1 .. Len(s) : s[j] \in Byte
      OBVIOUS
    <3>2. \A j \in 1 .. Len(s) : s[j] # NUL
      BY <1>3
    <3> QED BY <3>1, <3>2 DEF Byte
  <2>4. s \in Seq(Characters)
    <3>1. s = [j \in 1 .. Len(s) |-> s[j]]
      OBVIOUS
    <3>2. s \in [1 .. Len(s) -> Characters]
      BY <2>3, <3>1
    <3> QED BY <1>2, <3>2
  <2> QED BY <1>2, <2>2, <2>4
<1>4. CASE I # {}
  <2> HIDE DEF I, k
  <2>1. k \in I /\ \A j \in I : k <= j
    BY <1>1, <1>2, <1>4, MinIsLeast
  <2>2. k \in 1 .. Len(s) /\ k # 0
    BY <2>1 DEF I
  <2>3. CString(s) = SubSeq(s, 1, k - 1)
    BY <2>2, Zenon DEF CString, k
  <2>4. \A j \in 1 .. k - 1 : s[j] \in Characters
    <3>1. \A j \in 1 .. k - 1 : j \in 1 .. Len(s) /\ ~(k <= j)
      BY <1>2, <2>2
    <3>2. \A j \in 1 .. k - 1 : s[j] # NUL
      BY <2>1, <3>1 DEF I
    <3>3. \A j \in 1 .. k - 1 : s[j] \in Byte
      BY <3>1
    <3> QED BY <3>2, <3>3 DEF Byte
  <2> DEFINE t == SubSeq(s, 1, k - 1)
  <2>5. t \in Seq(Byte) /\ Len(t) = k - 1 /\ \A j \in 1 .. k - 1 : t[j] = s[j]
    BY <1>2, <2>2
  <2> HIDE DEF t
  <2>6. t \in [1 .. k - 1 -> Characters]
    <3>1. t = [j \in 1 .. Len(t) |-> t[j]]
      BY <2>5
    <3> QED BY <2>4, <2>5, <3>1
  <2>7. k - 1 \in Nat /\ k - 1 <= Len(s)
    BY <1>2, <2>2
  <2>8. t \in Seq(Characters)
    BY <2>6, <2>7
  <2> QED BY <2>3, <2>5, <2>7, <2>8 DEF t
<1> QED BY <1>3, <1>4

\* A field is as wide as asked for, or as wide as its text.
LEMMA PaddedFits ==
  ASSUME NEW b \in Seq(Byte), NEW flags, NEW width \in Int, NEW m \in Nat,
         width <= m, Len(b) <= m
  PROVE  Padded(b, flags, width) \in Seq(Byte) /\ Len(Padded(b, flags, width)) <= m
<1> DEFINE pad == Pad(b, flags, width)
           w == width - Len(b)
           z == IF "0" \in flags THEN "0" ELSE " "
<1>0. z \in Byte
  <2>1. "0" \in Byte /\ " " \in Byte
    BY Printable, Zenon DEF Byte
  <2> QED BY <2>1, Zenon
<1>1. z \in Byte /\ Len(b) \in Nat /\ w \in Int
  <2> HIDE DEF z
  <2> QED BY <1>0
<1>2. pad = [k \in 1 .. w |-> z]
  BY DEF Pad
<1>3. Padded(b, flags, width) =
        IF pad = <<>> THEN b ELSE IF "-" \in flags THEN b \o pad ELSE pad \o CString(b)
  BY DEF Padded, Justified
<1> HIDE DEF pad, z
<1>4. CASE w <= 0
  <2>1. pad = <<>>
    <3> HIDE DEF w
    <3> QED BY <1>1, <1>2, <1>4
  <2> QED BY <1>3, <2>1
<1>5. CASE w > 0
  <2>1. w \in Nat
    BY <1>1, <1>5
  <2>2. pad \in [1 .. w -> Byte]
    BY <1>1, <1>2
  <2>3. pad \in Seq(Byte) /\ Len(pad) = w
    <3> HIDE DEF w
    <3> QED BY <2>1, <2>2
  <2>4. pad # <<>>
    <3>1. Len(pad) # 0
      BY <1>5, <2>3
    <3> QED BY <3>1
  <2>5. CString(b) \in Seq(Byte) /\ Len(CString(b)) <= Len(b) /\ Len(CString(b)) \in Nat
    <3>1. CString(b) \in Seq(Characters) /\ Len(CString(b)) <= Len(b)
      BY CStringIsText
    <3>2. Characters \subseteq Byte
      BY DEF Byte
    <3>3. CString(b) \in Seq(Byte)
      BY <3>1, <3>2
    <3> QED BY <3>1, <3>3
  <2> DEFINE c == CString(b)
  <2> HIDE DEF c
  <2>6. c \in Seq(Byte) /\ Len(c) <= Len(b) /\ Len(c) \in Nat
    BY <2>5 DEF c
  <2>7. b \o pad \in Seq(Byte) /\ Len(b \o pad) = Len(b) + w
    BY <2>3
  <2>8. pad \o c \in Seq(Byte) /\ Len(pad \o c) = w + Len(c)
    BY <2>3, <2>6
  <2>9. Len(b) + w <= m /\ w + Len(c) <= m
    BY <1>1, <2>6
  <2>10. CASE "-" \in flags
    BY <1>3, <2>4, <2>7, <2>9, <2>10
  <2>11. CASE "-" \notin flags
    BY <1>3, <2>4, <2>8, <2>9, <2>11 DEF c
  <2> QED BY <2>10, <2>11
<1> QED BY <1>1, <1>4, <1>5

LEMMA SignType ==
  ASSUME NEW value, NEW flags
  PROVE  Sign(value, flags) \in Seq(Byte) /\ Len(Sign(value, flags)) <= 1
<1>1. Sign(value, flags) \in {<<"-">>, <<"+">>, <<" ">>, <<>>}
  BY Zenon DEF Sign
<1>2. \A s \in {<<"-">>, <<"+">>, <<" ">>, <<>>} : s \in Seq(Byte) /\ Len(s) <= 1
  <2>1. "-" \in Byte /\ "+" \in Byte /\ " " \in Byte
    BY Printable, Zenon DEF Byte
  <2>2. <<"-">> \in Seq(Byte) /\ Len(<<"-">>) = 1
    BY <2>1, One, Zenon
  <2>3. <<"+">> \in Seq(Byte) /\ Len(<<"+">>) = 1
    BY <2>1, One, Zenon
  <2>4. <<" ">> \in Seq(Byte) /\ Len(<<" ">>) = 1
    BY <2>1, One, Zenon
  <2>5. <<>> \in Seq(Byte) /\ Len(<<>>) = 0
    OBVIOUS
  <2>6. 0 <= 1 /\ 1 <= 1
    OBVIOUS
  <2> QED BY <2>2, <2>3, <2>4, <2>5, <2>6, Zenon
<1> QED BY <1>1, <1>2

\* Sign and digits fit in buf.
LEMMA UnpaddedFits ==
  ASSUME NEW value, Magnitude(value) \in Nat, Magnitude(value) < Pow[LONG],
         NEW base \in Bases, NEW flags, Shifts(Magnitude(value), base) # {}
  PROVE  Unpadded(value, base, flags) \in Seq(Byte)
    /\ Len(Unpadded(value, base, flags)) <= LONG + 1
<1> DEFINE s == Sign(value, flags)
           t == Numerals(Magnitude(value), base)
<1>1. s \in Seq(Byte) /\ Len(s) <= 1
  BY SignType
<1>2. t \in Seq(Byte) /\ Len(t) <= LONG
  BY NumeralsType
<1>3. Unpadded(value, base, flags) = s \o t
  BY DEF Unpadded
<1> HIDE DEF s, t
<1>4. Len(s) \in Nat /\ Len(t) \in Nat /\ s \o t \in Seq(Byte) /\ Len(s \o t) = Len(s) + Len(t)
  BY <1>1, <1>2
<1> QED BY <1>1, <1>2, <1>3, <1>4, LongBits

-----------------------------------------------------------------------------
(* The values of the arguments.                                            *)

LEMMA Division ==
  ASSUME NEW n \in Nat, NEW d \in Nat, d > 0
  PROVE  n \div d \in Nat /\ n % d \in Nat /\ n = d * (n \div d) + (n % d)
OBVIOUS

LEMMA Modulo ==
  ASSUME NEW v \in Int, NEW bits \in Nat
  PROVE  v % 2^bits \in Nat /\ v % 2^bits < Pow[bits]
<1>1. 2^bits = Pow[bits]
  BY PowIs, Zenon
<1>2. Pow[bits] \in Nat /\ Pow[bits] > 0
  BY PowIs
<1>3. v % Pow[bits] \in Nat /\ v % Pow[bits] < Pow[bits]
  BY <1>2
<1> QED BY <1>1, <1>3, Zenon

LEMMA SignedIs ==
  ASSUME NEW v \in Int, NEW bits \in Nat, bits > 0
  PROVE  /\ Signed(v, bits) \in Int
         /\ -Pow[bits - 1] <= Signed(v, bits) /\ Signed(v, bits) < Pow[bits - 1]
<1> DEFINE u == v % 2^bits
<1>1. u \in Nat /\ u < Pow[bits]
  BY Modulo
<1>2. bits - 1 \in Nat /\ (bits - 1) + 1 = bits
  OBVIOUS
<1>3. Pow[bits] = 2 * Pow[bits - 1] /\ Pow[bits - 1] \in Nat
  BY <1>2, PowIs
<1>4. 2^bits = Pow[bits] /\ 2^(bits - 1) = Pow[bits - 1]
  BY <1>2, PowIs, Zenon
<1>5. Signed(v, bits) = IF u >= Pow[bits - 1] THEN u - Pow[bits] ELSE u
  BY <1>4, Zenon DEF Signed
<1> HIDE DEF u
<1> QED BY <1>1, <1>3, <1>5

LEMMA BitsAre ==
  ASSUME NEW d
  PROVE  Bits(d) \in Nat /\ Bits(d) > 0 /\ Slots(d) \in {1, 2}
<1>1. Bits(d) \in {CHAR, SHORT, INT, WORD, LONG}
  BY Zenon DEF Bits
<1>2. \A b \in {CHAR, SHORT, INT, WORD, LONG} : b \in Nat /\ b > 0
  <2>1. /\ CHAR \in Nat /\ CHAR > 0 /\ SHORT \in Nat /\ SHORT > 0
        /\ INT \in Nat /\ INT > 0 /\ LONG \in Nat /\ LONG > 0 /\ (WORD = INT \/ WORD = LONG)
    BY PrintfAssumption, IntBits, LongBits
  <2> QED BY <2>1
<1>3. Slots(d) \in {1, 2}
  BY Zenon DEF Slots
<1> QED BY <1>1, <1>2, <1>3

\* The words of a call, and what is above them, are numbers.
LEMMA ArgIs ==
  ASSUME call.args \in Seq(Nat), call.above \in Nat, NEW a \in Nat, a >= 1
  PROVE  Arg(a) \in Nat
<1> DEFINE w == call.args
<1>1. CASE a <= Len(w)
  <2>1. a \in 1 .. Len(w)
    BY <1>1
  <2>2. w[a] \in Nat
    BY <2>1
  <2> QED BY <1>1, <2>2 DEF Arg
<1>2. CASE ~(a <= Len(w))
  BY <1>2 DEF Arg
<1> QED BY <1>1, <1>2

LEMMA TakenIs ==
  ASSUME call.args \in Seq(Nat), call.above \in Nat, NEW d, d.ap \in Nat, d.ap >= 1
  PROVE  Taken(d) \in Int
<1>1. Arg(d.ap) \in Nat /\ Arg(d.ap + 1) \in Nat
  <2>1. d.ap + 1 \in Nat /\ d.ap + 1 >= 1
    OBVIOUS
  <2> QED BY <2>1, ArgIs
<1>2. 2^WORD \in Nat
  <2>1. WORD \in Nat
    BY PrintfAssumption, IntBits, LongBits
  <2>2. 2^WORD = Pow[WORD] /\ Pow[WORD] \in Nat
    BY <2>1, PowIs
  <2> QED BY <2>2
<1> DEFINE x == Arg(d.ap)
           y == Arg(d.ap + 1)
           z == 2^WORD
<1>3. Taken(d) = IF Slots(d) = 1 THEN x ELSE x + z * y
  BY DEF Taken
<1> HIDE DEF x, y, z
<1>4. x \in Nat /\ y \in Nat /\ z \in Nat
  BY <1>1, <1>2 DEF x, y, z
<1>5. z * y \in Nat
  BY <1>4
<1>6. x + z * y \in Int /\ x \in Int
  BY <1>4, <1>5
<1> QED BY <1>3, <1>6

\* What is read into no more bits than an int has is an int's.
LEMMA ValueIs ==
  ASSUME NEW d, Taken(d) \in Int
  PROVE  /\ Value(d) \in Int
         /\ Bits(d) <= INT => -Pow[INT] < Value(d) /\ Value(d) < Pow[INT]
<1> DEFINE b == Bits(d)
           v == Taken(d)
           u == Unsigned(v, b)
           short == b <= INT
<1>1. b \in Nat /\ b > 0 /\ v \in Int
  BY BitsAre
<1>2. Value(d) = Signed(v, b) \/ Value(d) = Signed(u, LONG)
  BY Zenon DEF Value
<1> HIDE DEF b, v
<1>3. b - 1 \in Nat
  BY <1>1
<1>4. u \in Nat /\ u < Pow[b]
  BY <1>1, Modulo DEF Unsigned
<1> HIDE DEF u
<1>5. short => Pow[b] <= Pow[INT] /\ Pow[b - 1] < Pow[INT]
  <2> SUFFICES ASSUME short PROVE Pow[b] <= Pow[INT] /\ Pow[b - 1] < Pow[INT]
    OBVIOUS
  <2>1. Pow[b] <= Pow[INT]
    BY <1>1, IntBits, PowMono
  <2>2. Pow[(b - 1) + 1] = 2 * Pow[b - 1] /\ (b - 1) + 1 = b /\ Pow[b - 1] \in Nat
          /\ Pow[b - 1] > 0
    BY <1>1, <1>3, PowIs
  <2>3. Pow[INT] \in Nat
    BY IntBits, PowIs
  <2> QED BY <2>1, <2>2, <2>3
<1>6. CASE Value(d) = Signed(v, b)
  <2>1. Signed(v, b) \in Int /\ -Pow[b - 1] <= Signed(v, b) /\ Signed(v, b) < Pow[b - 1]
    BY <1>1, SignedIs
  <2>2. Pow[b - 1] \in Nat /\ Pow[INT] \in Nat
    BY <1>3, IntBits, PowIs
  <2>3. /\ Value(d) \in Int
        /\ short => -Pow[INT] < Value(d) /\ Value(d) < Pow[INT]
    BY <1>5, <1>6, <2>1, <2>2
  <2> QED BY <2>3 DEF b
<1>7. CASE Value(d) = Signed(u, LONG)
  <2>1. Signed(u, LONG) \in Int
    BY <1>4, LongBits, SignedIs
  <2>2. ASSUME short PROVE Signed(u, LONG) = u /\ u < Pow[INT]
    <3>1. Pow[INT] <= Pow[LONG - 1] /\ Pow[INT] \in Nat /\ Pow[b] \in Nat
            /\ Pow[LONG - 1] \in Nat
      BY <1>1, IntBits, LongBits, PowMono, PowIs
    <3>2. u < Pow[INT] /\ u < Pow[LONG - 1]
      BY <1>4, <1>5, <2>2, <3>1
    <3>3. 2^LONG = Pow[LONG] /\ 2^(LONG - 1) = Pow[LONG - 1]
      BY LongBits, PowIs, Zenon
    <3>4. u % 2^LONG = u
      <4>1. Pow[LONG] \in Nat /\ Pow[LONG] > 0 /\ u < Pow[LONG]
        BY <1>4, <3>1, <3>2, LongBits, PowIs
      <4>2. u = Pow[LONG] * 0 + u
        BY <1>4, <4>1
      <4>3. u % Pow[LONG] = u
        BY <1>4, <4>1, <4>2, Quotient
      <4> QED BY <3>3, <4>3, Zenon
    <3>5. ~(u >= 2^(LONG - 1))
      <4>1. ~(u >= Pow[LONG - 1])
        BY <1>4, <3>1, <3>2
      <4> QED BY <3>3, <4>1, Zenon
    <3>6. Signed(u, LONG) = u
      BY <3>4, <3>5, Zenon DEF Signed
    <3> QED BY <3>2, <3>6
  <2>3. Pow[INT] \in Nat /\ Pow[INT] > 0
    BY IntBits, PowIs
  <2>4. /\ Value(d) \in Int
        /\ short => -Pow[INT] < Value(d) /\ Value(d) < Pow[INT]
    BY <1>4, <1>7, <2>1, <2>2, <2>3
  <2> QED BY <2>4 DEF b
<1> QED BY <1>2, <1>6, <1>7

LEMMA MagnitudeIs ==
  ASSUME NEW value \in Int
  PROVE  /\ Magnitude(value) \in Nat /\ Magnitude(value) < Pow[LONG]
         /\ -Pow[INT] < value /\ value < Pow[INT] => Magnitude(value) < Pow[INT]
<1> DEFINE x == IF value < 0 THEN -value ELSE value
<1>1. x \in Nat
  OBVIOUS
<1>2. Magnitude(value) = x % 2^LONG
  BY DEF Magnitude
<1>3. -Pow[INT] < value /\ value < Pow[INT] => x < Pow[INT]
  <2>1. Pow[INT] \in Nat
    BY IntBits, PowIs
  <2> QED BY <2>1
<1> HIDE DEF x
<1>4. x % 2^LONG \in Nat /\ x % 2^LONG < Pow[LONG]
  BY <1>1, LongBits, Modulo
<1>5. x % 2^LONG <= x
  <2>1. 2^LONG = Pow[LONG]
    BY LongBits, PowIs, Zenon
  <2>2. Pow[LONG] \in Nat /\ Pow[LONG] > 0
    BY LongBits, PowIs
  <2> DEFINE q == x \div Pow[LONG]
             r == x % Pow[LONG]
  <2>3. q \in Nat /\ r \in Nat /\ x = Pow[LONG] * q + r
    BY <1>1, <2>2, Division
  <2> HIDE DEF q, r
  <2>4. Pow[LONG] * q \in Nat
    BY <2>2, <2>3
  <2>5. r <= x
    BY <2>3, <2>4
  <2> QED BY <2>1, <2>5, Zenon DEF r
<1>6. Pow[INT] \in Nat
  BY IntBits, PowIs
<1> DEFINE y == x % 2^LONG
<1> HIDE DEF y
<1>7. /\ y \in Nat /\ y < Pow[LONG]
      /\ -Pow[INT] < value /\ value < Pow[INT] => y < Pow[INT]
  <2>1. y \in Nat /\ y < Pow[LONG] /\ y <= x
    BY <1>4, <1>5, Zenon DEF y
  <2> QED BY <1>1, <1>3, <1>6, <2>1
<1> QED BY <1>2, <1>7, Zenon DEF y

-----------------------------------------------------------------------------
(* The scanner.                                                            *)

\* d is a directive of a format of n characters, and takes its arguments from
\* the p-th on.
IsDirective(d, n, p) ==
  /\ d = [at |-> d.at, ap |-> d.ap, flags |-> d.flags, width |-> d.width,
          length |-> d.length, specifier |-> d.specifier, base |-> d.base]
  /\ d.at \in 1 .. n + 1 /\ d.ap \in Nat /\ d.ap >= p /\ d.width \in Int /\ d.base \in Bases

LEMMA AtWithin ==
  ASSUME NEW f \in Seq(Characters), NEW k \in Nat, At(f, k) # NUL
  PROVE  k <= Len(f)
BY DEF At

LEMMA PastWithin ==
  ASSUME NEW f \in Seq(Characters), NEW k \in 1 .. Len(f) + 1, NEW S, NUL \notin S
  PROVE  Past(f, k, S) \in 1 .. Len(f) + 1 /\ Past(f, k, S) >= k
<1> DEFINE P == {j \in k .. Len(f) + 1 : At(f, j) \notin S}
<1>1. Len(f) \in Nat
  OBVIOUS
<1>2. At(f, Len(f) + 1) = NUL
  BY <1>1 DEF At
<1>3. Len(f) + 1 \in P
  BY <1>1, <1>2
<1>4. P \in SUBSET Nat /\ P # {}
  BY <1>1, <1>3
<1>5. \A j \in P : j \in 1 .. Len(f) + 1 /\ j >= k
  BY <1>1
<1> HIDE DEF P
<1>6. Min(P) \in P
  BY <1>4, MinIsLeast
<1> QED BY <1>5, <1>6 DEF Past, P

\* A directive by its fields.
Fields(a, p, g, w, l, s, b) ==
  [at |-> a, ap |-> p, flags |-> g, width |-> w, length |-> l, specifier |-> s, base |-> b]

LEMMA Made ==
  ASSUME NEW n \in Nat, NEW p \in Nat, NEW a \in 1 .. n + 1, NEW q \in Nat, q >= p, NEW g,
         NEW w \in Int, NEW l, NEW s, NEW b \in Bases
  PROVE  IsDirective(Fields(a, q, g, w, l, s, b), n, p)
BY DEF IsDirective, Fields

\* A directive has these fields and no others.
LEMMA Named ==
  ASSUME NEW d, NEW n, NEW p, IsDirective(d, n, p)
  PROVE  d = Fields(d.at, d.ap, d.flags, d.width, d.length, d.specifier, d.base)
BY Zenon DEF IsDirective, Fields

\* What the scanner's updates do to a directive.
LEMMA Changed ==
  ASSUME NEW d, NEW n, NEW m, IsDirective(d, n, m)
  PROVE  /\ \A x : [d EXCEPT !.at = x] =
                Fields(x, d.ap, d.flags, d.width, d.length, d.specifier, d.base)
         /\ \A x, y : [d EXCEPT !.at = x, !.flags = y] =
               Fields(x, d.ap, y, d.width, d.length, d.specifier, d.base)
         /\ \A x, y : [d EXCEPT !.at = x, !.width = y] =
               Fields(x, d.ap, d.flags, y, d.length, d.specifier, d.base)
         /\ \A y : [d EXCEPT !.at = @ + 1, !.width = y, !.ap = @ + 1] =
               Fields(d.at + 1, d.ap + 1, d.flags, y, d.length, d.specifier, d.base)
         /\ \A x : [d EXCEPT !.at = x, !.ap = @ + 1] =
               Fields(x, d.ap + 1, d.flags, d.width, d.length, d.specifier, d.base)
         /\ \A y : [d EXCEPT !.at = @ + 1, !.length = y] =
               Fields(d.at + 1, d.ap, d.flags, d.width, y, d.specifier, d.base)
         /\ \A y : [d EXCEPT !.at = @ + 2, !.length = y] =
               Fields(d.at + 2, d.ap, d.flags, d.width, y, d.specifier, d.base)
         /\ \A x : [d EXCEPT !.specifier = x] =
               Fields(d.at, d.ap, d.flags, d.width, d.length, x, d.base)
         /\ \A x : [d EXCEPT !.base = x] =
               Fields(d.at, d.ap, d.flags, d.width, d.length, d.specifier, x)
         /\ \A x, y : [d EXCEPT !.base = x, !.specifier = y] =
               Fields(d.at, d.ap, d.flags, d.width, d.length, y, x)
         /\ \A x, y, z : [d EXCEPT !.base = x, !.specifier = y, !.length = z] =
               Fields(d.at, d.ap, d.flags, d.width, z, y, x)
<1> DEFINE a == d.at
           p == d.ap
           g == d.flags
           w == d.width
           l == d.length
           s == d.specifier
           b == d.base
<1>0. d = Fields(a, p, g, w, l, s, b)
  BY Named, Zenon
<1> HIDE DEF a, p, g, w, l, s, b
<1>1. ASSUME NEW x PROVE [d EXCEPT !.at = x] = Fields(x, p, g, w, l, s, b)
  BY <1>0 DEF Fields
<1>2. ASSUME NEW x, NEW y PROVE [d EXCEPT !.at = x, !.flags = y] = Fields(x, p, y, w, l, s, b)
  <2>1. [d EXCEPT !.at = x] = Fields(x, p, g, w, l, s, b)
    BY <1>0 DEF Fields
  <2>2. [Fields(x, p, g, w, l, s, b) EXCEPT !.flags = y] = Fields(x, p, y, w, l, s, b)
    BY <1>0 DEF Fields
  <2>3. [d EXCEPT !.at = x, !.flags = y] = [[d EXCEPT !.at = x] EXCEPT !.flags = y]
    OBVIOUS
  <2> QED BY <2>1, <2>2, <2>3, Zenon DEF a, p
<1>3. ASSUME NEW x, NEW y PROVE [d EXCEPT !.at = x, !.width = y] = Fields(x, p, g, y, l, s, b)
  <2>1. [d EXCEPT !.at = x] = Fields(x, p, g, w, l, s, b)
    BY <1>0 DEF Fields
  <2>2. [Fields(x, p, g, w, l, s, b) EXCEPT !.width = y] = Fields(x, p, g, y, l, s, b)
    BY <1>0 DEF Fields
  <2>3. [d EXCEPT !.at = x, !.width = y] = [[d EXCEPT !.at = x] EXCEPT !.width = y]
    OBVIOUS
  <2> QED BY <2>1, <2>2, <2>3, Zenon DEF a, p
<1>4. ASSUME NEW y PROVE [d EXCEPT !.at = @ + 1, !.width = y, !.ap = @ + 1] =
      Fields(a + 1, p + 1, g, y, l, s, b)
  <2>1. [d EXCEPT !.at = a + 1] = Fields(a + 1, p, g, w, l, s, b)
    BY <1>0 DEF Fields
  <2>2. [Fields(a + 1, p, g, w, l, s, b) EXCEPT !.width = y] = Fields(a + 1, p, g, y, l, s, b)
    BY <1>0 DEF Fields
  <2>3. [Fields(a + 1, p, g, y, l, s, b) EXCEPT !.ap = p + 1] =
        Fields(a + 1, p + 1, g, y, l, s, b)
    BY <1>0 DEF Fields
  <2>4. [d EXCEPT !.at = @ + 1, !.width = y, !.ap = @ + 1] =
        [[[d EXCEPT !.at = d.at + 1] EXCEPT !.width = y] EXCEPT !.ap = d.ap + 1]
    OBVIOUS
  <2> QED BY <2>1, <2>2, <2>3, <2>4, Zenon DEF a, p
<1>5. ASSUME NEW x PROVE [d EXCEPT !.at = x, !.ap = @ + 1] = Fields(x, p + 1, g, w, l, s, b)
  <2>1. [d EXCEPT !.at = x] = Fields(x, p, g, w, l, s, b)
    BY <1>0 DEF Fields
  <2>2. [Fields(x, p, g, w, l, s, b) EXCEPT !.ap = p + 1] = Fields(x, p + 1, g, w, l, s, b)
    BY <1>0 DEF Fields
  <2>3. [d EXCEPT !.at = x, !.ap = @ + 1] = [[d EXCEPT !.at = x] EXCEPT !.ap = d.ap + 1]
    OBVIOUS
  <2> QED BY <2>1, <2>2, <2>3, Zenon DEF a, p
<1>6. ASSUME NEW y PROVE [d EXCEPT !.at = @ + 1, !.length = y] = Fields(a + 1, p, g, w, y, s, b)
  <2>1. [d EXCEPT !.at = a + 1] = Fields(a + 1, p, g, w, l, s, b)
    BY <1>0 DEF Fields
  <2>2. [Fields(a + 1, p, g, w, l, s, b) EXCEPT !.length = y] = Fields(a + 1, p, g, w, y, s, b)
    BY <1>0 DEF Fields
  <2>3. [d EXCEPT !.at = @ + 1, !.length = y] = [[d EXCEPT !.at = d.at + 1] EXCEPT !.length = y]
    OBVIOUS
  <2> QED BY <2>1, <2>2, <2>3, Zenon DEF a, p
<1>7. ASSUME NEW y PROVE [d EXCEPT !.at = @ + 2, !.length = y] = Fields(a + 2, p, g, w, y, s, b)
  <2>1. [d EXCEPT !.at = a + 2] = Fields(a + 2, p, g, w, l, s, b)
    BY <1>0 DEF Fields
  <2>2. [Fields(a + 2, p, g, w, l, s, b) EXCEPT !.length = y] = Fields(a + 2, p, g, w, y, s, b)
    BY <1>0 DEF Fields
  <2>3. [d EXCEPT !.at = @ + 2, !.length = y] = [[d EXCEPT !.at = d.at + 2] EXCEPT !.length = y]
    OBVIOUS
  <2> QED BY <2>1, <2>2, <2>3, Zenon DEF a, p
<1>8. ASSUME NEW x PROVE [d EXCEPT !.specifier = x] = Fields(a, p, g, w, l, x, b)
  BY <1>0 DEF Fields
<1>9. ASSUME NEW x PROVE [d EXCEPT !.base = x] = Fields(a, p, g, w, l, s, x)
  BY <1>0 DEF Fields
<1>10. ASSUME NEW x, NEW y PROVE [d EXCEPT !.base = x, !.specifier = y] =
      Fields(a, p, g, w, l, y, x)
  <2>1. [d EXCEPT !.base = x] = Fields(a, p, g, w, l, s, x)
    BY <1>0 DEF Fields
  <2>2. [Fields(a, p, g, w, l, s, x) EXCEPT !.specifier = y] = Fields(a, p, g, w, l, y, x)
    BY <1>0 DEF Fields
  <2>3. [d EXCEPT !.base = x, !.specifier = y] = [[d EXCEPT !.base = x] EXCEPT !.specifier = y]
    OBVIOUS
  <2> QED BY <2>1, <2>2, <2>3, Zenon DEF a, p
<1>11. ASSUME NEW x, NEW y, NEW z PROVE [d EXCEPT !.base = x, !.specifier = y, !.length = z] =
      Fields(a, p, g, w, z, y, x)
  <2>1. [d EXCEPT !.base = x] = Fields(a, p, g, w, l, s, x)
    BY <1>0 DEF Fields
  <2>2. [Fields(a, p, g, w, l, s, x) EXCEPT !.specifier = y] = Fields(a, p, g, w, l, y, x)
    BY <1>0 DEF Fields
  <2>3. [Fields(a, p, g, w, l, y, x) EXCEPT !.length = z] = Fields(a, p, g, w, z, y, x)
    BY <1>0 DEF Fields
  <2>4. [d EXCEPT !.base = x, !.specifier = y, !.length = z] =
        [[[d EXCEPT !.base = x] EXCEPT !.specifier = y] EXCEPT !.length = z]
    OBVIOUS
  <2> QED BY <2>1, <2>2, <2>3, <2>4, Zenon DEF a, p
<1> QED BY <1>1, <1>2, <1>3, <1>4, <1>5, <1>6, <1>7, <1>8, <1>9, <1>10, <1>11, Zenon DEF a, p, g, w, l, s, b

LEMMA FlagsScan ==
  ASSUME NEW f \in Seq(Characters), NEW p \in Nat, NEW d, IsDirective(d, Len(f), p)
  PROVE  IsDirective(Flags(f, d), Len(f), p)
<1> DEFINE j == Past(f, d.at, {"-", "+", "#", " ", "0"})
           g == {f[k] : k \in d.at .. j - 1}
<1>1. d.at \in 1 .. Len(f) + 1 /\ d.ap \in Nat /\ d.ap >= p /\ d.base \in Bases
        /\ d.width \in Int /\ Len(f) \in Nat
  BY DEF IsDirective
<1>2. NUL \notin {"-", "+", "#", " ", "0"}
  BY DEF NUL
<1>3. j \in 1 .. Len(f) + 1
  BY <1>1, <1>2, PastWithin
<1>4. Flags(f, d) = [d EXCEPT !.at = j, !.flags = g]
  BY Zenon DEF Flags
<1> HIDE DEF j, g
<1>5. Flags(f, d) = Fields(j, d.ap, g, d.width, d.length, d.specifier, d.base)
  <2>1. \A x, y : [d EXCEPT !.at = x, !.flags = y] =
        Fields(x, d.ap, y, d.width, d.length, d.specifier, d.base)
    BY Changed
  <2> QED BY <1>4, <2>1, Zenon
<1> QED BY <1>1, <1>3, <1>5, Made

LEMMA StarScan ==
  ASSUME call.args \in Seq(Nat), call.above \in Nat,
         NEW f \in Seq(Characters), NEW p \in Nat, p >= 1, NEW d, IsDirective(d, Len(f), p)
  PROVE  IsDirective(Star(f, d), Len(f), p)
<1>1. d.at \in 1 .. Len(f) + 1 /\ d.ap \in Nat /\ d.ap >= p /\ d.base \in Bases
        /\ d.width \in Int /\ Len(f) \in Nat
  BY DEF IsDirective
<1>2. CASE At(f, d.at) = "*"
  <2>1. d.at + 1 \in 1 .. Len(f) + 1
    <3>1. At(f, d.at) # NUL
      BY <1>2 DEF NUL
    <3>2. d.at \in Nat
      BY <1>1
    <3>3. d.at <= Len(f)
      BY <3>1, <3>2, AtWithin
    <3> QED BY <1>1, <3>3
  <2> DEFINE w == Signed(Arg(d.ap), INT)
  <2>0. w \in Int
    <3>1. Arg(d.ap) \in Int
      BY <1>1, ArgIs
    <3> QED BY <3>1, IntBits, SignedIs
  <2>2. Star(f, d) = [d EXCEPT !.at = @ + 1, !.width = w, !.ap = @ + 1]
    BY <1>2, Zenon DEF Star
  <2> HIDE DEF w
  <2>3. Star(f, d) = Fields(d.at + 1, d.ap + 1, d.flags, w, d.length, d.specifier, d.base)
    BY <2>2, Changed, Zenon
  <2>4. d.ap + 1 \in Nat /\ d.ap + 1 >= p
    BY <1>1
  <2> QED BY <1>1, <2>0, <2>1, <2>3, <2>4, Made
<1>3. CASE At(f, d.at) # "*"
  <2>1. Star(f, d) = d
    BY <1>3, Zenon DEF Star
  <2> QED BY <2>1
<1> QED BY <1>2, <1>3

\* The place of a character among the digits, and a number with one more digit.
Place(f, k) == SelectInSeq(digits, LAMBDA x : x = f[k])

Longer(f, a, v) ==
  [j \in Nat |-> IF j = 0 THEN 0 ELSE 10 * v[j - 1] + Place(f, a + j - 1) - 1]

LEMMA PlaceIs ==
  ASSUME NEW f, NEW k
  PROVE  Place(f, k) \in Nat
<1> DEFINE c == f[k]
           I == {j \in 1 .. Len(digits) : digits[j] = c}
           m == SelectInSeq(digits, LAMBDA x : x = c)
<1>1. m = IF I # {} THEN Min(I) ELSE 0
  BY DEF SelectInSeq
<1>2. I \in SUBSET Nat
  <2>1. 1 .. Len(digits) \subseteq Nat
    BY DEF digits
  <2> QED BY <2>1
<1> HIDE DEF I
<1>3. I # {} => Min(I) \in Nat
  BY <1>2, MinIsLeast
<1>4. m \in Nat
  <2> HIDE DEF m
  <2> QED BY <1>1, <1>3
<1> QED BY <1>4, Zenon DEF m, c, Place

\* A width is a number, whatever its digits.
LEMMA NumberIs ==
  ASSUME NEW f, NEW a \in Nat, NEW n \in Nat
  PROVE  Number(f, a, n) \in Int
<1> DEFINE X == Nat \X Int
           h == [x \in X |-> <<x[1] + 1, 10 * x[2] + Place(f, a + x[1]) - 1>>]
<1>1. \A k : Place(f, k) \in Nat
  BY PlaceIs
<1>2. h \in [X -> X] /\ <<0, 0>> \in X
  <2>1. ASSUME NEW x \in X PROVE <<x[1] + 1, 10 * x[2] + Place(f, a + x[1]) - 1>> \in X
    BY <1>1
  <2> QED BY <2>1
<1>3. \A x \in X : h[x] = <<x[1] + 1, 10 * x[2] + Place(f, a + x[1]) - 1>>
  OBVIOUS
<1> HIDE DEF h
<1>4. PICK g \in [Nat -> X] : \A m \in Nat : Repeats(g, <<0, 0>>, h, m)
  <2> HIDE DEF X
  <2> QED BY <1>2, Repetition
<1>5. g[0] = <<0, 0>> /\ \A j \in Nat : g[j] \in X /\ g[j + 1] = h[g[j]]
  <2>1. \A j \in Nat : j + 1 \in Nat /\ j < j + 1
    OBVIOUS
  <2> HIDE DEF X
  <2> QED BY <1>4, <2>1 DEF Repeats
<1>6. \A j \in Nat : g[j][1] = j
  <2> DEFINE T == {j \in Nat : g[j][1] = j}
  <2>1. 0 \in T
    BY <1>5
  <2>2. ASSUME NEW j \in Nat, j \in T PROVE j + 1 \in T
    <3>1. g[j] \in X /\ g[j][1] = j /\ g[j + 1] = h[g[j]]
      BY <1>5, <2>2
    <3> DEFINE y == 10 * g[j][2] + Place(f, a + g[j][1]) - 1
    <3>2. g[j + 1] = <<g[j][1] + 1, y>>
      BY <1>3, <3>1, Zenon
    <3> HIDE DEF y
    <3>3. g[j + 1][1] = j + 1
      BY <3>1, <3>2
    <3> QED BY <3>3
  <2> HIDE DEF T
  <2>3. \A j \in Nat : j \in T
    BY <2>1, <2>2, Induct
  <2> QED BY <2>3 DEF T
<1> DEFINE v == [j \in Nat |-> g[j][2]]
<1>7. \A j \in Nat : v[j] \in Int
  BY <1>5
<1>8. v = Longer(f, a, v)
  <2>1. v[0] = 0
    BY <1>5
  <2>2. ASSUME NEW j \in Nat, j # 0
        PROVE  v[j] = 10 * v[j - 1] + Place(f, a + j - 1) - 1
    <3>1. j - 1 \in Nat /\ (j - 1) + 1 = j /\ a + (j - 1) = a + j - 1
      BY <2>2
    <3>2. g[j] = h[g[j - 1]] /\ g[j - 1] \in X /\ g[j - 1][1] = j - 1
      BY <1>5, <1>6, <3>1
    <3> DEFINE y == 10 * g[j - 1][2] + Place(f, a + g[j - 1][1]) - 1
    <3>3. g[j] = <<g[j - 1][1] + 1, y>>
      BY <1>3, <3>2, Zenon
    <3>4. y = 10 * g[j - 1][2] + Place(f, a + j - 1) - 1
      BY <3>1, <3>2
    <3> HIDE DEF y
    <3>5. g[j][2] = y
      BY <3>3
    <3> QED BY <3>1, <3>4, <3>5
  <2> HIDE DEF v
  <2>3. \A j \in Nat : v[j] = IF j = 0 THEN 0
                               ELSE 10 * v[j - 1] + Place(f, a + j - 1) - 1
    BY <2>1, <2>2, Zenon
  <2>4. v = [j \in Nat |-> v[j]]
    BY DEF v
  <2> QED BY <2>3, <2>4, Zenon DEF Longer
<1> DEFINE u == CHOOSE z : z = Longer(f, a, z)
<1>9. Number(f, a, n) = u[n]
  BY Zenon DEF Number, Longer, Place
<1> HIDE DEF v
<1>10. u = Longer(f, a, u)
  BY <1>8, Zenon
<1> HIDE DEF u
<1>11. \A j \in Nat : u[j] \in Int
  <2> DEFINE T == {j \in Nat : u[j] \in Int}
  <2>1. 0 \in T
    <3>1. Longer(f, a, u)[0] = 0
      BY DEF Longer
    <3> QED BY <1>10, <3>1
  <2>2. ASSUME NEW j \in Nat, j \in T PROVE j + 1 \in T
    <3>1. j + 1 \in Nat /\ j + 1 # 0 /\ (j + 1) - 1 = j /\ u[j] \in Int
      BY <2>2
    <3> DEFINE z == Place(f, a + (j + 1) - 1)
               y == u[(j + 1) - 1]
    <3>2. Longer(f, a, u)[j + 1] = 10 * y + z - 1
      BY <3>1, Zenon DEF Longer
    <3>3. z \in Nat /\ y \in Int
      BY <3>1, PlaceIs
    <3> HIDE DEF z, y
    <3>4. 10 * y + z - 1 \in Int
      BY <3>3
    <3>5. u[j + 1] \in Int
      BY <1>10, <3>2, <3>4, Zenon
    <3> QED BY <3>1, <3>5
  <2> HIDE DEF T
  <2>3. \A j \in Nat : j \in T
    BY <2>1, <2>2, Induct
  <2> QED BY <2>3 DEF T
<1> QED BY <1>9, <1>11

LEMMA NoNUL == NUL \notin Decimal
<1>1. ASSUME NEW k \in 1 .. 10 PROVE digits[k] # NUL
  <2>1. k \in 1 .. 16
    OBVIOUS
  <2> QED BY <2>1, Printable, Zenon
<1> QED BY <1>1, Zenon DEF Decimal

LEMMA WidthScan ==
  ASSUME call.args \in Seq(Nat), call.above \in Nat,
         NEW f \in Seq(Characters), NEW p \in Nat, p >= 1, NEW d, IsDirective(d, Len(f), p)
  PROVE  IsDirective(Width(f, d), Len(f), p)
<1> DEFINE j == Past(f, d.at, Decimal)
           w == Number(f, d.at, j - d.at)
           e == [d EXCEPT !.at = j, !.width = w]
<1>1. d.at \in 1 .. Len(f) + 1 /\ d.ap \in Nat /\ d.ap >= p /\ d.base \in Bases
        /\ d.width \in Int /\ Len(f) \in Nat
  BY DEF IsDirective
<1>2. j \in 1 .. Len(f) + 1 /\ j >= d.at
  BY <1>1, NoNUL, PastWithin
<1>6. w \in Int
  <2> HIDE DEF j
  <2>1. j - d.at \in Nat /\ d.at \in Nat
    BY <1>1, <1>2
  <2> QED BY <2>1, NumberIs
<1>3. Width(f, d) = Star(f, e)
  BY Zenon DEF Width
<1> HIDE DEF j, w
<1>4. e = Fields(j, d.ap, d.flags, w, d.length, d.specifier, d.base)
  <2>1. \A x, y : [d EXCEPT !.at = x, !.width = y] =
        Fields(x, d.ap, d.flags, y, d.length, d.specifier, d.base)
    BY Changed
  <2> QED BY <2>1, Zenon
<1> HIDE DEF e
<1>5. IsDirective(e, Len(f), p)
  BY <1>1, <1>2, <1>4, <1>6, Made
<1> QED BY <1>3, <1>5, StarScan

LEMMA PrecisionScan ==
  ASSUME NEW f \in Seq(Characters), NEW p \in Nat, NEW d, IsDirective(d, Len(f), p)
  PROVE  IsDirective(Precision(f, d), Len(f), p)
<1>1. d.at \in 1 .. Len(f) + 1 /\ d.ap \in Nat /\ d.ap >= p /\ d.base \in Bases
        /\ d.width \in Int /\ Len(f) \in Nat
  BY DEF IsDirective
<1>2. CASE At(f, d.at) = "."
  <2> DEFINE j == Past(f, d.at + 1, Decimal)
  <2>1. d.at + 1 \in 1 .. Len(f) + 1
    <3>1. At(f, d.at) # NUL
      BY <1>2 DEF NUL
    <3>2. d.at \in Nat
      BY <1>1
    <3>3. d.at <= Len(f)
      BY <3>1, <3>2, AtWithin
    <3> QED BY <1>1, <3>3
  <2>2. j \in 1 .. Len(f) + 1
    BY <2>1, NoNUL, PastWithin
  <2>3. Precision(f, d) =
          IF At(f, j) = "*" THEN [d EXCEPT !.at = j + 1, !.ap = @ + 1] ELSE [d EXCEPT !.at = j]
    BY <1>2, Zenon DEF Precision
  <2> HIDE DEF j
  <2>4. CASE At(f, j) = "*"
    <3>1. j + 1 \in 1 .. Len(f) + 1
      <4>1. At(f, j) # NUL /\ j \in Nat
        BY <2>2, <2>4 DEF NUL
      <4>2. j <= Len(f)
        BY <4>1, AtWithin
      <4> QED BY <1>1, <2>2, <4>2
    <3>2. Precision(f, d) = [d EXCEPT !.at = j + 1, !.ap = @ + 1]
      BY <2>3, <2>4, Zenon
    <3>3. Precision(f, d) = Fields(j + 1, d.ap + 1, d.flags, d.width, d.length, d.specifier, d.base)
      BY <3>2, Changed, Zenon
    <3>4. d.ap + 1 \in Nat /\ d.ap + 1 >= p
      BY <1>1
    <3> QED BY <1>1, <3>1, <3>3, <3>4, Made
  <2>5. CASE At(f, j) # "*"
    <3>1. Precision(f, d) = [d EXCEPT !.at = j]
      BY <2>3, <2>5, Zenon
    <3>2. Precision(f, d) = Fields(j, d.ap, d.flags, d.width, d.length, d.specifier, d.base)
      BY <3>1, Changed, Zenon
    <3> QED BY <1>1, <2>2, <3>2, Made
  <2> QED BY <2>4, <2>5
<1>3. CASE At(f, d.at) # "."
  <2>1. Precision(f, d) = d
    BY <1>3, Zenon DEF Precision
  <2> QED BY <2>1
<1> QED BY <1>2, <1>3

LEMMA LengthScan ==
  ASSUME NEW f \in Seq(Characters), NEW p \in Nat, NEW d, IsDirective(d, Len(f), p)
  PROVE  IsDirective(Length(f, d), Len(f), p)
<1>1. d.at \in 1 .. Len(f) + 1 /\ d.ap \in Nat /\ d.ap >= p /\ d.base \in Bases
        /\ d.width \in Int /\ Len(f) \in Nat
  BY DEF IsDirective
<1>2. CASE At(f, d.at) \in {"h", "l", "j", "z", "t", "L"}
  <2>1. d.at + 1 \in 1 .. Len(f) + 1
    <3>1. At(f, d.at) # NUL
      BY <1>2 DEF NUL
    <3>2. d.at \in Nat
      BY <1>1
    <3>3. d.at <= Len(f)
      BY <3>1, <3>2, AtWithin
    <3> QED BY <1>1, <3>3
  <2>2. CASE At(f, d.at + 1) = "h"
    <3>1. Length(f, d) = [d EXCEPT !.at = @ + 1, !.length = "H"]
      BY <1>2, <2>2, Zenon DEF Length
    <3>2. Length(f, d) = Fields(d.at + 1, d.ap, d.flags, d.width, "H", d.specifier, d.base)
      BY <3>1, Changed, Zenon
    <3> QED BY <1>1, <2>1, <3>2, Made
  <2>3. CASE At(f, d.at + 1) = "l"
    <3>1. d.at + 2 \in 1 .. Len(f) + 1
      <4>1. At(f, d.at + 1) # NUL /\ d.at + 1 \in Nat
        BY <2>1, <2>3 DEF NUL
      <4>2. d.at + 1 <= Len(f)
        BY <4>1, AtWithin
      <4> QED BY <1>1, <4>2
    <3>2. At(f, d.at + 1) # "h"
      BY <2>3
    <3>3. Length(f, d) = [d EXCEPT !.at = @ + 2, !.length = "q"]
      BY <1>2, <2>3, <3>2, Zenon DEF Length
    <3>4. Length(f, d) = Fields(d.at + 2, d.ap, d.flags, d.width, "q", d.specifier, d.base)
      BY <3>3, Changed, Zenon
    <3> QED BY <1>1, <3>1, <3>4, Made
  <2>4. CASE At(f, d.at + 1) # "h" /\ At(f, d.at + 1) # "l"
    <3> DEFINE l == At(f, d.at)
    <3>1. Length(f, d) = [d EXCEPT !.at = @ + 1, !.length = l]
      BY <1>2, <2>4, Zenon DEF Length
    <3> HIDE DEF l
    <3>2. Length(f, d) = Fields(d.at + 1, d.ap, d.flags, d.width, l, d.specifier, d.base)
      BY <3>1, Changed, Zenon
    <3> QED BY <1>1, <2>1, <3>2, Made
  <2> QED BY <2>2, <2>3, <2>4
<1>3. CASE At(f, d.at) \notin {"h", "l", "j", "z", "t", "L"}
  <2>1. Length(f, d) = d
    BY <1>3, Zenon DEF Length
  <2> QED BY <2>1
<1> QED BY <1>2, <1>3

LEMMA SpecifierScan ==
  ASSUME NEW f \in Seq(Characters), NEW p \in Nat, NEW d, IsDirective(d, Len(f), p)
  PROVE  IsDirective(Specifier(f, d), Len(f), p)
<1>1. d.at \in 1 .. Len(f) + 1 /\ d.ap \in Nat /\ d.ap >= p /\ d.base \in Bases
        /\ d.width \in Int /\ Len(f) \in Nat
  BY DEF IsDirective
<1> DEFINE s == At(f, d.at)
<1>2. Specifier(f, d) = [d EXCEPT !.specifier = s]
  BY Zenon DEF Specifier
<1> HIDE DEF s
<1>3. Specifier(f, d) = Fields(d.at, d.ap, d.flags, d.width, d.length, s, d.base)
  BY <1>2, Changed, Zenon
<1> QED BY <1>1, <1>3, Made

LEMMA BaseScan ==
  ASSUME NEW n \in Nat, NEW p \in Nat, NEW d, IsDirective(d, n, p)
  PROVE  IsDirective(Base(d), n, p)
<1>1. d.at \in 1 .. n + 1 /\ d.ap \in Nat /\ d.ap >= p /\ d.base \in Bases /\ d.width \in Int
  BY DEF IsDirective
<1>2. 8 \in Bases /\ 16 \in Bases /\ 17 \in Bases
  BY DEF Bases
<1> DEFINE s == d.specifier
<1>3. Base(d) =
  CASE s = "o" -> [d EXCEPT !.base = 8, !.specifier = "u"]
    [] s = "p" -> [d EXCEPT !.base = 16, !.specifier = "u", !.length = "z"]
    [] s = "X" -> [d EXCEPT !.base = 16]
    [] s = "x" -> [d EXCEPT !.base = 17]
    [] OTHER -> d
  BY Zenon DEF Base
<1> HIDE DEF s
<1>4. CASE s = "o"
  <2>0. s # "p" /\ s # "X" /\ s # "x"
    BY <1>4
  <2>1. Base(d) = [d EXCEPT !.base = 8, !.specifier = "u"]
    BY <1>3, <1>4, <2>0, Zenon
  <2>2. Base(d) = Fields(d.at, d.ap, d.flags, d.width, d.length, "u", 8)
    <3>1. \A x, y : [d EXCEPT !.base = x, !.specifier = y] =
          Fields(d.at, d.ap, d.flags, d.width, d.length, y, x)
      BY Changed
    <3> QED BY <2>1, <3>1, Zenon
  <2> QED BY <1>1, <1>2, <2>2, Made
<1>5. CASE s = "p"
  <2>0. s # "o" /\ s # "X" /\ s # "x"
    BY <1>5
  <2>1. Base(d) = [d EXCEPT !.base = 16, !.specifier = "u", !.length = "z"]
    BY <1>3, <1>5, <2>0, Zenon
  <2>2. Base(d) = Fields(d.at, d.ap, d.flags, d.width, "z", "u", 16)
    <3>1. \A x, y, z : [d EXCEPT !.base = x, !.specifier = y, !.length = z] =
          Fields(d.at, d.ap, d.flags, d.width, z, y, x)
      BY Changed
    <3> QED BY <2>1, <3>1, Zenon
  <2> QED BY <1>1, <1>2, <2>2, Made
<1>6. CASE s = "X"
  <2>0. s # "o" /\ s # "p" /\ s # "x"
    BY <1>6
  <2>1. Base(d) = [d EXCEPT !.base = 16]
    BY <1>3, <1>6, <2>0, Zenon
  <2>2. Base(d) = Fields(d.at, d.ap, d.flags, d.width, d.length, d.specifier, 16)
    <3>1. \A x : [d EXCEPT !.base = x] =
          Fields(d.at, d.ap, d.flags, d.width, d.length, d.specifier, x)
      BY Changed
    <3> QED BY <2>1, <3>1, Zenon
  <2> QED BY <1>1, <1>2, <2>2, Made
<1>7. CASE s = "x"
  <2>0. s # "o" /\ s # "p" /\ s # "X"
    BY <1>7
  <2>1. Base(d) = [d EXCEPT !.base = 17]
    BY <1>3, <1>7, <2>0, Zenon
  <2>2. Base(d) = Fields(d.at, d.ap, d.flags, d.width, d.length, d.specifier, 17)
    <3>1. \A x : [d EXCEPT !.base = x] =
          Fields(d.at, d.ap, d.flags, d.width, d.length, d.specifier, x)
      BY Changed
    <3> QED BY <2>1, <3>1, Zenon
  <2> QED BY <1>1, <1>2, <2>2, Made
<1>8. CASE s # "o" /\ s # "p" /\ s # "X" /\ s # "x"
  <2>1. Base(d) = d
    BY <1>3, <1>8, Zenon
  <2> QED BY <2>1
<1> QED BY <1>4, <1>5, <1>6, <1>7, <1>8

\* The scanner yields a directive with a base that it knows.
LEMMA ScanIs ==
  ASSUME call.args \in Seq(Nat), call.above \in Nat,
         NEW f \in Seq(Characters), NEW k \in 1 .. Len(f) + 1, NEW p \in Nat, p >= 1
  PROVE  IsDirective(Scan(f, k, p), Len(f), p)
<1> DEFINE d0 == [at |-> k, ap |-> p, flags |-> {}, width |-> 0, length |-> "", specifier |-> "", base |-> 10]
           d1 == Flags(f, d0)
           d2 == Width(f, d1)
           d3 == Precision(f, d2)
           d4 == Length(f, d3)
           d5 == Specifier(f, d4)
<1>0. Len(f) \in Nat
  OBVIOUS
<1>1. IsDirective(d0, Len(f), p)
  <2>1. 10 \in Bases /\ p >= p /\ 0 \in Int
    BY DEF Bases
  <2>2. IsDirective(Fields(k, p, {}, 0, "", "", 10), Len(f), p)
    BY <1>0, <2>1, Made
  <2> QED BY <2>2 DEF Fields
<1>2. Scan(f, k, p) = Base(d5)
  BY DEF Scan
<1> HIDE DEF d0, d1, d2, d3, d4, d5
<1>3. IsDirective(d1, Len(f), p)
  BY <1>1, FlagsScan DEF d1
<1>4. IsDirective(d2, Len(f), p)
  BY <1>3, WidthScan DEF d2
<1>5. IsDirective(d3, Len(f), p)
  BY <1>4, PrecisionScan DEF d3
<1>6. IsDirective(d4, Len(f), p)
  BY <1>5, LengthScan DEF d4
<1>7. IsDirective(d5, Len(f), p)
  BY <1>6, SpecifierScan DEF d5
<1>8. IsDirective(Base(d5), Len(f), p)
  BY <1>0, <1>7, BaseScan
<1> QED BY <1>2, <1>8

-----------------------------------------------------------------------------
(* The invariants.                                                         *)

LEMMA ReadingIs ==
  ASSUME call' = call, i' = i
  PROVE  Reading' = {d \in {Scan(Format, i + 1, a) : a \in 1 .. ap'} : d.ap + Slots(d) = ap'}
BY DEF Reading, Scan, Width, Star, Format, Arg

IInv ==
  /\ call \in Calls /\ i \in Nat /\ i >= 1 /\ ap \in Nat /\ ap >= 1
  /\ FieldsFit /\ NeverHangs

LEMMA InitIInv == Init => IInv
<1> SUFFICES ASSUME Init PROVE IInv
  OBVIOUS
<1> QED BY DEF Init, IInv, FieldsFit, NeverHangs

\* The other steps get nothing stuck.
LEMMA Unstuck ==
  ASSUME pc' \in {"scan", "returned", "overread", "wild"}
  PROVE  FieldsFit' /\ NeverHangs'
<1>1. pc' # "overrun" /\ pc' # "hung"
  OBVIOUS
<1> QED BY <1>1 DEF FieldsFit, NeverHangs

\* The directive that a step reads.
LEMMA Read ==
  ASSUME IInv, At(Format, i) = "%"
  PROVE  /\ call.args \in Seq(Nat) /\ call.above \in Nat
         /\ IsDirective(Scan(Format, i + 1, ap), Len(Format), ap)
         /\ Scan(Format, i + 1, ap).at + 1 \in Nat /\ Scan(Format, i + 1, ap).at + 1 >= 1
         /\ Scan(Format, i + 1, ap).ap \in Nat /\ Scan(Format, i + 1, ap).ap >= ap
<1>1. Format \in Seq(Characters) /\ call.args \in Seq(Nat) /\ call.above \in Nat
  BY CharactersAssumption DEF IInv, Format
<1>2. i \in Nat /\ i >= 1 /\ ap \in Nat /\ ap >= 1
  BY DEF IInv
<1> DEFINE f == Format
           d == Scan(f, i + 1, ap)
<1>3. i <= Len(f) /\ Len(f) \in Nat
  <2>1. At(f, i) # NUL
    BY DEF NUL
  <2> HIDE DEF f
  <2> QED BY <1>1, <1>2, <2>1, AtWithin DEF f
<1>4. i + 1 \in 1 .. Len(f) + 1
  BY <1>2, <1>3
<1>5. IsDirective(d, Len(f), ap)
  BY <1>1, <1>2, <1>4, ScanIs
<1> HIDE DEF d, f
<1>6. d.at + 1 \in Nat /\ d.at + 1 >= 1 /\ d.ap \in Nat /\ d.ap >= ap
  BY <1>3, <1>5 DEF IsDirective
<1> QED BY <1>1, <1>5, <1>6 DEF d, f

LEMMA NextScans ==
  ASSUME NEW d, d.at + 1 \in Nat, d.at + 1 >= 1, NextAt(d)
  PROVE  i' \in Nat /\ i' >= 1 /\ pc' \in {"scan", "overread"}
BY DEF NextAt

LEMMA LiteralIInv == IInv /\ Literal => IInv'
<1> SUFFICES ASSUME IInv, Literal PROVE IInv'
  OBVIOUS
<1>1. i \in Nat /\ i >= 1 /\ call' = call /\ ap' = ap /\ pc' = "scan" /\ i' = i + 1
  BY DEF IInv, Literal
<1>2. FieldsFit' /\ NeverHangs'
  BY <1>1, Unstuck
<1> QED BY <1>1, <1>2 DEF IInv

LEMMA ReturnIInv == IInv /\ ReturnChars => IInv'
<1> SUFFICES ASSUME IInv, ReturnChars PROVE IInv'
  OBVIOUS
<1>1. FieldsFit' /\ NeverHangs'
  BY Unstuck DEF ReturnChars
<1> QED BY <1>1 DEF IInv, ReturnChars

LEMMA TextIInv == IInv /\ ConvertText => IInv'
<1> SUFFICES ASSUME IInv, ConvertText PROVE IInv'
  OBVIOUS
<1> DEFINE d == Scan(Format, i + 1, ap)
<1>1. /\ d.at + 1 \in Nat /\ d.at + 1 >= 1 /\ d.ap \in Nat /\ d.ap >= ap
  BY Read DEF ConvertText
<1>2. ap' = d.ap + 1 /\ call' = call /\ (NextAt(d) \/ (pc' = "wild" /\ i' = i))
  BY Zenon DEF ConvertText
<1> HIDE DEF d
<1>3. i' \in Nat /\ i' >= 1 /\ pc' \in {"scan", "overread", "wild"}
  <2>1. CASE NextAt(d)
    BY <1>1, <2>1, NextScans
  <2>2. CASE pc' = "wild" /\ i' = i
    BY <2>2 DEF IInv
  <2> QED BY <1>2, <2>1, <2>2
<1>4. FieldsFit' /\ NeverHangs'
  BY <1>3, Unstuck
<1> QED BY <1>1, <1>2, <1>3, <1>4 DEF IInv

LEMMA CountIInv == IInv /\ ConvertCount => IInv'
<1> SUFFICES ASSUME IInv, ConvertCount PROVE IInv'
  OBVIOUS
<1> DEFINE d == Scan(Format, i + 1, ap)
<1>1. /\ d.at + 1 \in Nat /\ d.at + 1 >= 1 /\ d.ap \in Nat /\ d.ap >= ap
  BY Read DEF ConvertCount
<1>2. ap' = d.ap + 1 /\ NextAt(d) /\ call' = call
  BY DEF ConvertCount
<1> HIDE DEF d
<1>4. i' \in Nat /\ i' >= 1 /\ pc' \in {"scan", "overread"}
  BY <1>1, <1>2, NextScans
<1>5. FieldsFit' /\ NeverHangs'
  BY <1>4, Unstuck
<1> QED BY <1>1, <1>2, <1>4, <1>5 DEF IInv

LEMMA NothingIInv == IInv /\ ConvertNothing => IInv'
<1> SUFFICES ASSUME IInv, ConvertNothing PROVE IInv'
  OBVIOUS
<1> DEFINE d == Scan(Format, i + 1, ap)
<1>1. /\ d.at + 1 \in Nat /\ d.at + 1 >= 1 /\ d.ap \in Nat /\ d.ap >= ap
  BY Read DEF ConvertNothing
<1>2. ap' = d.ap /\ NextAt(d) /\ call' = call
  BY DEF ConvertNothing
<1> HIDE DEF d
<1>4. i' \in Nat /\ i' >= 1 /\ pc' \in {"scan", "overread"}
  BY <1>1, <1>2, NextScans
<1>5. FieldsFit' /\ NeverHangs'
  BY <1>4, Unstuck
<1> QED BY <1>1, <1>2, <1>4, <1>5 DEF IInv

LEMMA IntegerIInv == IInv /\ ConvertInteger => IInv'
<1> SUFFICES ASSUME IInv, ConvertInteger PROVE IInv'
  OBVIOUS
<1> DEFINE d == Scan(Format, i + 1, ap)
           value == Value(d)
           m == Magnitude(value)
           u == Unpadded(value, d.base, d.flags)
           b == int_str(value, d.base, d.flags, d.width)
<1>1. /\ d.at + 1 \in Nat /\ d.at + 1 >= 1 /\ d.ap \in Nat /\ d.ap >= ap
      /\ IsDirective(d, Len(Format), ap) /\ call.args \in Seq(Nat) /\ call.above \in Nat
  BY Read DEF ConvertInteger
<1>2. /\ IsInteger(d) /\ Show(d, value) /\ ap' = d.ap + Slots(d) /\ call' = call
      /\ Slots(d) \in {1, 2} /\ ap \in Nat /\ ap >= 1
  BY BitsAre, Zenon DEF ConvertInteger, IInv
<1>3. i' = i => d \in Reading'
  <2> SUFFICES ASSUME i' = i PROVE d \in Reading'
    OBVIOUS
  <2>1. ap \in 1 .. ap' /\ d.ap + Slots(d) = ap'
    <3> HIDE DEF d
    <3> QED BY <1>1, <1>2
  <2>2. Reading' = {e \in {Scan(Format, i + 1, a) : a \in 1 .. ap'} : e.ap + Slots(e) = ap'}
    BY <1>2, ReadingIs
  <2> QED BY <2>1, <2>2, Zenon
<1> HIDE DEF d
<1>10. ap' \in Nat /\ ap' >= 1
  BY <1>1, <1>2
<1>4. d.base \in Bases /\ d.width \in Int
  BY <1>1 DEF IsDirective
<1>5. /\ value \in Int
      /\ Bits(d) <= INT => -Pow[INT] < value /\ value < Pow[INT]
  <2>1. d.ap >= 1
    BY <1>1, <1>2
  <2>2. Taken(d) \in Int
    BY <1>1, <2>1, TakenIs
  <2> QED BY <2>2, ValueIs
<1> HIDE DEF value
<1>6. /\ m \in Nat /\ m < Pow[LONG]
      /\ -Pow[INT] < value /\ value < Pow[INT] => m < Pow[INT]
  BY <1>5, MagnitudeIs
<1>8. CASE Shifts(m, d.base) = {}
  <2>1. pc' = "hung" /\ i' = i
    BY <1>2, <1>8 DEF Show
  <2>2. Bits(d) > INT
    <3> SUFFICES ASSUME ~(Bits(d) > INT) PROVE FALSE
      OBVIOUS
    <3>0. Bits(d) <= INT
      BY BitsAre, IntBits
    <3>1. m < Pow[INT]
      BY <1>5, <1>6, <3>0
    <3> HIDE DEF m
    <3> QED BY <1>4, <1>6, <1>8, <3>1, ShortEnds
  <2>3. NeverHangs'
    BY <1>3, <2>1, <2>2, Zenon DEF NeverHangs
  <2>4. FieldsFit'
    BY <2>1 DEF FieldsFit
  <2> QED BY <1>2, <1>10, <2>1, <2>3, <2>4 DEF IInv
<1>9. CASE Shifts(m, d.base) # {}
  <2>1. u \in Seq(Byte) /\ Len(u) <= LONG + 1
    BY <1>4, <1>6, <1>9, UnpaddedFits
  <2>2. b = Padded(u, d.flags, d.width)
    BY DEF int_str
  <2>3. IF Len(u) > LONG + 1 \/ Len(b) >= BUF
        THEN pc' = "overrun" /\ UNCHANGED i
        ELSE NextAt(d)
    BY <1>2, <1>9 DEF Show
  <2> HIDE DEF u, b, m
  <2>4. Len(u) \in Nat /\ BUF \in Nat /\ LONG + 1 < BUF /\ LONG \in Nat
    BY <2>1, PrintfAssumption, LongBits
  <2>5. b \in Seq(Byte)
    <3> DEFINE w == IF d.width > Len(u) THEN d.width ELSE Len(u)
    <3>1. w \in Nat /\ d.width <= w /\ Len(u) <= w
      BY <1>4, <2>4
    <3> HIDE DEF w
    <3> QED BY <1>4, <2>1, <2>2, <3>1, PaddedFits
  <2>6. Len(b) \in Nat
    BY <2>5
  <2>7. CASE Len(b) >= BUF
    <3>1. pc' = "overrun" /\ i' = i
      BY <2>3, <2>7
    <3>2. d.width >= BUF
      <4> SUFFICES ASSUME ~(d.width >= BUF) PROVE FALSE
        OBVIOUS
      <4>1. d.width <= BUF - 1 /\ Len(u) <= BUF - 1 /\ BUF - 1 \in Nat
        BY <1>4, <2>1, <2>4
      <4>2. Len(b) <= BUF - 1
        BY <1>4, <2>1, <2>2, <4>1, PaddedFits
      <4> QED BY <2>4, <2>6, <2>7, <4>2
    <3>3. FieldsFit'
      BY <1>3, <3>1, <3>2, Zenon DEF FieldsFit
    <3>4. NeverHangs'
      BY <3>1 DEF NeverHangs
    <3> QED BY <1>2, <1>10, <3>1, <3>3, <3>4 DEF IInv
  <2>8. CASE ~(Len(b) >= BUF)
    <3>1. ~(Len(u) > LONG + 1)
      BY <2>1, <2>4
    <3>2. NextAt(d)
      BY <2>3, <2>8, <3>1
    <3>6. i' \in Nat /\ i' >= 1 /\ pc' \in {"scan", "overread"}
      BY <1>1, <3>2, NextScans
    <3>7. FieldsFit' /\ NeverHangs'
      BY <3>6, Unstuck
    <3> QED BY <1>2, <1>10, <3>6, <3>7 DEF IInv
  <2> QED BY <2>7, <2>8
<1> QED BY <1>8, <1>9

LEMMA NextIInv == IInv /\ [Next]_vars => IInv'
<1> SUFFICES ASSUME IInv, [Next]_vars PROVE IInv'
  OBVIOUS
<1>1. CASE UNCHANGED vars
  <2>1. call' = call /\ pc' = pc /\ i' = i /\ ap' = ap
    BY <1>1 DEF vars
  <2>2. Reading' = Reading
    <3>1. Reading' = {d \in {Scan(Format, i + 1, a) : a \in 1 .. ap} : d.ap + Slots(d) = ap}
      BY <2>1, ReadingIs
    <3> QED BY <3>1 DEF Reading
  <2> QED BY <2>1, <2>2 DEF IInv, FieldsFit, NeverHangs
<1> QED BY <1>1, LiteralIInv, ReturnIInv, TextIInv, CountIInv, NothingIInv, IntegerIInv DEF Next

LEMMA Safe == Spec => []IInv
<1>1. Init => IInv
  BY InitIInv
<1>2. IInv /\ [Next]_vars => IInv'
  BY NextIInv
<1> QED BY <1>1, <1>2, PTL DEF Spec

(* No value of an int, of either sign and in any base, sends the division  *)
(* into its endless loop, for every format, every word found for an        *)
(* argument and every width of the types: what hangs was read into more    *)
(* bits than an int has (printf.c:20-23, 55-58).                           *)
THEOREM ShiftsEnd == Spec => []NeverHangs
<1>1. IInv => NeverHangs
  BY DEF IInv
<1> QED BY <1>1, Safe, PTL

(* For every format and every word found for an argument, sign, digits and *)
(* pad stay within the two buffers of __int_str unless the field asked for *)
(* is as wide as the buffer (printf.c:43-92).                              *)
THEOREM BuffersHold == Spec => []FieldsFit
<1>1. IInv => FieldsFit
  BY DEF IInv
<1> QED BY <1>1, Safe, PTL
=============================================================================
