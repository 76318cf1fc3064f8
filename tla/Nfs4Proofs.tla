----------------------------- MODULE Nfs4Proofs -----------------------------
(***************************************************************************)
(* Theorems about the stubs of prot_clnt.c, the server of prot_svc.c and   *)
(* the routines of prot_xdr.c, for all limits, all scopes and any number   *)
(* of calls, messages and starts.                                          *)
(*                                                                         *)
(* What a stub is given reaches the procedure, and its answer the stub,    *)
(* because decoding goes the same way as encoding did; what decoding       *)
(* allocates is freed because freeing goes the same way as decoding.  Both *)
(* rest on the tables of Nfs4Types being well formed, and on walks being   *)
(* functions of the number of calls, over which sets allow an induction.   *)
(***************************************************************************)
EXTENDS Nfs4Rpc, SequenceTheorems, WellFoundedInduction, TLAPS

\* Induction, for a set.
LEMMA Induct ==
  ASSUME NEW S, 0 \in S, \A n \in Nat : n \in S => n + 1 \in S
  PROVE  \A n \in Nat : n \in S
<1> DEFINE T == Nat \ S
           R == {ss \in Nat \X Nat : ss[1] < ss[2]}
<1> SUFFICES ASSUME T # {} PROVE FALSE
  OBVIOUS
<1>1. R = OpToRel(<, Nat)
  BY DEF OpToRel
<1>2. IsWellFoundedOn(R, Nat)
  BY <1>1, NatLessThanWellFounded
<1>3. PICK x \in T : \A y \in T : <<y, x>> \notin R
  BY <1>2, WFMin
<1>4. x - 1 \in Nat /\ (x - 1) + 1 = x /\ <<x - 1, x>> \in R
  BY <1>3
<1>5. x - 1 \notin T
  BY <1>3, <1>4
<1> QED BY <1>3, <1>4, <1>5

-----------------------------------------------------------------------------
(* A walk is a sequence of calls of Advance.                               *)

\* Naming the member of a singleton.
LEMMA TheOnly == ASSUME NEW a PROVE The({a}) = a
BY DEF The

\* g has the first n steps of a walk from x.
Goes(x, n, g) == g[0] = x /\ \A j \in 1 .. n : g[j] = Advance(g[j - 1])

Walk(x) == [k \in Nat |-> CHOOSE y : \E g : Goes(x, k, g) /\ y = g[k]]

\* A walk from x is determined by its length, ...
LEMMA GoesUnique ==
  ASSUME NEW x, NEW n \in Nat, NEW g, NEW h, Goes(x, n, g), Goes(x, n, h)
  PROVE  \A j \in 0 .. n : g[j] = h[j]
<1> DEFINE S == {j \in Nat : j <= n => g[j] = h[j]}
<1>1. 0 \in S
  BY DEF Goes
<1>2. ASSUME NEW j \in Nat, j \in S PROVE j + 1 \in S
  <2> SUFFICES ASSUME j + 1 <= n PROVE g[j + 1] = h[j + 1]
    OBVIOUS
  <2>1. j + 1 \in 1 .. n /\ (j + 1) - 1 = j /\ g[j] = h[j]
    BY <1>2
  <2>2. g[j + 1] = Advance(g[(j + 1) - 1]) /\ h[j + 1] = Advance(h[(j + 1) - 1])
    BY <2>1, Zenon DEF Goes
  <2> QED BY <2>1, <2>2
<1> HIDE DEF S
<1>3. \A j \in Nat : j \in S
  BY <1>1, <1>2, Induct
<1> QED BY <1>3 DEF S

\* ... and there is one of every length.
LEMMA GoesExist ==
  ASSUME NEW x
  PROVE  \A n \in Nat : \E g : Goes(x, n, g)
<1> DEFINE S == {n \in Nat : \E g : Goes(x, n, g)}
<1>1. 0 \in S
  <2> DEFINE g == [j \in {0} |-> x]
  <2>1. Goes(x, 0, g)
    BY DEF Goes
  <2> QED BY <2>1
<1>2. ASSUME NEW n \in Nat, n \in S PROVE n + 1 \in S
  <2>1. PICK g : Goes(x, n, g)
    BY <1>2
  <2> DEFINE h == [j \in Nat |-> IF j <= n THEN g[j] ELSE Advance(g[n])]
  <2>2. h[0] = x
    BY <2>1 DEF Goes
  <2>3. ASSUME NEW j \in 1 .. n + 1 PROVE h[j] = Advance(h[j - 1])
    <3>1. CASE j <= n
      <4>1. j \in 1 .. n /\ j \in Nat /\ j - 1 \in Nat /\ j - 1 <= n
        BY <3>1
      <4>2. g[j] = Advance(g[j - 1])
        BY <2>1, <4>1 DEF Goes
      <4>3. h[j] = g[j] /\ h[j - 1] = g[j - 1]
        BY <4>1
      <4> HIDE DEF h
      <4> QED BY <4>2, <4>3
    <3>2. CASE j = n + 1
      <4>1. h[j] = Advance(g[n]) /\ h[j - 1] = g[n]
        BY <3>2
      <4> HIDE DEF h
      <4> QED BY <4>1
    <3> QED BY <3>1, <3>2
  <2> HIDE DEF h
  <2>4. Goes(x, n + 1, h)
    BY <2>2, <2>3 DEF Goes
  <2> QED BY <2>4
<1> HIDE DEF S
<1>3. \A n \in Nat : n \in S
  BY <1>1, <1>2, Induct
<1> QED BY <1>3 DEF S

\* Walk(x) is that walk.
LEMMA WalkIs ==
  ASSUME NEW x, NEW n \in Nat, NEW g, Goes(x, n, g)
  PROVE  Walk(x)[n] = g[n]
<1> DEFINE P(y) == \E h : Goes(x, n, h) /\ y = h[n]
<1>1. P(g[n])
  OBVIOUS
<1>2. P(CHOOSE y : P(y))
  BY <1>1, Zenon
<1>3. PICK h : Goes(x, n, h) /\ (CHOOSE y : P(y)) = h[n]
  BY <1>2, Zenon
<1>4. h[n] = g[n]
  <2>1. \A j \in 0 .. n : h[j] = g[j]
    BY <1>3, GoesUnique
  <2> QED BY <2>1
<1>5. Walk(x)[n] = CHOOSE y : P(y)
  BY DEF Walk
<1> QED BY <1>3, <1>4, <1>5

\* A walk goes on from where it is.
LEMMA WalkStep ==
  ASSUME NEW x
  PROVE  /\ Walk(x)[0] = x
         /\ \A n \in Nat : Walk(x)[n + 1] = Advance(Walk(x)[n])
<1>1. Walk(x)[0] = x
  <2>1. PICK g : Goes(x, 0, g)
    BY GoesExist
  <2> QED BY <2>1, WalkIs DEF Goes
<1>2. ASSUME NEW n \in Nat PROVE Walk(x)[n + 1] = Advance(Walk(x)[n])
  <2>1. n + 1 \in Nat
    OBVIOUS
  <2>2. PICK g : Goes(x, n + 1, g)
    BY <2>1, GoesExist
  <2>3. Goes(x, n, g)
    BY <2>2 DEF Goes
  <2>4. Walk(x)[n + 1] = g[n + 1] /\ Walk(x)[n] = g[n]
    BY <2>1, <2>2, <2>3, WalkIs
  <2>5. n + 1 \in 1 .. n + 1 /\ (n + 1) - 1 = n
    OBVIOUS
  <2>6. g[n + 1] = Advance(g[(n + 1) - 1])
    BY <2>2, <2>5, Zenon DEF Goes
  <2> QED BY <2>4, <2>5, <2>6
<1> QED BY <1>1, <1>2

\* A walk that has ended stays where it is.
LEMMA AdvanceEnded == ASSUME NEW x, Ended(x) PROVE Advance(x) = x
BY DEF Advance

\* A walk that has ended stays where it is.
LEMMA WalkEnded ==
  ASSUME NEW x, NEW n \in Nat, Ended(Walk(x)[n])
  PROVE  \A m \in Nat : Walk(x)[n + m] = Walk(x)[n]
<1> DEFINE S == {m \in Nat : Walk(x)[n + m] = Walk(x)[n]}
<1>1. 0 \in S
  OBVIOUS
<1>2. ASSUME NEW m \in Nat, m \in S PROVE m + 1 \in S
  <2>1. Walk(x)[n + m] = Walk(x)[n]
    BY <1>2
  <2>2. n + m \in Nat /\ (n + m) + 1 = n + (m + 1)
    OBVIOUS
  <2>3. Walk(x)[(n + m) + 1] = Advance(Walk(x)[n + m])
    BY <2>2, WalkStep
  <2>4. Advance(Walk(x)[n]) = Walk(x)[n]
    BY AdvanceEnded
  <2>5. Walk(x)[n + (m + 1)] = Walk(x)[n]
    BY <2>1, <2>2, <2>3, <2>4
  <2> QED BY <2>5
<1> HIDE DEF S
<1>3. \A m \in Nat : m \in S
  BY <1>1, <1>2, Induct
<1> QED BY <1>3 DEF S

\* A walk from a place on a walk is the rest of it.
LEMMA WalkOn ==
  ASSUME NEW x, NEW n \in Nat
  PROVE  \A m \in Nat : Walk(Walk(x)[n])[m] = Walk(x)[n + m]
<1> DEFINE S == {m \in Nat : Walk(Walk(x)[n])[m] = Walk(x)[n + m]}
<1>1. 0 \in S
  <2>1. Walk(Walk(x)[n])[0] = Walk(x)[n] /\ n + 0 = n
    BY WalkStep
  <2> QED BY <2>1
<1>2. ASSUME NEW m \in Nat, m \in S PROVE m + 1 \in S
  <2>1. Walk(Walk(x)[n])[m] = Walk(x)[n + m]
    BY <1>2
  <2>2. n + m \in Nat /\ (n + m) + 1 = n + (m + 1)
    OBVIOUS
  <2>3. Walk(x)[(n + m) + 1] = Advance(Walk(x)[n + m])
    BY <2>2, WalkStep
  <2>4. Walk(Walk(x)[n])[m + 1] = Advance(Walk(Walk(x)[n])[m])
    BY WalkStep
  <2>5. Walk(Walk(x)[n])[m + 1] = Walk(x)[n + (m + 1)]
    BY <2>1, <2>2, <2>3, <2>4
  <2> QED BY <2>5
<1> HIDE DEF S
<1>3. \A m \in Nat : m \in S
  BY <1>1, <1>2, Induct
<1> QED BY <1>3 DEF S

\* The recursion of Advance8 is a walk.
LEMMA EightSteps == ASSUME NEW x PROVE Advance8(x) = Walk(x)[8]
<1> DEFINE Is(g) == g = [k \in Nat |-> IF k = 0 THEN x ELSE The({Advance(y) : y \in {g[k - 1]}})]
           go == CHOOSE g : Is(g)
<1>1. ASSUME NEW a PROVE The({Advance(y) : y \in {a}}) = Advance(a)
  <2>1. {Advance(y) : y \in {a}} = {Advance(a)}
    OBVIOUS
  <2> QED BY <2>1, TheOnly
<1>2. Is(Walk(x))
  <2> DEFINE w == Walk(x)
  <2>1. w = [k \in Nat |-> w[k]]
    BY DEF Walk
  <2>2. ASSUME NEW k \in Nat, k # 0 PROVE w[k] = The({Advance(y) : y \in {w[k - 1]}})
    <3>1. k - 1 \in Nat /\ (k - 1) + 1 = k
      BY <2>2
    <3>2. w[(k - 1) + 1] = Advance(w[k - 1])
      BY <3>1, WalkStep
    <3> QED BY <1>1, <3>1, <3>2
  <2>3. w[0] = x
    BY WalkStep
  <2> HIDE DEF w
  <2>4. \A k \in Nat : w[k] = IF k = 0 THEN x ELSE The({Advance(y) : y \in {w[k - 1]}})
    BY <2>2, <2>3
  <2>5. Is(w)
    BY <2>1, <2>4
  <2> QED BY <2>5 DEF w
<1>3. Is(go)
  BY <1>2, Zenon
<1>4. Advance8(x) = IF Ended(x) THEN x ELSE go[8]
  BY DEF Advance8
<1> HIDE DEF go
<1>5. Goes(x, 8, go)
  <2>1. \A k \in Nat : go[k] = IF k = 0 THEN x ELSE The({Advance(y) : y \in {go[k - 1]}})
    BY <1>3
  <2>2. go[0] = x
    BY <2>1
  <2>3. ASSUME NEW k \in 1 .. 8 PROVE go[k] = Advance(go[k - 1])
    <3>1. k \in Nat /\ k # 0
      OBVIOUS
    <3>2. go[k] = The({Advance(y) : y \in {go[k - 1]}})
      BY <2>1, <3>1
    <3> QED BY <1>1, <3>2
  <2> QED BY <2>2, <2>3 DEF Goes
<1>6. Walk(x)[8] = go[8]
  BY <1>5, WalkIs
<1>7. Ended(x) => Walk(x)[8] = x
  <2> SUFFICES ASSUME Ended(x) PROVE Walk(x)[8] = x
    OBVIOUS
  <2>1. Walk(x)[0] = x
    BY WalkStep
  <2>2. Walk(x)[0 + 8] = Walk(x)[0]
    BY <2>1, WalkEnded
  <2> QED BY <2>1, <2>2
<1> QED BY <1>4, <1>6, <1>7

Steps == 8 * MaxWalk

\* Run is a walk of so many steps.
LEMMA RunIsWalk == ASSUME NEW x PROVE Steps \in Nat /\ Run(x) = Walk(x)[Steps]
<1> DEFINE Is(g) == g = [k \in Nat |-> IF k = 0 THEN x ELSE The({Advance8(y) : y \in {g[k - 1]}})]
           run == CHOOSE g : Is(g)
           w == [k \in Nat |-> Walk(x)[8 * k]]
<1>0. MaxWalk \in Nat
  BY WalkAssumption
<1>1. ASSUME NEW a PROVE The({Advance8(y) : y \in {a}}) = Advance8(a)
  <2>1. {Advance8(y) : y \in {a}} = {Advance8(a)}
    OBVIOUS
  <2> QED BY <2>1, TheOnly
<1>2. w[0] = x
  BY WalkStep
<1>3. ASSUME NEW k \in Nat PROVE w[k + 1] = Advance8(w[k])
  <2>1. 8 * k \in Nat /\ 8 * (k + 1) = 8 * k + 8 /\ k + 1 \in Nat
    OBVIOUS
  <2>2. Walk(Walk(x)[8 * k])[8] = Walk(x)[8 * k + 8]
    BY <2>1, WalkOn
  <2>3. w[k + 1] = Walk(x)[8 * k + 8]
    BY <2>1
  <2>4. w[k] = Walk(x)[8 * k]
    OBVIOUS
  <2> HIDE DEF w
  <2> QED BY <2>2, <2>3, <2>4, EightSteps
<1>4. Is(w)
  <2>1. w = [k \in Nat |-> w[k]]
    OBVIOUS
  <2> HIDE DEF w
  <2>2. ASSUME NEW k \in Nat, k # 0 PROVE w[k] = The({Advance8(y) : y \in {w[k - 1]}})
    <3>1. k - 1 \in Nat /\ (k - 1) + 1 = k
      BY <2>2
    <3>2. w[(k - 1) + 1] = Advance8(w[k - 1])
      BY <3>1, <1>3
    <3> QED BY <1>1, <3>1, <3>2
  <2>3. \A k \in Nat : w[k] = IF k = 0 THEN x ELSE The({Advance8(y) : y \in {w[k - 1]}})
    BY <1>2, <2>2
  <2> QED BY <2>1, <2>3
<1>5. Is(run)
  BY <1>4, Zenon
<1>6. Run(x) = run[MaxWalk]
  BY DEF Run
<1>7. w[MaxWalk] = Walk(x)[Steps] /\ Steps \in Nat
  BY <1>0 DEF Steps
<1> HIDE DEF run, w
<1> DEFINE S == {k \in Nat : run[k] = w[k]}
<1>8. \A k \in Nat : run[k] = IF k = 0 THEN x ELSE The({Advance8(y) : y \in {run[k - 1]}})
  BY <1>5
<1>9. 0 \in S
  BY <1>2, <1>8
<1>10. ASSUME NEW k \in Nat, k \in S PROVE k + 1 \in S
  <2>1. k + 1 \in Nat /\ k + 1 # 0 /\ (k + 1) - 1 = k /\ run[k] = w[k]
    BY <1>10
  <2>2. run[k + 1] = The({Advance8(y) : y \in {run[(k + 1) - 1]}})
    BY <1>8, <2>1
  <2>3. run[k + 1] = Advance8(run[k])
    BY <1>1, <2>1, <2>2
  <2>4. run[k + 1] = w[k + 1]
    BY <1>3, <2>1, <2>3
  <2> QED BY <2>1, <2>4
<1> HIDE DEF S
<1>11. \A k \in Nat : k \in S
  BY <1>9, <1>10, Induct
<1>12. run[MaxWalk] = w[MaxWalk]
  BY <1>0, <1>11 DEF S
<1> QED BY <1>6, <1>7, <1>12

\* What a walk comes to on its way.
LEMMA PathIs ==
  ASSUME NEW x, NEW k \in DOMAIN Path(x)
  PROVE  \E n \in Nat : n <= Steps /\ Path(x)[k] = Walk(x)[n]
<1> DEFINE Is(g) == g = [j \in Nat |-> IF j = 0 THEN <<x>>
                           ELSE The({Append(p, Advance(p[Len(p)])) : p \in {g[j - 1]}})]
           path == CHOOSE g : Is(g)
           More(a) == Append(a, Advance(a[Len(a)]))
           w == [j \in Nat |-> [i \in 1 .. j + 1 |-> Walk(x)[i - 1]]]
<1>0. MaxWalk \in Nat
  BY WalkAssumption
<1>1. ASSUME NEW a PROVE The({Append(p, Advance(p[Len(p)])) : p \in {a}}) = More(a)
  <2>1. {Append(p, Advance(p[Len(p)])) : p \in {a}} = {More(a)}
    OBVIOUS
  <2> QED BY <2>1, TheOnly
<1>2. w[0] = <<x>>
  <2>1. w[0] = [i \in 1 .. 1 |-> Walk(x)[i - 1]]
    OBVIOUS
  <2>2. Walk(x)[0] = x
    BY WalkStep
  <2> HIDE DEF w
  <2>3. \A i \in 1 .. 1 : Walk(x)[i - 1] = x
    BY <2>2
  <2> QED BY <2>1, <2>3
<1>3. ASSUME NEW j \in Nat PROVE w[j + 1] = More(w[j])
  <2> DEFINE a == w[j]
             b == w[j + 1]
  <2>1. a = [i \in 1 .. j + 1 |-> Walk(x)[i - 1]] /\ j + 1 \in Nat
    OBVIOUS
  <2>2. b = [i \in 1 .. (j + 1) + 1 |-> Walk(x)[i - 1]]
    OBVIOUS
  <2>3. Walk(x)[j + 1] = Advance(Walk(x)[j])
    BY WalkStep
  <2>4. a[j + 1] = Walk(x)[j]
    <3>1. (j + 1) - 1 = j /\ j + 1 \in 1 .. j + 1
      OBVIOUS
    <3> HIDE DEF a
    <3>2. a[j + 1] = Walk(x)[(j + 1) - 1]
      BY <2>1, <3>1, Zenon
    <3> QED BY <3>1, <3>2
  <2> HIDE DEF a, b
  <2> DEFINE E == {Walk(x)[i] : i \in Nat}
             z == Walk(x)
  <2>5. a \in Seq(E) /\ Len(a) = j + 1
    <3>1. \A i \in 1 .. j + 1 : i - 1 \in Nat
      OBVIOUS
    <3>2. \A i \in 1 .. j + 1 : Walk(x)[i - 1] \in E
      BY <3>1, Zenon
    <3> HIDE DEF E
    <3>3. a \in [1 .. j + 1 -> E]
      BY <2>1, <3>2
    <3> QED BY <3>3
  <2>6. Advance(a[Len(a)]) = z[j + 1]
    BY <2>3, <2>4, <2>5
  <2>7. Append(a, z[j + 1]) = b
    <3> HIDE DEF z, E
    <3>1. a = [i \in 1 .. j + 1 |-> z[i - 1]] /\ b = [i \in 1 .. (j + 1) + 1 |-> z[i - 1]]
      BY <2>1, <2>2 DEF z
    <3> DEFINE c == Append(a, z[j + 1])
    <3>2. c = [i \in 1 .. Len(a) + 1 |-> IF i = Len(a) + 1 THEN z[j + 1] ELSE a[i]]
      BY <2>5
    <3>3. ASSUME NEW i \in 1 .. (j + 1) + 1
          PROVE  (IF i = Len(a) + 1 THEN z[j + 1] ELSE a[i]) = z[i - 1]
      <4>1. CASE i = (j + 1) + 1
        BY <2>5, <4>1
      <4>2. CASE i # (j + 1) + 1
        <5>1. i \in 1 .. j + 1
          BY <4>2
        <5> QED BY <2>5, <3>1, <4>2, <5>1
      <4> QED BY <4>1, <4>2
    <3> QED BY <2>5, <3>1, <3>2, <3>3
  <2> QED BY <2>6, <2>7 DEF a, b, z
<1>4. Is(w)
  <2>1. w = [j \in Nat |-> w[j]]
    OBVIOUS
  <2> HIDE DEF w
  <2>2. ASSUME NEW j \in Nat, j # 0
        PROVE  w[j] = The({Append(p, Advance(p[Len(p)])) : p \in {w[j - 1]}})
    <3>1. j - 1 \in Nat /\ (j - 1) + 1 = j
      BY <2>2
    <3>2. w[(j - 1) + 1] = More(w[j - 1])
      BY <3>1, <1>3
    <3> HIDE DEF More
    <3>3. w[j] = More(w[j - 1])
      BY <3>1, <3>2
    <3> QED BY <1>1, <3>3
  <2>3. \A j \in Nat : w[j] = IF j = 0 THEN <<x>>
                             ELSE The({Append(p, Advance(p[Len(p)])) : p \in {w[j - 1]}})
    BY <1>2, <2>2, Zenon
  <2> QED BY <2>1, <2>3, Zenon
<1>5. Is(path)
  BY <1>4, Zenon
<1>6. Path(x) = path[8 * MaxWalk]
  BY Zenon DEF Path
<1> HIDE DEF path, w
<1> DEFINE S == {j \in Nat : path[j] = w[j]}
<1>8. \A j \in Nat : path[j] = IF j = 0 THEN <<x>>
                              ELSE The({Append(p, Advance(p[Len(p)])) : p \in {path[j - 1]}})
  BY <1>5, Zenon
<1>9. 0 \in S
  BY <1>2, <1>8
<1>10. ASSUME NEW j \in Nat, j \in S PROVE j + 1 \in S
  <2>1. j + 1 \in Nat /\ j + 1 # 0 /\ (j + 1) - 1 = j /\ path[j] = w[j]
    BY <1>10
  <2>2. path[j + 1] = The({Append(p, Advance(p[Len(p)])) : p \in {path[(j + 1) - 1]}})
    BY <1>8, <2>1, Zenon
  <2>3. path[j + 1] = More(path[(j + 1) - 1])
    BY <1>1, <2>2, Zenon
  <2> HIDE DEF More
  <2>4. path[j + 1] = w[j + 1]
    BY <1>3, <2>1, <2>3
  <2> QED BY <2>1, <2>4
<1> HIDE DEF S
<1>11. \A j \in Nat : j \in S
  BY <1>9, <1>10, Induct
<1>12. Steps \in Nat /\ 8 * MaxWalk = Steps
  BY <1>0 DEF Steps
<1>13. Path(x) = [i \in 1 .. Steps + 1 |-> Walk(x)[i - 1]]
  BY <1>6, <1>11, <1>12 DEF S, w
<1>14. k \in 1 .. Steps + 1
  BY <1>13
<1>15. Path(x)[k] = Walk(x)[k - 1] /\ k - 1 \in Nat /\ k - 1 <= Steps
  BY <1>12, <1>13, <1>14
<1> QED BY <1>15

-----------------------------------------------------------------------------
(* The tables.                                                             *)

Name == DOMAIN Routine

\* What is joined has the entries of its parts.
LEMMA JoinIn ==
  ASSUME NEW ts, NEW i \in DOMAIN ts
  PROVE  DOMAIN ts[i] \subseteq DOMAIN Join(ts)
BY DEF Join

\* What is joined has no other entries.
LEMMA JoinOf ==
  ASSUME NEW ts, NEW x \in DOMAIN Join(ts)
  PROVE  \E i \in DOMAIN ts : x \in DOMAIN ts[i] /\ Join(ts)[x] = ts[i][x]
<1> DEFINE In(i) == i \in DOMAIN ts /\ x \in DOMAIN ts[i]
           c == CHOOSE i : In(i)
<1>1. \E i : In(i)
  BY DEF Join
<1>2. In(c)
  BY <1>1, Zenon
<1>3. Join(ts)[x] = ts[c][x]
  BY DEF Join
<1> QED BY <1>2, <1>3

\* What a walk needs to know of a routine.
Shape(r) ==
  \/ r.kind = "units" /\ r.n \in Nat
  \/ r.kind = "calls" /\ r.of \in Seq(Name)
  \/ /\ r.kind = "switch" /\ r.dflt \in BOOLEAN
     /\ DOMAIN r.arms \subseteq Nat /\ DOMAIN r.arms # {}
     /\ \E v \in 0 .. 4 : v \notin DOMAIN r.arms
     /\ \A v \in DOMAIN r.arms : r.arms[v] \in Name
     /\ r.disc = "bool" => ~r.dflt /\ DOMAIN r.arms = {0, 1}
  \/ r.kind \in {"bytes", "string"} /\ r.max \in Nat
  \/ r.kind \in {"array", "pointer"} /\ r.of \in Name

Shaped(tbl) == \A t \in DOMAIN tbl : Shape(tbl[t])

\* Tables that are well formed are so when joined.
LEMMA JoinShaped ==
  ASSUME NEW ts, \A i \in DOMAIN ts : Shaped(ts[i])
  PROVE  Shaped(Join(ts))
<1> SUFFICES ASSUME NEW t \in DOMAIN Join(ts) PROVE Shape(Join(ts)[t])
  BY DEF Shaped
<1>1. PICK i \in DOMAIN ts : t \in DOMAIN ts[i] /\ Join(ts)[t] = ts[i][t]
  BY JoinOf
<1> QED BY <1>1 DEF Shaped

\* One routine under several names.
LEMMA AllShaped == ASSUME NEW S, NEW r, Shape(r) PROVE Shaped(All(S, r))
BY DEF Shaped, All

\* The constructors of Nfs4Types make well formed routines.
LEMMA UnitsShape == \A n \in Nat : Shape(Units(n))
BY DEF Shape, Units

LEMMA CallsShape ==
  /\ \A a \in Name : Shape(Calls(<<a>>))
  /\ \A a, b \in Name : Shape(Calls(<<a, b>>))
  /\ \A a, b, c \in Name : Shape(Calls(<<a, b, c>>))
  /\ \A a, b, c, d \in Name : Shape(Calls(<<a, b, c, d>>))
  /\ \A a, b, c, d, e \in Name : Shape(Calls(<<a, b, c, d, e>>))
  /\ \A a, b, c, d, e, f \in Name : Shape(Calls(<<a, b, c, d, e, f>>))
<1>1. ASSUME NEW s \in Seq(Name) PROVE Shape(Calls(s))
  BY DEF Shape, Calls
<1>2. \A a \in Name : <<a>> \in Seq(Name)
  OBVIOUS
<1>3. \A a, b \in Name : <<a, b>> \in Seq(Name)
  OBVIOUS
<1>4. \A a, b, c \in Name : <<a, b, c>> \in Seq(Name)
  OBVIOUS
<1>5. \A a, b, c, d \in Name : <<a, b, c, d>> \in Seq(Name)
  OBVIOUS
<1>6. \A a, b, c, d, e \in Name : <<a, b, c, d, e>> \in Seq(Name)
  OBVIOUS
<1>7. \A a, b, c, d, e, f \in Name : <<a, b, c, d, e, f>> \in Seq(Name)
  OBVIOUS
<1> QED BY <1>1, <1>2, <1>3, <1>4, <1>5, <1>6, <1>7, Zenon

LEMMA OtherShape ==
  /\ \A t \in Name : Shape(Array(t)) /\ Shape(Pointer(t))
  /\ \A n \in Nat : Shape(Bytes(n)) /\ Shape(Text(n))
BY DEF Shape, Array, Pointer, Bytes, Text

Arms(a) ==
  /\ DOMAIN a \subseteq Nat /\ DOMAIN a # {} /\ \E v \in 0 .. 4 : v \notin DOMAIN a
  /\ \A v \in DOMAIN a : a[v] \in Name

LEMMA SwitchShape ==
  ASSUME NEW a, Arms(a), NEW d \in BOOLEAN
  PROVE  Shape(Switch(a, d))
<1> DEFINE r == Switch(a, d)
<1>1. r.kind = "switch" /\ r.dflt = d /\ r.arms = a /\ r.disc = "enum"
  BY DEF Switch
<1> HIDE DEF r
<1>2. Shape(r)
  BY <1>1 DEF Shape, Arms
<1> QED BY <1>2 DEF r

Parts ==
  <<Library, Numbers, FileHandle, Names, Structures, Attributes, State,
  AccessCloseCommit, CreateDeleg, GetAndLink, Lockers, LockAndTest,
  UnlockAndLookup, OpenHow, OpenArguments, OpenResults, OpenOthers, PutAndRead,
  ReadDirectory, ReadlinkToRename, RenewToSecinfo, SetOperations, VerifyAndWrite,
  [nfs_argop4 |-> nfs_argop4, nfs_resop4 |-> nfs_resop4], Compound,
  CallbackOperations, Callback>>

\* The parts that make up the table of the routines.
LEMMA RoutineParts == Routine = Join(Parts)
BY DEF Routine, Parts

\* Every part has names of the table.
LEMMA PartsNamed ==
  /\ DOMAIN Library \subseteq Name
  /\ DOMAIN Numbers \subseteq Name
  /\ DOMAIN FileHandle \subseteq Name
  /\ DOMAIN Names \subseteq Name
  /\ DOMAIN Structures \subseteq Name
  /\ DOMAIN Attributes \subseteq Name
  /\ DOMAIN State \subseteq Name
  /\ DOMAIN AccessCloseCommit \subseteq Name
  /\ DOMAIN CreateDeleg \subseteq Name
  /\ DOMAIN GetAndLink \subseteq Name
  /\ DOMAIN Lockers \subseteq Name
  /\ DOMAIN LockAndTest \subseteq Name
  /\ DOMAIN UnlockAndLookup \subseteq Name
  /\ DOMAIN OpenHow \subseteq Name
  /\ DOMAIN OpenArguments \subseteq Name
  /\ DOMAIN OpenResults \subseteq Name
  /\ DOMAIN OpenOthers \subseteq Name
  /\ DOMAIN PutAndRead \subseteq Name
  /\ DOMAIN ReadDirectory \subseteq Name
  /\ DOMAIN ReadlinkToRename \subseteq Name
  /\ DOMAIN RenewToSecinfo \subseteq Name
  /\ DOMAIN SetOperations \subseteq Name
  /\ DOMAIN VerifyAndWrite \subseteq Name
  /\ DOMAIN [nfs_argop4 |-> nfs_argop4, nfs_resop4 |-> nfs_resop4] \subseteq Name
  /\ DOMAIN Compound \subseteq Name
  /\ DOMAIN CallbackOperations \subseteq Name
  /\ DOMAIN Callback \subseteq Name
<1>1. DOMAIN Parts = 1 .. 27
  BY DEF Parts
<1>2. \A i \in 1 .. 27 : DOMAIN Parts[i] \subseteq Name
  BY <1>1, JoinIn, RoutineParts DEF Name
<1> QED BY <1>2 DEF Parts

\* The names that each part of the table has.
LEMMA LibraryNames ==
  {"bool", "enum", "int64_t", "u_int", "uint32_t", "uint64_t", "void"} \subseteq Name
<1> DEFINE ts == <<All({"uint32_t", "u_int", "enum", "bool"}, Units(1)),
             All({"uint64_t", "int64_t"}, Units(2)), [void |-> Units(0)]>>
<1>1. Library = Join(ts) /\ DOMAIN ts = 1 .. 3
  BY DEF Library
<1>2. DOMAIN ts[1] \subseteq Name /\ DOMAIN ts[2] \subseteq Name /\ DOMAIN ts[3] \subseteq Name
  BY <1>1, JoinIn, PartsNamed
<1> QED BY <1>2 DEF All

LEMMA NumbersNames ==
  {"attrlist4", "bitmap4", "changeid4", "clientid4", "count4", "length4", "mode4",
   "nfs_cookie4", "nfs_ftype4", "nfsstat4"} \subseteq Name
<1> DEFINE ts == <<All({"nfs_ftype4", "nfsstat4"}, Enum),
             All({"changeid4", "clientid4", "length4", "nfs_cookie4"}, Double),
             All({"count4", "mode4"}, Word), [attrlist4 |-> Bytes(NOLIMIT),
             bitmap4 |-> Array("uint32_t")]>>
<1>1. Numbers = Join(ts) /\ DOMAIN ts = 1 .. 4
  BY DEF Numbers
<1>2. DOMAIN ts[1] \subseteq Name /\ DOMAIN ts[2] \subseteq Name /\ DOMAIN ts[3] \subseteq Name
      /\ DOMAIN ts[4] \subseteq Name
  BY <1>1, JoinIn, PartsNamed
<1> QED BY <1>2 DEF All

LEMMA FileHandleNames ==
  {"nfs_fh4"} \subseteq Name
BY PartsNamed DEF FileHandle

LEMMA NamesNames ==
  {"ascii_REQUIRED4", "component4", "linktext4", "nfs_lease4", "offset4", "pathname4",
   "qop4", "sec_oid4", "seqid4", "utf8str_cis", "utf8str_cs", "utf8str_mixed",
   "utf8string"} \subseteq Name
<1> DEFINE ts == <<All({"nfs_lease4", "qop4", "seqid4"}, Word), [offset4 |-> Double],
             All({"sec_oid4", "utf8string", "linktext4"}, Bytes(NOLIMIT)),
             All({"utf8str_cis", "utf8str_cs", "utf8str_mixed", "ascii_REQUIRED4"},
             Calls(<<"utf8string">>)), [component4 |-> Calls(<<"utf8str_cs">>),
             pathname4 |-> Array("component4")]>>
<1>1. Names = Join(ts) /\ DOMAIN ts = 1 .. 5
  BY DEF Names
<1>2. DOMAIN ts[1] \subseteq Name /\ DOMAIN ts[2] \subseteq Name /\ DOMAIN ts[3] \subseteq Name
      /\ DOMAIN ts[4] \subseteq Name /\ DOMAIN ts[5] \subseteq Name
  BY <1>1, JoinIn, PartsNamed
<1> QED BY <1>2 DEF All

LEMMA StructuresNames ==
  {"aceflag4", "acemask4", "acetype4", "fs_location4", "fs_locations4", "fsid4",
   "locations", "nfsace4", "nfstime4", "server", "settime4", "specdata4", "verifier4"}
     \subseteq Name
BY PartsNamed DEF Structures

LEMMA StateNames ==
  {"cb_client4", "change_info4", "clientaddr4", "fattr4", "id", "lock_owner4",
   "nfs_client_id4", "nfs_lock_type4", "open_owner4", "other", "owner", "r_addr",
   "r_netid", "stateid4"} \subseteq Name
BY PartsNamed DEF State

LEMMA AccessCloseCommitNames ==
  {"ACCESS4args", "ACCESS4res", "ACCESS4resok", "CLOSE4args", "CLOSE4res",
   "COMMIT4args", "COMMIT4res", "COMMIT4resok"} \subseteq Name
BY PartsNamed DEF AccessCloseCommit

LEMMA CreateDelegNames ==
  {"CREATE4args", "CREATE4res", "CREATE4resok", "DELEGPURGE4args", "DELEGPURGE4res",
   "DELEGRETURN4args", "DELEGRETURN4res", "createtype4"} \subseteq Name
BY PartsNamed DEF CreateDeleg

LEMMA GetAndLinkNames ==
  {"GETATTR4args", "GETATTR4res", "GETATTR4resok", "GETFH4res", "GETFH4resok",
   "LINK4args", "LINK4res", "LINK4resok"} \subseteq Name
BY PartsNamed DEF GetAndLink

LEMMA LockersNames ==
  {"exist_lock_owner4", "locker4", "open_to_lock_owner4"} \subseteq Name
BY PartsNamed DEF Lockers

LEMMA LockAndTestNames ==
  {"LOCK4args", "LOCK4denied", "LOCK4res", "LOCK4resok", "LOCKT4args", "LOCKT4res"} \subseteq Name
BY PartsNamed DEF LockAndTest

LEMMA UnlockAndLookupNames ==
  {"LOCKU4args", "LOCKU4res", "LOOKUP4args", "LOOKUP4res", "LOOKUPP4res",
   "NVERIFY4args", "NVERIFY4res"} \subseteq Name
BY PartsNamed DEF UnlockAndLookup

LEMMA OpenHowNames ==
  {"createhow4", "nfs_modified_limit4", "nfs_space_limit4", "open_delegation_type4",
   "openflag4"} \subseteq Name
<1> DEFINE ts == <<All({"createmode4", "opentype4", "limit_by4", "open_delegation_type4"}, Enum),
             [createhow4 |-> Switch(Join(<<All({0, 1}, "fattr4"), Entry(2, "verifier4")>>),
             Refuse), openflag4 |-> Switch(Entry(1, "createhow4"), Break),
             nfs_modified_limit4 |-> Calls(<<"uint32_t", "uint32_t">>),
             nfs_space_limit4 |-> Switch(Join(<<Entry(1, "uint64_t"),
             Entry(2, "nfs_modified_limit4")>>), Refuse)]>>
<1>1. OpenHow = Join(ts) /\ DOMAIN ts = 1 .. 2
  BY DEF OpenHow
<1>2. DOMAIN ts[1] \subseteq Name /\ DOMAIN ts[2] \subseteq Name
  BY <1>1, JoinIn, PartsNamed
<1> QED BY <1>2 DEF All

LEMMA OpenArgumentsNames ==
  {"OPEN4args", "open_claim4", "open_claim_delegate_cur4"} \subseteq Name
BY PartsNamed DEF OpenArguments

LEMMA OpenResultsNames ==
  {"OPEN4res", "OPEN4resok", "open_delegation4", "open_read_delegation4",
   "open_write_delegation4"} \subseteq Name
BY PartsNamed DEF OpenResults

LEMMA OpenOthersNames ==
  {"OPENATTR4args", "OPENATTR4res", "OPEN_CONFIRM4args", "OPEN_CONFIRM4res",
   "OPEN_CONFIRM4resok", "OPEN_DOWNGRADE4args", "OPEN_DOWNGRADE4res",
   "OPEN_DOWNGRADE4resok"} \subseteq Name
BY PartsNamed DEF OpenOthers

LEMMA PutAndReadNames ==
  {"PUTFH4args", "PUTFH4res", "PUTPUBFH4res", "PUTROOTFH4res", "READ4args", "READ4res",
   "READ4resok", "data"} \subseteq Name
BY PartsNamed DEF PutAndRead

LEMMA ReadDirectoryNames ==
  {"READDIR4args", "READDIR4res", "READDIR4resok", "dirlist4", "entries", "entry4",
   "nextentry"} \subseteq Name
BY PartsNamed DEF ReadDirectory

LEMMA ReadlinkToRenameNames ==
  {"READLINK4res", "READLINK4resok", "REMOVE4args", "REMOVE4res", "REMOVE4resok",
   "RENAME4args", "RENAME4res", "RENAME4resok"} \subseteq Name
BY PartsNamed DEF ReadlinkToRename

LEMMA RenewToSecinfoNames ==
  {"RENEW4args", "RENEW4res", "RESTOREFH4res", "SAVEFH4res", "SECINFO4args",
   "SECINFO4res", "SECINFO4resok", "rpc_gss_svc_t", "rpcsec_gss_info", "secinfo4"} \subseteq Name
BY PartsNamed DEF RenewToSecinfo

LEMMA SetOperationsNames ==
  {"SETATTR4args", "SETATTR4res", "SETCLIENTID4args", "SETCLIENTID4res",
   "SETCLIENTID4resok", "SETCLIENTID_CONFIRM4args", "SETCLIENTID_CONFIRM4res"} \subseteq Name
BY PartsNamed DEF SetOperations

LEMMA VerifyAndWriteNames ==
  {"ILLEGAL4res", "RELEASE_LOCKOWNER4args", "RELEASE_LOCKOWNER4res", "VERIFY4args",
   "VERIFY4res", "WRITE4args", "WRITE4res", "WRITE4resok", "stable_how4"} \subseteq Name
BY PartsNamed DEF VerifyAndWrite

LEMMA OperationsNames ==
  {"nfs_argop4", "nfs_resop4"} \subseteq Name
BY PartsNamed

LEMMA CompoundNames ==
  {"COMPOUND4args", "COMPOUND4res", "argarray", "resarray"} \subseteq Name
BY PartsNamed DEF Compound

LEMMA CallbackOperationsNames ==
  {"CB_GETATTR4args", "CB_GETATTR4res", "CB_GETATTR4resok", "CB_ILLEGAL4res",
   "CB_RECALL4args", "CB_RECALL4res"} \subseteq Name
BY PartsNamed DEF CallbackOperations

LEMMA CallbackNames ==
  {"CB_COMPOUND4args", "CB_COMPOUND4res", "cb_argarray", "cb_resarray", "nfs_cb_argop4",
   "nfs_cb_resop4"} \subseteq Name
BY PartsNamed DEF Callback

-----------------------------------------------------------------------------
(* What the routines look like.                                            *)

\* Short forms of the generated code.
LEMMA ShortShape ==
  Shape(Word) /\ Shape(Double) /\ Shape(Enum) /\ Shape(Flag) /\ Shape(Status) /\ Shape(Owner)
BY CallsShape, OtherShape, LibraryNames, NumbersNames, LimitAssumption
   DEF Word, Double, Enum, Flag, Status, Owner

\* Some of the arms of a switch.
Half(a) == DOMAIN a \subseteq Nat /\ DOMAIN a # {} /\ \A v \in DOMAIN a : a[v] \in Name

\* Arms that are joined.
LEMMA JoinArms ==
  ASSUME NEW ts, DOMAIN ts # {}, \A i \in DOMAIN ts : Half(ts[i]),
         NEW v \in 0 .. 4, \A i \in DOMAIN ts : v \notin DOMAIN ts[i]
  PROVE  Arms(Join(ts))
<1>1. \A k \in DOMAIN Join(ts) : \E i \in DOMAIN ts : k \in DOMAIN ts[i] /\ Join(ts)[k] = ts[i][k]
  BY JoinOf
<1>2. \A i \in DOMAIN ts : DOMAIN ts[i] \subseteq DOMAIN Join(ts)
  BY JoinIn
<1>3. DOMAIN Join(ts) \subseteq Nat /\ \A k \in DOMAIN Join(ts) : Join(ts)[k] \in Name
  BY <1>1 DEF Half
<1>4. DOMAIN Join(ts) # {}
  BY <1>2 DEF Half
<1>5. v \notin DOMAIN Join(ts)
  BY <1>1
<1> QED BY <1>3, <1>4, <1>5 DEF Arms

LEMMA OkOnlyShape == \A t \in Name : Shape(OkOnly(t))
<1> SUFFICES ASSUME NEW t \in Name PROVE Shape(OkOnly(t))
  OBVIOUS
<1>1. Arms(Entry(NFS4_OK, t))
  BY DEF Arms, Entry, NFS4_OK
<1> QED BY <1>1, SwitchShape DEF OkOnly, Break

\* Each part of the table is well formed.
LEMMA LibraryShaped == Shaped(Library)
<1>1. /\ Shape(Units(1))
      /\ Shape(Units(2))
      /\ Shape(Units(0))
  BY UnitsShape
<1>2. Shaped(All({"uint32_t", "u_int", "enum", "bool"}, Units(1)))
  BY <1>1, AllShaped
<1>3. Shaped(All({"uint64_t", "int64_t"}, Units(2)))
  BY <1>1, AllShaped
<1>4. Shaped([void |-> Units(0)])
  BY <1>1, AllShaped DEF Shaped
<1> QED BY <1>2, <1>3, <1>4, JoinShaped DEF Library

LEMMA NumbersShaped == Shaped(Numbers)
<1>1. /\ Shape(Bytes(NOLIMIT))
      /\ Shape(Array("uint32_t"))
  BY LibraryNames, OtherShape, LimitAssumption
<1>2. Shaped(All({"nfs_ftype4", "nfsstat4"}, Enum))
  BY <1>1, ShortShape, AllShaped
<1>3. Shaped(All({"changeid4", "clientid4", "length4", "nfs_cookie4"}, Double))
  BY <1>1, ShortShape, AllShaped
<1>4. Shaped(All({"count4", "mode4"}, Word))
  BY <1>1, ShortShape, AllShaped
<1>5. Shaped([attrlist4 |-> Bytes(NOLIMIT), bitmap4 |-> Array("uint32_t")])
  BY <1>1, ShortShape, AllShaped DEF Shaped
<1> QED BY <1>2, <1>3, <1>4, <1>5, JoinShaped DEF Numbers

LEMMA FileHandleShaped == Shaped(FileHandle)
<1>1. /\ Shape(Bytes(NFS4_FHSIZE))
  BY OtherShape, LimitAssumption
<1> QED BY <1>1 DEF FileHandle, Shaped

LEMMA NamesShaped == Shaped(Names)
<1>1. /\ Shape(Bytes(NOLIMIT))
      /\ Shape(Calls(<<"utf8string">>))
      /\ Shape(Calls(<<"utf8str_cs">>))
      /\ Shape(Array("component4"))
  BY NamesNames, CallsShape, OtherShape, LimitAssumption
<1>2. Shaped(All({"nfs_lease4", "qop4", "seqid4"}, Word))
  BY <1>1, ShortShape, AllShaped
<1>3. Shaped([offset4 |-> Double])
  BY <1>1, ShortShape, AllShaped DEF Shaped
<1>4. Shaped(All({"sec_oid4", "utf8string", "linktext4"}, Bytes(NOLIMIT)))
  BY <1>1, ShortShape, AllShaped
<1>5. Shaped(All({"utf8str_cis", "utf8str_cs", "utf8str_mixed", "ascii_REQUIRED4"},
      Calls(<<"utf8string">>)))
  BY <1>1, ShortShape, AllShaped
<1>6. Shaped([component4 |-> Calls(<<"utf8str_cs">>), pathname4 |-> Array("component4")])
  BY <1>1, ShortShape, AllShaped DEF Shaped
<1> QED BY <1>2, <1>3, <1>4, <1>5, <1>6, JoinShaped DEF Names

LEMMA StructuresShaped == Shaped(Structures)
<1>1. /\ Shape(Units(2))
      /\ Shape(Calls(<<"int64_t", "uint32_t">>))
      /\ Shape(Calls(<<"uint64_t", "uint64_t">>))
      /\ Shape(Array("utf8str_cis"))
      /\ Shape(Calls(<<"server", "pathname4">>))
      /\ Shape(Array("fs_location4"))
      /\ Shape(Calls(<<"pathname4", "locations">>))
      /\ Shape(Calls(<<"acetype4", "aceflag4", "acemask4", "utf8str_mixed">>))
      /\ Shape(Calls(<<"uint32_t", "uint32_t">>))
  BY LibraryNames, NamesNames, StructuresNames, UnitsShape, CallsShape, OtherShape
<1>2. Shape(Switch(Entry(1, "nfstime4"), Break))
  <2>1. /\ Half(Entry(1, "nfstime4"))
    BY StructuresNames DEF Half, Entry, All
  <2>2. /\ 0 \notin DOMAIN Entry(1, "nfstime4")
    BY DEF Entry, All
  <2>3. Arms(Entry(1, "nfstime4"))
    BY <2>1, <2>2 DEF Half, Arms
  <2> QED BY <2>3, SwitchShape DEF Break, Refuse
<1> QED BY <1>1, ShortShape, <1>2 DEF Structures, Shaped

LEMMA StateShaped == Shaped(State)
<1>1. /\ Shape(Calls(<<"bitmap4", "attrlist4">>))
      /\ Shape(Calls(<<"bool", "changeid4", "changeid4">>))
      /\ Shape(Text(NOLIMIT))
      /\ Shape(Calls(<<"r_netid", "r_addr">>))
      /\ Shape(Calls(<<"u_int", "clientaddr4">>))
      /\ Shape(Units(3))
      /\ Shape(Calls(<<"uint32_t", "other">>))
      /\ Shape(Calls(<<"verifier4", "id">>))
      /\ Shape(Calls(<<"clientid4", "owner">>))
  BY LibraryNames, NumbersNames, StateNames, StructuresNames, UnitsShape, CallsShape, OtherShape,
     LimitAssumption
<1> QED BY <1>1, ShortShape DEF State, Shaped

LEMMA AccessCloseCommitShaped == Shaped(AccessCloseCommit)
<1>1. /\ Shape(Calls(<<"uint32_t", "uint32_t">>))
      /\ Shape(OkOnly("ACCESS4resok"))
      /\ Shape(Calls(<<"seqid4", "stateid4">>))
      /\ Shape(OkOnly("stateid4"))
      /\ Shape(Calls(<<"offset4", "count4">>))
      /\ Shape(Calls(<<"verifier4">>))
      /\ Shape(OkOnly("COMMIT4resok"))
  BY AccessCloseCommitNames, LibraryNames, NamesNames, NumbersNames, StateNames, StructuresNames,
     CallsShape, OkOnlyShape
<1> QED BY <1>1, ShortShape DEF AccessCloseCommit, Shaped

LEMMA CreateDelegShaped == Shaped(CreateDeleg)
<1>1. /\ Shape(Calls(<<"createtype4", "component4", "fattr4">>))
      /\ Shape(Calls(<<"change_info4", "bitmap4">>))
      /\ Shape(OkOnly("CREATE4resok"))
      /\ Shape(Calls(<<"clientid4">>))
      /\ Shape(Calls(<<"stateid4">>))
  BY CreateDelegNames, NamesNames, NumbersNames, StateNames, CallsShape, OkOnlyShape
<1>2. Shape(Switch(Join(<<Entry(5, "linktext4"), All({3, 4}, "specdata4")>>), Break))
  <2>1. /\ Half(Entry(5, "linktext4"))
        /\ Half(All({3, 4}, "specdata4"))
    BY NamesNames, StructuresNames DEF Half, Entry, All
  <2>2. /\ 0 \notin DOMAIN Entry(5, "linktext4")
        /\ 0 \notin DOMAIN All({3, 4}, "specdata4")
    BY DEF Entry, All
  <2>3. Arms(Join(<<Entry(5, "linktext4"), All({3, 4}, "specdata4")>>))
    BY <2>1, <2>2, JoinArms
  <2> QED BY <2>3, SwitchShape DEF Break, Refuse
<1> QED BY <1>1, ShortShape, <1>2 DEF CreateDeleg, Shaped

LEMMA GetAndLinkShaped == Shaped(GetAndLink)
<1>1. /\ Shape(Calls(<<"bitmap4">>))
      /\ Shape(Calls(<<"fattr4">>))
      /\ Shape(OkOnly("GETATTR4resok"))
      /\ Shape(Calls(<<"nfs_fh4">>))
      /\ Shape(OkOnly("GETFH4resok"))
      /\ Shape(Calls(<<"component4">>))
      /\ Shape(Calls(<<"change_info4">>))
      /\ Shape(OkOnly("LINK4resok"))
  BY FileHandleNames, GetAndLinkNames, NamesNames, NumbersNames, StateNames, CallsShape,
     OkOnlyShape
<1> QED BY <1>1 DEF GetAndLink, Shaped

LEMMA LockAndTestShaped == Shaped(LockAndTest)
<1>1. /\ Shape(Calls(<<"nfs_lock_type4", "bool", "offset4", "length4", "locker4">>))
      /\ Shape(Calls(<<"offset4", "length4", "nfs_lock_type4", "lock_owner4">>))
      /\ Shape(Calls(<<"stateid4">>))
      /\ Shape(Calls(<<"nfs_lock_type4", "offset4", "length4", "lock_owner4">>))
  BY LibraryNames, LockersNames, NamesNames, NumbersNames, StateNames, CallsShape
<1>2. Shape(Switch(Join(<<Entry(NFS4_OK, "LOCK4resok"), Entry(NFS4ERR_DENIED, "LOCK4denied")>>),
      Break))
  <2>1. /\ Half(Entry(NFS4_OK, "LOCK4resok"))
        /\ Half(Entry(NFS4ERR_DENIED, "LOCK4denied"))
    BY LockAndTestNames DEF Half, Entry, All, NFS4ERR_DENIED, NFS4_OK
  <2>2. /\ 1 \notin DOMAIN Entry(NFS4_OK, "LOCK4resok")
        /\ 1 \notin DOMAIN Entry(NFS4ERR_DENIED, "LOCK4denied")
    BY DEF Entry, All, NFS4ERR_DENIED, NFS4_OK
  <2>3. Arms(Join(<<Entry(NFS4_OK, "LOCK4resok"), Entry(NFS4ERR_DENIED, "LOCK4denied")>>))
    BY <2>1, <2>2, JoinArms
  <2> QED BY <2>3, SwitchShape DEF Break, Refuse
<1>3. Shape(Switch(Entry(NFS4ERR_DENIED, "LOCK4denied"), Break))
  <2>1. /\ Half(Entry(NFS4ERR_DENIED, "LOCK4denied"))
    BY LockAndTestNames DEF Half, Entry, All, NFS4ERR_DENIED
  <2>2. /\ 0 \notin DOMAIN Entry(NFS4ERR_DENIED, "LOCK4denied")
    BY DEF Entry, All, NFS4ERR_DENIED
  <2>3. Arms(Entry(NFS4ERR_DENIED, "LOCK4denied"))
    BY <2>1, <2>2 DEF Half, Arms
  <2> QED BY <2>3, SwitchShape DEF Break, Refuse
<1> QED BY <1>1, <1>2, <1>3 DEF LockAndTest, Shaped

LEMMA UnlockAndLookupShaped == Shaped(UnlockAndLookup)
<1>1. /\ Shape(Calls(<<"nfs_lock_type4", "seqid4", "stateid4", "offset4", "length4">>))
      /\ Shape(OkOnly("stateid4"))
      /\ Shape(Calls(<<"component4">>))
      /\ Shape(Calls(<<"fattr4">>))
  BY NamesNames, NumbersNames, StateNames, CallsShape, OkOnlyShape
<1> QED BY <1>1, ShortShape DEF UnlockAndLookup, Shaped

LEMMA OpenHowShaped == Shaped(OpenHow)
<1>1. /\ Shape(Calls(<<"uint32_t", "uint32_t">>))
  BY LibraryNames, CallsShape
<1>2. Shape(Switch(Join(<<All({0, 1}, "fattr4"), Entry(2, "verifier4")>>), Refuse))
  <2>1. /\ Half(All({0, 1}, "fattr4"))
        /\ Half(Entry(2, "verifier4"))
    BY StateNames, StructuresNames DEF Half, Entry, All
  <2>2. /\ 3 \notin DOMAIN All({0, 1}, "fattr4")
        /\ 3 \notin DOMAIN Entry(2, "verifier4")
    BY DEF Entry, All
  <2>3. Arms(Join(<<All({0, 1}, "fattr4"), Entry(2, "verifier4")>>))
    BY <2>1, <2>2, JoinArms
  <2> QED BY <2>3, SwitchShape DEF Break, Refuse
<1>3. Shape(Switch(Entry(1, "createhow4"), Break))
  <2>1. /\ Half(Entry(1, "createhow4"))
    BY OpenHowNames DEF Half, Entry, All
  <2>2. /\ 0 \notin DOMAIN Entry(1, "createhow4")
    BY DEF Entry, All
  <2>3. Arms(Entry(1, "createhow4"))
    BY <2>1, <2>2 DEF Half, Arms
  <2> QED BY <2>3, SwitchShape DEF Break, Refuse
<1>4. Shape(Switch(Join(<<Entry(1, "uint64_t"), Entry(2, "nfs_modified_limit4")>>), Refuse))
  <2>1. /\ Half(Entry(1, "uint64_t"))
        /\ Half(Entry(2, "nfs_modified_limit4"))
    BY LibraryNames, OpenHowNames DEF Half, Entry, All
  <2>2. /\ 0 \notin DOMAIN Entry(1, "uint64_t")
        /\ 0 \notin DOMAIN Entry(2, "nfs_modified_limit4")
    BY DEF Entry, All
  <2>3. Arms(Join(<<Entry(1, "uint64_t"), Entry(2, "nfs_modified_limit4")>>))
    BY <2>1, <2>2, JoinArms
  <2> QED BY <2>3, SwitchShape DEF Break, Refuse
<1>5. Shaped(All({"createmode4", "opentype4", "limit_by4", "open_delegation_type4"}, Enum))
  BY <1>1, ShortShape, <1>2, <1>3, <1>4, AllShaped
<1>6. Shaped([createhow4 |-> Switch(Join(<<All({0, 1}, "fattr4"), Entry(2, "verifier4")>>),
      Refuse), openflag4 |-> Switch(Entry(1, "createhow4"), Break),
      nfs_modified_limit4 |-> Calls(<<"uint32_t", "uint32_t">>),
      nfs_space_limit4 |-> Switch(Join(<<Entry(1, "uint64_t"), Entry(2, "nfs_modified_limit4")>>),
      Refuse)])
  BY <1>1, ShortShape, <1>2, <1>3, <1>4, AllShaped DEF Shaped
<1> QED BY <1>5, <1>6, JoinShaped DEF OpenHow

LEMMA OpenArgumentsShaped == Shaped(OpenArguments)
<1>1. /\ Shape(Calls(<<"stateid4", "component4">>))
      /\ Shape(Calls(<<"seqid4", "uint32_t", "uint32_t", "open_owner4", "openflag4",
         "open_claim4">>))
  BY LibraryNames, NamesNames, OpenArgumentsNames, OpenHowNames, StateNames, CallsShape
<1>2. Shape(Switch(Join(<<All({0, 3}, "component4"), Entry(1, "open_delegation_type4"),
      Entry(2, "open_claim_delegate_cur4")>>), Refuse))
  <2>1. /\ Half(All({0, 3}, "component4"))
        /\ Half(Entry(1, "open_delegation_type4"))
        /\ Half(Entry(2, "open_claim_delegate_cur4"))
    BY NamesNames, OpenArgumentsNames, OpenHowNames DEF Half, Entry, All
  <2>2. /\ 4 \notin DOMAIN All({0, 3}, "component4")
        /\ 4 \notin DOMAIN Entry(1, "open_delegation_type4")
        /\ 4 \notin DOMAIN Entry(2, "open_claim_delegate_cur4")
    BY DEF Entry, All
  <2>3. Arms(Join(<<All({0, 3}, "component4"), Entry(1, "open_delegation_type4"),
        Entry(2, "open_claim_delegate_cur4")>>))
    BY <2>1, <2>2, JoinArms
  <2> QED BY <2>3, SwitchShape DEF Break, Refuse
<1> QED BY <1>1, ShortShape, <1>2 DEF OpenArguments, Shaped

LEMMA OpenResultsShaped == Shaped(OpenResults)
<1>1. /\ Shape(Calls(<<"stateid4", "bool", "nfsace4">>))
      /\ Shape(Calls(<<"stateid4", "bool", "nfs_space_limit4", "nfsace4">>))
      /\ Shape(Calls(<<"stateid4", "change_info4", "uint32_t", "bitmap4", "open_delegation4">>))
      /\ Shape(OkOnly("OPEN4resok"))
  BY LibraryNames, NumbersNames, OpenHowNames, OpenResultsNames, StateNames, StructuresNames,
     CallsShape, OkOnlyShape
<1>2. Shape(Switch(Join(<<Entry(0, "void"), Entry(1, "open_read_delegation4"),
      Entry(2, "open_write_delegation4")>>), Refuse))
  <2>1. /\ Half(Entry(0, "void"))
        /\ Half(Entry(1, "open_read_delegation4"))
        /\ Half(Entry(2, "open_write_delegation4"))
    BY LibraryNames, OpenResultsNames DEF Half, Entry, All
  <2>2. /\ 3 \notin DOMAIN Entry(0, "void")
        /\ 3 \notin DOMAIN Entry(1, "open_read_delegation4")
        /\ 3 \notin DOMAIN Entry(2, "open_write_delegation4")
    BY DEF Entry, All
  <2>3. Arms(Join(<<Entry(0, "void"), Entry(1, "open_read_delegation4"),
        Entry(2, "open_write_delegation4")>>))
    BY <2>1, <2>2, JoinArms
  <2> QED BY <2>3, SwitchShape DEF Break, Refuse
<1> QED BY <1>1, <1>2 DEF OpenResults, Shaped

LEMMA OpenOthersShaped == Shaped(OpenOthers)
<1>1. /\ Shape(Calls(<<"stateid4", "seqid4">>))
      /\ Shape(Calls(<<"stateid4">>))
      /\ Shape(OkOnly("OPEN_CONFIRM4resok"))
      /\ Shape(Calls(<<"stateid4", "seqid4", "uint32_t", "uint32_t">>))
      /\ Shape(OkOnly("OPEN_DOWNGRADE4resok"))
  BY LibraryNames, NamesNames, OpenOthersNames, StateNames, CallsShape, OkOnlyShape
<1> QED BY <1>1, ShortShape DEF OpenOthers, Shaped

LEMMA PutAndReadShaped == Shaped(PutAndRead)
<1>1. /\ Shape(Calls(<<"nfs_fh4">>))
      /\ Shape(Bytes(NOLIMIT))
      /\ Shape(Calls(<<"stateid4", "offset4", "count4">>))
      /\ Shape(Calls(<<"bool", "data">>))
      /\ Shape(OkOnly("READ4resok"))
  BY FileHandleNames, LibraryNames, NamesNames, NumbersNames, PutAndReadNames, StateNames,
     CallsShape, OtherShape, OkOnlyShape, LimitAssumption
<1> QED BY <1>1, ShortShape DEF PutAndRead, Shaped

LEMMA ReadDirectoryShaped == Shaped(ReadDirectory)
<1>1. /\ Shape(Calls(<<"nfs_cookie4", "verifier4", "count4", "count4", "bitmap4">>))
      /\ Shape(Pointer("entry4"))
      /\ Shape(Calls(<<"nfs_cookie4", "component4", "fattr4", "nextentry">>))
      /\ Shape(Calls(<<"entries", "bool">>))
      /\ Shape(Calls(<<"verifier4", "dirlist4">>))
      /\ Shape(OkOnly("READDIR4resok"))
  BY LibraryNames, NamesNames, NumbersNames, ReadDirectoryNames, StateNames, StructuresNames,
     CallsShape, OtherShape, OkOnlyShape
<1> QED BY <1>1 DEF ReadDirectory, Shaped

LEMMA ReadlinkToRenameShaped == Shaped(ReadlinkToRename)
<1>1. /\ Shape(Calls(<<"linktext4">>))
      /\ Shape(OkOnly("READLINK4resok"))
      /\ Shape(Calls(<<"component4">>))
      /\ Shape(Calls(<<"change_info4">>))
      /\ Shape(OkOnly("REMOVE4resok"))
      /\ Shape(Calls(<<"component4", "component4">>))
      /\ Shape(Calls(<<"change_info4", "change_info4">>))
      /\ Shape(OkOnly("RENAME4resok"))
  BY NamesNames, ReadlinkToRenameNames, StateNames, CallsShape, OkOnlyShape
<1> QED BY <1>1 DEF ReadlinkToRename, Shaped

LEMMA RenewToSecinfoShaped == Shaped(RenewToSecinfo)
<1>1. /\ Shape(Calls(<<"clientid4">>))
      /\ Shape(Calls(<<"component4">>))
      /\ Shape(Calls(<<"sec_oid4", "qop4", "rpc_gss_svc_t">>))
      /\ Shape(Array("secinfo4"))
      /\ Shape(OkOnly("SECINFO4resok"))
  BY NamesNames, NumbersNames, RenewToSecinfoNames, CallsShape, OtherShape, OkOnlyShape
<1>2. Shape(Switch(Entry(RPCSEC_GSS, "rpcsec_gss_info"), Break))
  <2>1. /\ Half(Entry(RPCSEC_GSS, "rpcsec_gss_info"))
    BY RenewToSecinfoNames DEF Half, Entry, All, RPCSEC_GSS
  <2>2. /\ 0 \notin DOMAIN Entry(RPCSEC_GSS, "rpcsec_gss_info")
    BY DEF Entry, All, RPCSEC_GSS
  <2>3. Arms(Entry(RPCSEC_GSS, "rpcsec_gss_info"))
    BY <2>1, <2>2 DEF Half, Arms
  <2> QED BY <2>3, SwitchShape DEF Break, Refuse
<1> QED BY <1>1, ShortShape, <1>2 DEF RenewToSecinfo, Shaped

LEMMA SetOperationsShaped == Shaped(SetOperations)
<1>1. /\ Shape(Calls(<<"stateid4", "fattr4">>))
      /\ Shape(Calls(<<"nfsstat4", "bitmap4">>))
      /\ Shape(Calls(<<"nfs_client_id4", "cb_client4", "uint32_t">>))
      /\ Shape(Calls(<<"clientid4", "verifier4">>))
  BY LibraryNames, NumbersNames, StateNames, StructuresNames, CallsShape
<1>2. Shape(Switch(Join(<<Entry(NFS4_OK, "SETCLIENTID4resok"),
      Entry(NFS4ERR_CLID_INUSE, "clientaddr4")>>), Break))
  <2>1. /\ Half(Entry(NFS4_OK, "SETCLIENTID4resok"))
        /\ Half(Entry(NFS4ERR_CLID_INUSE, "clientaddr4"))
    BY SetOperationsNames, StateNames DEF Half, Entry, All, NFS4ERR_CLID_INUSE, NFS4_OK
  <2>2. /\ 1 \notin DOMAIN Entry(NFS4_OK, "SETCLIENTID4resok")
        /\ 1 \notin DOMAIN Entry(NFS4ERR_CLID_INUSE, "clientaddr4")
    BY DEF Entry, All, NFS4ERR_CLID_INUSE, NFS4_OK
  <2>3. Arms(Join(<<Entry(NFS4_OK, "SETCLIENTID4resok"),
        Entry(NFS4ERR_CLID_INUSE, "clientaddr4")>>))
    BY <2>1, <2>2, JoinArms
  <2> QED BY <2>3, SwitchShape DEF Break, Refuse
<1> QED BY <1>1, ShortShape, <1>2 DEF SetOperations, Shaped

LEMMA VerifyAndWriteShaped == Shaped(VerifyAndWrite)
<1>1. /\ Shape(Calls(<<"fattr4">>))
      /\ Shape(Calls(<<"stateid4", "offset4", "stable_how4", "data">>))
      /\ Shape(Calls(<<"count4", "stable_how4", "verifier4">>))
      /\ Shape(OkOnly("WRITE4resok"))
      /\ Shape(Calls(<<"lock_owner4">>))
  BY NamesNames, NumbersNames, PutAndReadNames, StateNames, StructuresNames, VerifyAndWriteNames,
     CallsShape, OkOnlyShape
<1> QED BY <1>1, ShortShape DEF VerifyAndWrite, Shaped

LEMMA CompoundShaped == Shaped(Compound)
<1>1. /\ Shape(Array("nfs_argop4"))
      /\ Shape(Array("nfs_resop4"))
      /\ Shape(Calls(<<"utf8str_cs", "uint32_t", "argarray">>))
      /\ Shape(Calls(<<"nfsstat4", "utf8str_cs", "resarray">>))
  BY CompoundNames, LibraryNames, NamesNames, NumbersNames, OperationsNames, CallsShape,
     OtherShape
<1> QED BY <1>1, ShortShape DEF Compound, Shaped

LEMMA CallbackOperationsShaped == Shaped(CallbackOperations)
<1>1. /\ Shape(Calls(<<"nfs_fh4", "bitmap4">>))
      /\ Shape(Calls(<<"fattr4">>))
      /\ Shape(OkOnly("CB_GETATTR4resok"))
      /\ Shape(Calls(<<"stateid4", "bool", "nfs_fh4">>))
  BY CallbackOperationsNames, FileHandleNames, LibraryNames, NumbersNames, StateNames, CallsShape,
     OkOnlyShape
<1> QED BY <1>1, ShortShape DEF CallbackOperations, Shaped

LEMMA CallbackShaped == Shaped(Callback)
<1>1. /\ Shape(Array("nfs_cb_argop4"))
      /\ Shape(Array("nfs_cb_resop4"))
      /\ Shape(Calls(<<"utf8str_cs", "uint32_t", "uint32_t", "cb_argarray">>))
      /\ Shape(Calls(<<"nfsstat4", "utf8str_cs", "cb_resarray">>))
  BY CallbackNames, LibraryNames, NamesNames, NumbersNames, CallsShape, OtherShape
<1>2. Shape(Switch(Join(<<Entry(OP_CB_GETATTR, "CB_GETATTR4args"),
      Entry(OP_CB_RECALL, "CB_RECALL4args"), Entry(OP_ILLEGAL, "void")>>), Refuse))
  <2>1. /\ Half(Entry(OP_CB_GETATTR, "CB_GETATTR4args"))
        /\ Half(Entry(OP_CB_RECALL, "CB_RECALL4args"))
        /\ Half(Entry(OP_ILLEGAL, "void"))
    BY CallbackOperationsNames, LibraryNames DEF Half, Entry, All, OP_CB_GETATTR, OP_CB_RECALL,
       OP_ILLEGAL
  <2>2. /\ 0 \notin DOMAIN Entry(OP_CB_GETATTR, "CB_GETATTR4args")
        /\ 0 \notin DOMAIN Entry(OP_CB_RECALL, "CB_RECALL4args")
        /\ 0 \notin DOMAIN Entry(OP_ILLEGAL, "void")
    BY DEF Entry, All, OP_CB_GETATTR, OP_CB_RECALL, OP_ILLEGAL
  <2>3. Arms(Join(<<Entry(OP_CB_GETATTR, "CB_GETATTR4args"),
        Entry(OP_CB_RECALL, "CB_RECALL4args"), Entry(OP_ILLEGAL, "void")>>))
    BY <2>1, <2>2, JoinArms
  <2> QED BY <2>3, SwitchShape DEF Break, Refuse
<1>3. Shape(Switch(Join(<<Entry(OP_CB_GETATTR, "CB_GETATTR4res"),
      Entry(OP_CB_RECALL, "CB_RECALL4res"), Entry(OP_ILLEGAL, "CB_ILLEGAL4res")>>), Refuse))
  <2>1. /\ Half(Entry(OP_CB_GETATTR, "CB_GETATTR4res"))
        /\ Half(Entry(OP_CB_RECALL, "CB_RECALL4res"))
        /\ Half(Entry(OP_ILLEGAL, "CB_ILLEGAL4res"))
    BY CallbackOperationsNames DEF Half, Entry, All, OP_CB_GETATTR, OP_CB_RECALL, OP_ILLEGAL
  <2>2. /\ 0 \notin DOMAIN Entry(OP_CB_GETATTR, "CB_GETATTR4res")
        /\ 0 \notin DOMAIN Entry(OP_CB_RECALL, "CB_RECALL4res")
        /\ 0 \notin DOMAIN Entry(OP_ILLEGAL, "CB_ILLEGAL4res")
    BY DEF Entry, All, OP_CB_GETATTR, OP_CB_RECALL, OP_ILLEGAL
  <2>3. Arms(Join(<<Entry(OP_CB_GETATTR, "CB_GETATTR4res"), Entry(OP_CB_RECALL, "CB_RECALL4res"),
        Entry(OP_ILLEGAL, "CB_ILLEGAL4res")>>))
    BY <2>1, <2>2, JoinArms
  <2> QED BY <2>3, SwitchShape DEF Break, Refuse
<1> QED BY <1>1, <1>2, <1>3 DEF Callback, Shaped

LEMMA RequiredAttrsShaped == Shaped(RequiredAttrs)
<1>1. /\ Shape(Calls(<<"bitmap4">>))
      /\ Shape(Calls(<<"nfs_ftype4">>))
      /\ Shape(Calls(<<"changeid4">>))
      /\ Shape(Calls(<<"fsid4">>))
      /\ Shape(Calls(<<"nfs_lease4">>))
      /\ Shape(Array("nfsace4"))
  BY NamesNames, NumbersNames, StructuresNames, CallsShape, OtherShape
<1>2. Shaped(All({"fattr4_link_support", "fattr4_symlink_support", "fattr4_named_attr",
      "fattr4_unique_handles"}, Flag))
  BY <1>1, ShortShape, AllShaped
<1>3. Shaped([fattr4_supported_attrs |-> Calls(<<"bitmap4">>),
      fattr4_type |-> Calls(<<"nfs_ftype4">>), fattr4_fh_expire_type |-> Word,
      fattr4_change |-> Calls(<<"changeid4">>), fattr4_size |-> Double,
      fattr4_fsid |-> Calls(<<"fsid4">>), fattr4_lease_time |-> Calls(<<"nfs_lease4">>),
      fattr4_rdattr_error |-> Status, fattr4_acl |-> Array("nfsace4"),
      fattr4_aclsupport |-> Word])
  BY <1>1, ShortShape, AllShaped DEF Shaped
<1> QED BY <1>2, <1>3, JoinShaped DEF RequiredAttrs

LEMMA FilesystemAttrsShaped == Shaped(FilesystemAttrs)
<1>1. /\ Shape(Calls(<<"nfs_fh4">>))
      /\ Shape(Calls(<<"fs_locations4">>))
  BY FileHandleNames, StructuresNames, CallsShape
<1>2. Shaped(All({"fattr4_archive", "fattr4_cansettime", "fattr4_case_insensitive",
      "fattr4_case_preserving", "fattr4_chown_restricted", "fattr4_hidden", "fattr4_homogeneous"},
      Flag))
  BY <1>1, ShortShape, AllShaped
<1>3. Shaped(All({"fattr4_fileid", "fattr4_files_avail", "fattr4_files_free",
      "fattr4_files_total", "fattr4_maxfilesize"}, Double))
  BY <1>1, ShortShape, AllShaped
<1>4. Shaped([fattr4_filehandle |-> Calls(<<"nfs_fh4">>),
      fattr4_fs_locations |-> Calls(<<"fs_locations4">>)])
  BY <1>1, ShortShape, AllShaped DEF Shaped
<1> QED BY <1>2, <1>3, <1>4, JoinShaped DEF FilesystemAttrs

LEMMA FileAttrsShaped == Shaped(FileAttrs)
<1>1. /\ Shape(Calls(<<"utf8str_mixed">>))
      /\ Shape(Calls(<<"ascii_REQUIRED4">>))
      /\ Shape(Calls(<<"mode4">>))
      /\ Shape(Calls(<<"specdata4">>))
  BY NamesNames, NumbersNames, StructuresNames, CallsShape
<1>2. Shaped(All({"fattr4_maxlink", "fattr4_maxname", "fattr4_numlinks"}, Word))
  BY <1>1, ShortShape, AllShaped
<1>3. Shaped(All({"fattr4_maxread", "fattr4_maxwrite", "fattr4_mounted_on_fileid",
      "fattr4_quota_avail_hard", "fattr4_quota_avail_soft", "fattr4_quota_used"}, Double))
  BY <1>1, ShortShape, AllShaped
<1>4. Shaped(All({"fattr4_owner", "fattr4_owner_group"}, Calls(<<"utf8str_mixed">>)))
  BY <1>1, ShortShape, AllShaped
<1>5. Shaped([fattr4_mimetype |-> Calls(<<"ascii_REQUIRED4">>),
      fattr4_mode |-> Calls(<<"mode4">>), fattr4_no_trunc |-> Flag,
      fattr4_rawdev |-> Calls(<<"specdata4">>)])
  BY <1>1, ShortShape, AllShaped DEF Shaped
<1> QED BY <1>2, <1>3, <1>4, <1>5, JoinShaped DEF FileAttrs

LEMMA SpaceAndTimeAttrsShaped == Shaped(SpaceAndTimeAttrs)
<1>1. /\ Shape(Calls(<<"nfstime4">>))
      /\ Shape(Calls(<<"settime4">>))
  BY StructuresNames, CallsShape
<1>2. Shaped(All({"fattr4_space_avail", "fattr4_space_free", "fattr4_space_total",
      "fattr4_space_used"}, Double))
  BY <1>1, ShortShape, AllShaped
<1>3. Shaped(All({"fattr4_time_access", "fattr4_time_backup", "fattr4_time_create",
      "fattr4_time_delta", "fattr4_time_metadata", "fattr4_time_modify"}, Calls(<<"nfstime4">>)))
  BY <1>1, ShortShape, AllShaped
<1>4. Shaped(All({"fattr4_time_access_set", "fattr4_time_modify_set"}, Calls(<<"settime4">>)))
  BY <1>1, ShortShape, AllShaped
<1>5. Shaped([fattr4_system |-> Flag])
  BY <1>1, ShortShape, AllShaped DEF Shaped
<1> QED BY <1>2, <1>3, <1>4, <1>5, JoinShaped DEF SpaceAndTimeAttrs

LEMMA AttributesShaped == Shaped(Attributes)
BY RequiredAttrsShaped, FilesystemAttrsShaped, FileAttrsShaped, SpaceAndTimeAttrsShaped,
   JoinShaped
   DEF Attributes

LEMMA LockersShaped == Shaped(Lockers)
<1> DEFINE a == Join(<<Entry(1, "open_to_lock_owner4"), Entry(0, "exist_lock_owner4")>>)
           r == [Switch(a, Refuse) EXCEPT !.disc = "bool"]
<1>1. /\ Half(Entry(1, "open_to_lock_owner4"))
      /\ Half(Entry(0, "exist_lock_owner4"))
  BY LockersNames DEF Half, Entry
<1>2. /\ DOMAIN Entry(1, "open_to_lock_owner4") = {1}
      /\ DOMAIN Entry(0, "exist_lock_owner4") = {0}
  BY DEF Entry
<1>3. Arms(a)
  <2>1. 2 \notin DOMAIN Entry(1, "open_to_lock_owner4")
        /\ 2 \notin DOMAIN Entry(0, "exist_lock_owner4")
    BY <1>2
  <2> QED BY <1>1, <2>1, JoinArms
<1>4. DOMAIN a = {0, 1}
  <2> DEFINE ts == <<Entry(1, "open_to_lock_owner4"), Entry(0, "exist_lock_owner4")>>
  <2>1. DOMAIN ts = {1, 2} /\ DOMAIN ts[1] = {1} /\ DOMAIN ts[2] = {0}
    BY <1>2
  <2> HIDE DEF ts
  <2>2. {0, 1} \subseteq DOMAIN Join(ts)
    BY <2>1, JoinIn
  <2>3. \A k \in DOMAIN Join(ts) : \E i \in DOMAIN ts : k \in DOMAIN ts[i]
    BY JoinOf
  <2>4. DOMAIN Join(ts) \subseteq {0, 1}
    BY <2>1, <2>3
  <2> QED BY <2>2, <2>4 DEF ts
<1> HIDE DEF a
<1>5. r.kind = "switch" /\ r.dflt = FALSE /\ r.arms = a /\ r.disc = "bool"
  BY DEF Switch, Refuse
<1> HIDE DEF r
<1>6. Shape(r)
  BY <1>3, <1>4, <1>5 DEF Shape, Arms
<1>7. /\ Shape(Calls(<<"seqid4", "stateid4", "seqid4", "lock_owner4">>))
      /\ Shape(Calls(<<"stateid4", "seqid4">>))
  BY NamesNames, StateNames, CallsShape
<1>8. Lockers = [open_to_lock_owner4 |-> Calls(<<"seqid4", "stateid4", "seqid4", "lock_owner4">>),
                 exist_lock_owner4 |-> Calls(<<"stateid4", "seqid4">>), locker4 |-> r]
  BY DEF Lockers, r, a
<1> QED BY <1>6, <1>7, <1>8 DEF Shaped

\* The arms of the operations, which are numbered from 3.
LEMMA NumberedHalf ==
  ASSUME NEW s \in Seq(Name), s # <<>>
  PROVE  Half(Numbered(3, s)) /\ 0 \notin DOMAIN Numbered(3, s)
<1> DEFINE f == Numbered(3, s)
<1>1. Len(s) \in Nat /\ Len(s) >= 1 /\ DOMAIN s = 1 .. Len(s)
  BY EmptySeq, LenProperties
<1>2. DOMAIN f = 3 .. Len(s) + 2 /\ \A k \in 3 .. Len(s) + 2 : f[k] = s[k - 2]
  BY <1>1 DEF Numbered
<1> HIDE DEF f
<1>3. ASSUME NEW k \in 3 .. Len(s) + 2 PROVE f[k] \in Name
  <2>1. k - 2 \in 1 .. Len(s) /\ f[k] = s[k - 2]
    BY <1>1, <1>2
  <2> QED BY <2>1, ElementOfSeq
<1>4. 3 \in DOMAIN f
  BY <1>1, <1>2
<1>5. Half(f) /\ 0 \notin DOMAIN f
  BY <1>1, <1>2, <1>3, <1>4 DEF Half
<1> QED BY <1>5 DEF f

LEMMA nfs_argop4Shape == Shape(nfs_argop4)
<1> DEFINE s == <<"ACCESS4args", "CLOSE4args", "COMMIT4args", "CREATE4args", "DELEGPURGE4args",
             "DELEGRETURN4args", "GETATTR4args", "void", "LINK4args", "LOCK4args", "LOCKT4args",
             "LOCKU4args", "LOOKUP4args", "void", "NVERIFY4args", "OPEN4args", "OPENATTR4args",
             "OPEN_CONFIRM4args", "OPEN_DOWNGRADE4args", "PUTFH4args", "void", "void",
             "READ4args", "READDIR4args", "void", "REMOVE4args", "RENAME4args", "RENEW4args",
             "void", "void", "SECINFO4args", "SETATTR4args", "SETCLIENTID4args",
             "SETCLIENTID_CONFIRM4args", "VERIFY4args", "WRITE4args", "RELEASE_LOCKOWNER4args">>
<1>1. s \in Seq({"ACCESS4args", "CLOSE4args", "COMMIT4args", "CREATE4args", "DELEGPURGE4args",
      "DELEGRETURN4args", "GETATTR4args", "LINK4args", "LOCK4args", "LOCKT4args", "LOCKU4args",
      "LOOKUP4args", "NVERIFY4args", "OPEN4args", "OPENATTR4args", "OPEN_CONFIRM4args",
      "OPEN_DOWNGRADE4args", "PUTFH4args", "READ4args", "READDIR4args", "RELEASE_LOCKOWNER4args",
      "REMOVE4args", "RENAME4args", "RENEW4args", "SECINFO4args", "SETATTR4args",
      "SETCLIENTID4args", "SETCLIENTID_CONFIRM4args", "VERIFY4args", "WRITE4args", "void"})
      /\ s # <<>>
  OBVIOUS
<1>2. {"ACCESS4args", "CLOSE4args", "COMMIT4args", "CREATE4args", "DELEGPURGE4args",
      "DELEGRETURN4args", "GETATTR4args", "LINK4args", "LOCK4args", "LOCKT4args", "LOCKU4args",
      "LOOKUP4args", "NVERIFY4args", "OPEN4args", "OPENATTR4args", "OPEN_CONFIRM4args",
      "OPEN_DOWNGRADE4args", "PUTFH4args", "READ4args", "READDIR4args", "RELEASE_LOCKOWNER4args",
      "REMOVE4args", "RENAME4args", "RENEW4args", "SECINFO4args", "SETATTR4args",
      "SETCLIENTID4args", "SETCLIENTID_CONFIRM4args", "VERIFY4args", "WRITE4args", "void"}
      \subseteq Name
  BY AccessCloseCommitNames, CreateDelegNames, GetAndLinkNames, LibraryNames, LockAndTestNames,
     OpenArgumentsNames, OpenOthersNames, PutAndReadNames, ReadDirectoryNames,
     ReadlinkToRenameNames, RenewToSecinfoNames, SetOperationsNames, UnlockAndLookupNames,
     VerifyAndWriteNames
<1> HIDE DEF s
<1>3. s \in Seq(Name)
  BY <1>1, <1>2
<1>4. Half(Numbered(3, s)) /\ 0 \notin DOMAIN Numbered(3, s)
  BY <1>1, <1>3, NumberedHalf
<1>5. Half(Entry(OP_ILLEGAL, "void")) /\ 0 \notin DOMAIN Entry(OP_ILLEGAL, "void")
  BY LibraryNames DEF Half, Entry, OP_ILLEGAL
<1>6. Arms(Join(<<Numbered(3, s), Entry(OP_ILLEGAL, "void")>>))
  BY <1>4, <1>5, JoinArms
<1>7. Shape(Switch(Join(<<Numbered(3, s), Entry(OP_ILLEGAL, "void")>>), Refuse))
  BY <1>6, SwitchShape DEF Refuse
<1> QED BY <1>7 DEF nfs_argop4, s

LEMMA nfs_resop4Shape == Shape(nfs_resop4)
<1> DEFINE s == <<"ACCESS4res", "CLOSE4res", "COMMIT4res", "CREATE4res", "DELEGPURGE4res",
             "DELEGRETURN4res", "GETATTR4res", "GETFH4res", "LINK4res", "LOCK4res", "LOCKT4res",
             "LOCKU4res", "LOOKUP4res", "LOOKUPP4res", "NVERIFY4res", "OPEN4res", "OPENATTR4res",
             "OPEN_CONFIRM4res", "OPEN_DOWNGRADE4res", "PUTFH4res", "PUTPUBFH4res",
             "PUTROOTFH4res", "READ4res", "READDIR4res", "READLINK4res", "REMOVE4res",
             "RENAME4res", "RENEW4res", "RESTOREFH4res", "SAVEFH4res", "SECINFO4res",
             "SETATTR4res", "SETCLIENTID4res", "SETCLIENTID_CONFIRM4res", "VERIFY4res",
             "WRITE4res", "RELEASE_LOCKOWNER4res">>
<1>1. s \in Seq({"ACCESS4res", "CLOSE4res", "COMMIT4res", "CREATE4res", "DELEGPURGE4res",
      "DELEGRETURN4res", "GETATTR4res", "GETFH4res", "LINK4res", "LOCK4res", "LOCKT4res",
      "LOCKU4res", "LOOKUP4res", "LOOKUPP4res", "NVERIFY4res", "OPEN4res", "OPENATTR4res",
      "OPEN_CONFIRM4res", "OPEN_DOWNGRADE4res", "PUTFH4res", "PUTPUBFH4res", "PUTROOTFH4res",
      "READ4res", "READDIR4res", "READLINK4res", "RELEASE_LOCKOWNER4res", "REMOVE4res",
      "RENAME4res", "RENEW4res", "RESTOREFH4res", "SAVEFH4res", "SECINFO4res", "SETATTR4res",
      "SETCLIENTID4res", "SETCLIENTID_CONFIRM4res", "VERIFY4res", "WRITE4res"}) /\ s # <<>>
  OBVIOUS
<1>2. {"ACCESS4res", "CLOSE4res", "COMMIT4res", "CREATE4res", "DELEGPURGE4res", "DELEGRETURN4res",
      "GETATTR4res", "GETFH4res", "LINK4res", "LOCK4res", "LOCKT4res", "LOCKU4res", "LOOKUP4res",
      "LOOKUPP4res", "NVERIFY4res", "OPEN4res", "OPENATTR4res", "OPEN_CONFIRM4res",
      "OPEN_DOWNGRADE4res", "PUTFH4res", "PUTPUBFH4res", "PUTROOTFH4res", "READ4res",
      "READDIR4res", "READLINK4res", "RELEASE_LOCKOWNER4res", "REMOVE4res", "RENAME4res",
      "RENEW4res", "RESTOREFH4res", "SAVEFH4res", "SECINFO4res", "SETATTR4res", "SETCLIENTID4res",
      "SETCLIENTID_CONFIRM4res", "VERIFY4res", "WRITE4res"} \subseteq Name
  BY AccessCloseCommitNames, CreateDelegNames, GetAndLinkNames, LockAndTestNames, OpenOthersNames,
     OpenResultsNames, PutAndReadNames, ReadDirectoryNames, ReadlinkToRenameNames,
     RenewToSecinfoNames, SetOperationsNames, UnlockAndLookupNames, VerifyAndWriteNames
<1> HIDE DEF s
<1>3. s \in Seq(Name)
  BY <1>1, <1>2
<1>4. Half(Numbered(3, s)) /\ 0 \notin DOMAIN Numbered(3, s)
  BY <1>1, <1>3, NumberedHalf
<1>5. Half(Entry(OP_ILLEGAL, "ILLEGAL4res")) /\ 0 \notin DOMAIN Entry(OP_ILLEGAL, "ILLEGAL4res")
  BY VerifyAndWriteNames DEF Half, Entry, OP_ILLEGAL
<1>6. Arms(Join(<<Numbered(3, s), Entry(OP_ILLEGAL, "ILLEGAL4res")>>))
  BY <1>4, <1>5, JoinArms
<1>7. Shape(Switch(Join(<<Numbered(3, s), Entry(OP_ILLEGAL, "ILLEGAL4res")>>), Refuse))
  BY <1>6, SwitchShape DEF Refuse
<1> QED BY <1>7 DEF nfs_resop4, s

LEMMA OperationsShaped == Shaped([nfs_argop4 |-> nfs_argop4, nfs_resop4 |-> nfs_resop4])
BY nfs_argop4Shape, nfs_resop4Shape DEF Shaped

\* Every routine of prot_xdr.c has one of these shapes.
LEMMA RoutineShaped == \A t \in Name : Shape(Routine[t])
<1>1. DOMAIN Parts = 1 .. 27
  BY DEF Parts
<1>2. \A i \in 1 .. 27 : Shaped(Parts[i])
  BY LibraryShaped, NumbersShaped, FileHandleShaped, NamesShaped, StructuresShaped,
     AttributesShaped, StateShaped, AccessCloseCommitShaped, CreateDelegShaped, GetAndLinkShaped,
     LockersShaped, LockAndTestShaped, UnlockAndLookupShaped, OpenHowShaped, OpenArgumentsShaped,
     OpenResultsShaped, OpenOthersShaped, PutAndReadShaped, ReadDirectoryShaped,
     ReadlinkToRenameShaped, RenewToSecinfoShaped, SetOperationsShaped, VerifyAndWriteShaped,
     OperationsShaped, CompoundShaped, CallbackOperationsShaped, CallbackShaped DEF Parts
<1> QED BY <1>1, <1>2, JoinShaped, RoutineParts DEF Name, Shaped

-----------------------------------------------------------------------------
(* Handles, and what one call of Advance does to them.                     *)

Place == Nat \ {0}

\* Routines to be called, and objects to be freed.
Todo == Seq((Name \X {0}) \cup ({"release"} \X Place))

Handles ==
  [op : {"ENCODE", "DECODE", "FREE"}, todo : Todo, mem : Seq(Nat), at : Place,
   wire : Seq(Nat), pos : Place, heap : SUBSET Place, ok : BOOLEAN]

\* What the routine r puts before the rest of the calls when it has taken v.
More(r, v, s) ==
  CASE r.kind = "switch" -> IF v \in DOMAIN r.arms THEN << <<r.arms[v], 0>> >> ELSE <<>>
    [] r.kind \in {"bytes", "string"} -> <<>>
    [] r.kind \in {"array", "pointer"} ->
         IF v = 0 THEN <<>> ELSE [i \in 1 .. v |-> <<r.of, 0>>] \o << <<"release", s>> >>

\* The part v makes r fail.
Bad(r, v) ==
  \/ r.kind = "switch" /\ v \notin DOMAIN r.arms /\ ~r.dflt
  \/ r.kind \in {"bytes", "string"} /\ v > r.max

\* How many words follow the part v, and whether they or elements are held.
After(r, v) == IF r.kind \in {"bytes", "string"} THEN (v + 3) \div 4 ELSE 0
Holds(r, v) == r.kind # "switch" /\ (v > 0 \/ r.kind = "string")

\* A routine that steers is one of these.
LEMMA ShapeKind ==
  ASSUME NEW r, Shape(r)
  PROVE  /\ Steers(r) <=> r.kind \notin {"units", "calls"}
         /\ r.kind \in {"units", "calls", "switch", "bytes", "string", "array", "pointer"}
BY DEF Shape, Steers

\* A step takes the part and calls the routine.
LEMMA StepIs == ASSUME NEW x, NEW v PROVE Step(x, v) = Call1(Take(x, v), Top(x), v)
<1> DEFINE c == Call1(Take(x, v), Top(x), v)
<1>1. {Call1(y, Top(x), v) : y \in {Take(x, v)}} = {c}
  OBVIOUS
<1> QED BY <1>1, TheOnly DEF Step

\* Names to be called in turn.
LEMMA NamedTodo ==
  ASSUME NEW s \in Seq(Name)
  PROVE  [i \in DOMAIN s |-> <<s[i], 0>>] \in Todo
<1>1. Len(s) \in Nat /\ DOMAIN s = 1 .. Len(s) /\ \A i \in 1 .. Len(s) : s[i] \in Name
  OBVIOUS
<1> DEFINE S == (Name \X {0}) \cup ({"release"} \X Place)
           q == [i \in 1 .. Len(s) |-> <<s[i], 0>>]
<1>2. \A i \in 1 .. Len(s) : <<s[i], 0>> \in S
  BY <1>1
<1>3. q \in [1 .. Len(s) -> S]
  BY <1>2
<1>4. q \in Seq(S)
  BY <1>1, <1>3, SeqDef
<1> QED BY <1>1, <1>4 DEF Todo

\* The elements of an array, to be called in turn.
LEMMA Elements ==
  ASSUME NEW t \in Name, NEW v \in Nat, NEW s \in Place
  PROVE  /\ [i \in 1 .. v |-> <<t, 0>>] \in Todo
         /\ << <<"release", s>> >> \in Todo
         /\ [i \in 1 .. v |-> <<t, 0>>] \o << <<"release", s>> >> \in Todo
<1> DEFINE S == (Name \X {0}) \cup ({"release"} \X Place)
           q == [i \in 1 .. v |-> <<t, 0>>]
<1>1. q \in [1 .. v -> S]
  OBVIOUS
<1>2. q \in Seq(S)
  BY <1>1, SeqDef
<1>3. <<"release", s>> \in S
  OBVIOUS
<1> HIDE DEF S, q
<1>4. << <<"release", s>> >> \in Seq(S)
  BY <1>3
<1>5. q \o << <<"release", s>> >> \in Seq(S)
  BY <1>2, <1>4, ConcatProperties
<1> QED BY <1>2, <1>4, <1>5 DEF S, q, Todo

\* What a routine adds to the calls that are left is of that kind.
LEMMA MoreTodo ==
  ASSUME NEW r, Shape(r), Steers(r), NEW v \in Nat, NEW s \in Place
  PROVE  More(r, v, s) \in Todo
<1>1. <<>> \in Todo
  BY DEF Todo
<1>2. CASE r.kind = "switch"
  <2>1. CASE v \in DOMAIN r.arms
    <3>1. r.arms[v] \in Name
      BY <1>2, <2>1 DEF Shape
    <3>2. << <<r.arms[v], 0>> >> \in Todo
      BY <3>1 DEF Todo
    <3> QED BY <1>2, <2>1, <3>2 DEF More
  <2> QED BY <1>1, <1>2, <2>1 DEF More
<1>3. CASE r.kind \in {"bytes", "string"}
  BY <1>1, <1>3 DEF More
<1>4. CASE r.kind \in {"array", "pointer"}
  <2>1. r.of \in Name
    BY <1>4 DEF Shape
  <2>2. [i \in 1 .. v |-> <<r.of, 0>>] \o << <<"release", s>> >> \in Todo
    BY <2>1, Elements
  <2> QED BY <1>1, <1>4, <2>2 DEF More
<1> QED BY <1>2, <1>3, <1>4 DEF Steers

\* The calls that are left.
LEMMA TodoLeft ==
  ASSUME NEW todo \in Todo, todo # <<>>
  PROVE  /\ Tail(todo) \in Todo
         /\ Head(todo)[1] = "release" \/ Head(todo)[1] \in Name
         /\ Head(todo)[2] \in Nat
         /\ \A s \in Todo : s \o Tail(todo) \in Todo
         /\ <<>> \o Tail(todo) = Tail(todo)
<1> DEFINE S == (Name \X {0}) \cup ({"release"} \X Place)
<1>1. todo \in Seq(S)
  BY DEF Todo
<1>2. Head(todo) \in S /\ Tail(todo) \in Seq(S)
  BY <1>1, HeadTailProperties
<1>3. /\ Head(todo)[1] = "release" \/ Head(todo)[1] \in Name
      /\ Head(todo)[2] \in Nat
  BY <1>2 DEF Place
<1> HIDE DEF S
<1>4. \A s \in Seq(S) : s \o Tail(todo) \in Seq(S)
  BY <1>2, ConcatProperties
<1>5. <<>> \o Tail(todo) = Tail(todo)
  BY <1>2, ConcatEmptySeq
<1> QED BY <1>2, <1>3, <1>4, <1>5 DEF S, Todo


\* x is a handle with these fields.
Is(x, op, todo, mem, at, wire, pos, heap, ok) ==
  /\ x \in Handles
  /\ x.op = op /\ x.todo = todo /\ x.mem = mem /\ x.at = at
  /\ x.wire = wire /\ x.pos = pos /\ x.heap = heap /\ x.ok = ok

\* What the operators that Advance is made of do to a handle.
LEMMA GotoIs ==
  ASSUME NEW x \in Handles, NEW z \in Todo
  PROVE  Is([x EXCEPT !.todo = z], x.op, z, x.mem, x.at, x.wire, x.pos, x.heap, x.ok)
BY DEF Is, Handles

LEMMA ReturnIs ==
  ASSUME NEW x \in Handles, x.todo # <<>>
  PROVE  Is(Return(x), x.op, Tail(x.todo), x.mem, x.at, x.wire, x.pos, x.heap, x.ok)
<1>1. Tail(x.todo) \in Todo
  BY TodoLeft DEF Handles
<1> QED BY <1>1, GotoIs DEF Return

LEMMA ContinueIs ==
  ASSUME NEW x \in Handles, x.todo # <<>>, NEW ts \in Todo
  PROVE  Is(Continue(x, ts), x.op, ts \o Tail(x.todo), x.mem, x.at, x.wire, x.pos, x.heap, x.ok)
<1>1. ts \o Tail(x.todo) \in Todo
  BY TodoLeft DEF Handles
<1> QED BY <1>1, GotoIs DEF Continue

LEMMA HeapIs ==
  ASSUME NEW x \in Handles, NEW z \in SUBSET Place
  PROVE  Is([x EXCEPT !.heap = z], x.op, x.todo, x.mem, x.at, x.wire, x.pos, z, x.ok)
BY DEF Is, Handles

LEMMA PosIs ==
  ASSUME NEW x \in Handles, NEW z \in Place
  PROVE  Is([x EXCEPT !.pos = z], x.op, x.todo, x.mem, x.at, x.wire, z, x.heap, x.ok)
BY DEF Is, Handles

LEMMA WireIs ==
  ASSUME NEW x \in Handles, NEW z \in Seq(Nat)
  PROVE  Is([x EXCEPT !.wire = z], x.op, x.todo, x.mem, x.at, z, x.pos, x.heap, x.ok)
BY DEF Is, Handles

LEMMA TakeIs ==
  ASSUME NEW x \in Handles, NEW v \in Nat
  PROVE  /\ x.op = "ENCODE" =>
              Is(Take(x, v), "ENCODE", x.todo, Append(x.mem, v), x.at, Append(x.wire, v), x.pos,
                x.heap, x.ok)
         /\ x.op = "DECODE" =>
              Is(Take(x, v), "DECODE", x.todo, Append(x.mem, v), x.at, x.wire, x.pos + 1, x.heap,
                x.ok)
         /\ x.op = "FREE" =>
              Is(Take(x, v), "FREE", x.todo, x.mem, x.at + 1, x.wire, x.pos, x.heap, x.ok)
<1>1. Append(x.mem, v) \in Seq(Nat) /\ Append(x.wire, v) \in Seq(Nat) /\ x.at + 1 \in Place
      /\ x.pos + 1 \in Place
  BY DEF Handles, Place
<1>2. CASE x.op = "ENCODE"
  BY <1>1, <1>2 DEF Take, Handles, Is
<1>3. CASE x.op = "DECODE"
  BY <1>1, <1>3 DEF Take, Handles, Is
<1>4. CASE x.op = "FREE"
  BY <1>1, <1>4 DEF Take, Handles, Is
<1> QED BY <1>2, <1>3, <1>4 DEF Handles

LEMMA FailIs ==
  ASSUME NEW x \in Handles
  PROVE  Is(Fail(x), x.op, <<>>, x.mem, x.at, x.wire, x.pos,
            IF x.op = "FREE" THEN x.heap \ {x.todo[i][2] : i \in DOMAIN x.todo} ELSE x.heap,
              FALSE)
<1> DEFINE z == IF x.op = "FREE" THEN x.heap \ {x.todo[i][2] : i \in DOMAIN x.todo} ELSE x.heap
<1>1. z \in SUBSET Place /\ <<>> \in Todo
  BY DEF Handles, Todo
<1>2. Fail(x) = [x EXCEPT !.ok = FALSE, !.todo = <<>>, !.heap = z]
  BY DEF Fail
<1> HIDE DEF z
<1>3. Is([x EXCEPT !.ok = FALSE, !.todo = <<>>, !.heap = z], x.op, <<>>, x.mem, x.at, x.wire,
      x.pos, z, FALSE)
  BY <1>1 DEF Is, Handles
<1> QED BY <1>2, <1>3 DEF z

\* n words of data.
Data(n) == [i \in 1 .. n |-> DATA]

LEMMA DataSeq ==
  ASSUME NEW n \in Nat
  PROVE  Data(n) \in Seq(Nat) /\ Len(Data(n)) = n /\ (n = 0 => Data(n) = <<>>)
<1>1. Data(n) \in [1 .. n -> Nat]
  BY DEF Data, DATA
<1>2. Data(n) \in Seq(Nat)
  BY <1>1, SeqDef
<1>3. Len(Data(n)) = n
  BY <1>1, <1>2, LenProperties
<1> QED BY <1>2, <1>3, EmptySeq

\* Passing over words without a meaning of their own.
LEMMA UnitsIs ==
  ASSUME NEW x \in Handles, x.todo # <<>>, NEW n \in Nat
  PROVE  /\ x.op = "ENCODE" =>
              Is(xdr_units(x, n), "ENCODE", Tail(x.todo), x.mem, x.at, x.wire \o Data(n), x.pos,
                 x.heap, x.ok)
         /\ x.op = "DECODE" =>
              IF x.pos + n - 1 > Len(x.wire) THEN xdr_units(x, n) = Fail(x)
              ELSE Is(xdr_units(x, n), "DECODE", Tail(x.todo), x.mem, x.at, x.wire, x.pos + n,
                      x.heap, x.ok)
         /\ x.op = "FREE" =>
              Is(xdr_units(x, n), "FREE", Tail(x.todo), x.mem, x.at, x.wire, x.pos, x.heap, x.ok)
<1> DEFINE y == Return(x)
<1>1. Is(y, x.op, Tail(x.todo), x.mem, x.at, x.wire, x.pos, x.heap, x.ok)
  BY ReturnIs
<1>2. Data(n) \in Seq(Nat) /\ x.wire \in Seq(Nat)
  BY DataSeq DEF Handles
<1>3. x.wire \o Data(n) \in Seq(Nat) /\ x.pos + n \in Place
  BY <1>2, ConcatProperties DEF Handles, Place
<1>4. CASE x.op = "ENCODE"
  <2>1. xdr_units(x, n) = [y EXCEPT !.wire = @ \o Data(n)]
    BY <1>4 DEF xdr_units, Data
  <2> HIDE DEF y
  <2> DEFINE ww == x.wire \o Data(n)
  <2>2. xdr_units(x, n) = [y EXCEPT !.wire = ww]
    BY <1>1, <2>1 DEF Is
  <2>3. ww \in Seq(Nat)
    BY <1>3
  <2> HIDE DEF ww
  <2>4. Is(xdr_units(x, n), "ENCODE", Tail(x.todo), x.mem, x.at, ww, x.pos, x.heap, x.ok)
    BY <1>1, <1>4, <2>2, <2>3, WireIs DEF Is
  <2> QED BY <1>4, <2>4 DEF ww
<1>5. CASE x.op = "DECODE"
  <2>1. CASE x.pos + n - 1 > Len(x.wire)
    BY <1>5, <2>1 DEF xdr_units
  <2>2. CASE ~(x.pos + n - 1 > Len(x.wire))
    <3>1. xdr_units(x, n) = [y EXCEPT !.pos = @ + n]
      BY <1>5, <2>2 DEF xdr_units
    <3> HIDE DEF y
    <3>2. xdr_units(x, n) = [y EXCEPT !.pos = x.pos + n]
      BY <1>1, <3>1 DEF Is
    <3> QED BY <1>1, <1>3, <1>5, <2>2, <3>2, PosIs DEF Is
  <2> QED BY <2>1, <2>2
<1>6. CASE x.op = "FREE"
  BY <1>1, <1>6 DEF xdr_units
<1> QED BY <1>4, <1>5, <1>6 DEF Handles

\* Allocating an object.
LEMMA AllocIs ==
  ASSUME NEW x \in Handles, x.op # "FREE", x.mem # <<>>
  PROVE  Is(Alloc(x), x.op, x.todo, x.mem, x.at, x.wire, x.pos,
            IF x.op = "DECODE" THEN x.heap \cup {Len(x.mem)} ELSE x.heap, x.ok)
<1>1. Slot(x) = Len(x.mem)
  BY DEF Slot
<1>2. x.heap \cup {Len(x.mem)} \in SUBSET Place
  BY EmptySeq DEF Handles, Place
<1>3. CASE x.op = "DECODE"
  BY <1>1, <1>2, <1>3, HeapIs DEF Alloc
<1>4. CASE x.op # "DECODE"
  BY <1>4 DEF Alloc, Is
<1> QED BY <1>3, <1>4

\* A routine is asked with what it has taken.
LEMMA CallIs ==
  ASSUME NEW y, NEW r, NEW v \in Nat, Shape(r), Steers(r)
  PROVE  /\ r.kind = "switch" => Call1(y, r, v) = xdr_switch(y, v, r)
         /\ r.kind \in {"bytes", "string"} => Call1(y, r, v) = xdr_bytes(y, v, r.max, Holds(r, v))
         /\ r.kind \in {"array", "pointer"} => Call1(y, r, v) = xdr_elements(y, v, r.of)
<1>1. r.kind = "switch" => Call1(y, r, v) = xdr_switch(y, v, r)
  BY DEF Call1
<1>2. CASE r.kind = "bytes"
  <2>1. (v > 0) = Holds(r, v)
    BY <1>2 DEF Holds
  <2>2. Call1(y, r, v) = xdr_bytes(y, v, r.max, v > 0)
    BY <1>2 DEF Call1
  <2> QED BY <1>2, <2>1, <2>2
<1>3. CASE r.kind = "string"
  <2>1. TRUE = Holds(r, v)
    BY <1>3 DEF Holds
  <2>2. Call1(y, r, v) = xdr_bytes(y, v, r.max, TRUE)
    BY <1>3 DEF Call1
  <2> QED BY <1>3, <2>1, <2>2
<1>4. r.kind \in {"array", "pointer"} => Call1(y, r, v) = xdr_elements(y, v, r.of)
  BY DEF Call1
<1> QED BY <1>1, <1>2, <1>3, <1>4

\* Bytes are read or written as units.
LEMMA BytesIs ==
  ASSUME NEW y, y.op # "FREE", NEW v \in Nat, NEW max \in Nat, NEW held
  PROVE  xdr_bytes(y, v, max, held) =
           IF v > max THEN Fail(y) ELSE xdr_units(IF held THEN Alloc(y) ELSE y, (v + 3) \div 4)
<1> DEFINE z == IF held THEN Alloc(y) ELSE y
           u == xdr_units(z, (v + 3) \div 4)
<1>1. {xdr_units(q, (v + 3) \div 4) : q \in {z}} = {u}
  OBVIOUS
<1>2. The({xdr_units(q, (v + 3) \div 4) : q \in {z}}) = u
  BY <1>1, TheOnly
<1>3. xdr_bytes(y, v, max, held) = IF v > max THEN Fail(y) ELSE The({xdr_units(q, (v + 3) \div 4)
      : q \in {z}})
  BY DEF xdr_bytes
<1> QED BY <1>2, <1>3, Zenon

\* Taking the part v and acting on it, when encoding, ...
LEMMA StepEncode ==
  ASSUME NEW x \in Handles, x.op = "ENCODE", ~Ended(x), NEW v \in Nat,
         Shape(Top(x)), Steers(Top(x))
  PROVE  IF Bad(Top(x), v)
         THEN Is(Step(x, v), "ENCODE", <<>>, Append(x.mem, v), x.at, Append(x.wire, v), x.pos,
                 x.heap, FALSE)
         ELSE Is(Step(x, v), "ENCODE", More(Top(x), v, Len(x.mem) + 1) \o Tail(x.todo),
                 Append(x.mem, v), x.at, Append(x.wire, v) \o Data(After(Top(x), v)), x.pos,
                 x.heap, x.ok)
<1> DEFINE r == Top(x)
           y == Take(x, v)
           s == Len(x.mem) + 1
           tl == Tail(x.todo)
           mm == Append(x.mem, v)
           ww == Append(x.wire, v)
<1>1. Is(y, "ENCODE", x.todo, mm, x.at, ww, x.pos, x.heap, x.ok)
  BY TakeIs
<1>2. Step(x, v) = Call1(y, r, v)
  BY StepIs
<1>3. /\ <<>> \o tl = tl /\ x.todo # <<>>
      /\ s \in Place /\ Len(mm) = s /\ mm # <<>>
      /\ ww \in Seq(Nat) /\ ww \o <<>> = ww
  BY TodoLeft, ConcatEmptySeq DEF Handles, Ended, Place
<1>4. Is(Fail(y), "ENCODE", <<>>, mm, x.at, ww, x.pos, x.heap, FALSE)
  BY <1>1, FailIs DEF Is
<1>5. More(r, v, s) \in Todo
  BY <1>3, MoreTodo
<1>6. Shape(r) /\ Steers(r)
  OBVIOUS
<1>7. ww \o Data(0) = ww
  BY <1>3, DataSeq
<1>8. Is(Return(y), "ENCODE", tl, mm, x.at, ww, x.pos, x.heap, x.ok)
  <2>1. y \in Handles /\ y.todo = x.todo
    BY <1>1 DEF Is
  <2>2. Is(Return(y), y.op, Tail(y.todo), y.mem, y.at, y.wire, y.pos, y.heap, y.ok)
    BY <1>3, <2>1, ReturnIs
  <2> HIDE DEF y, mm, ww
  <2> QED BY <1>1, <2>2 DEF Is
<1>9. ASSUME NEW ts \in Todo
      PROVE  Is(Continue(y, ts), "ENCODE", ts \o tl, mm, x.at, ww, x.pos, x.heap, x.ok)
  <2>1. y \in Handles /\ y.todo = x.todo
    BY <1>1 DEF Is
  <2>2. Is(Continue(y, ts), y.op, ts \o Tail(y.todo), y.mem, y.at, y.wire, y.pos, y.heap, y.ok)
    BY <1>3, <2>1, ContinueIs
  <2> HIDE DEF y, mm, ww
  <2> QED BY <1>1, <2>2 DEF Is
<1> HIDE DEF r, y, s, ww, mm, tl
<1> DEFINE Goal == IF Bad(r, v)
           THEN Is(Call1(y, r, v), "ENCODE", <<>>, mm, x.at, ww, x.pos, x.heap, FALSE)
           ELSE Is(Call1(y, r, v), "ENCODE", More(r, v, s) \o tl,
                   mm, x.at, ww \o Data(After(r, v)), x.pos, x.heap, x.ok)
<1> SUFFICES Goal
  BY <1>2 DEF r, y, s, ww, mm, tl
<1>10. CASE r.kind = "switch"
  <2>1. Call1(y, r, v) = xdr_switch(y, v, r) /\ After(r, v) = 0
    BY <1>6, <1>10, CallIs DEF After
  <2>2. CASE v \in DOMAIN r.arms
    <3>1. Call1(y, r, v) = Continue(y, More(r, v, s)) /\ ~Bad(r, v)
      BY <1>10, <2>1, <2>2 DEF xdr_switch, More, Bad
    <3> QED BY <1>5, <1>7, <1>9, <2>1, <3>1
  <2>3. CASE v \notin DOMAIN r.arms /\ r.dflt
    <3>1. Call1(y, r, v) = Return(y) /\ ~Bad(r, v) /\ More(r, v, s) = <<>>
      BY <1>10, <2>1, <2>3 DEF xdr_switch, More, Bad
    <3> QED BY <1>3, <1>7, <1>8, <2>1, <3>1
  <2>4. CASE v \notin DOMAIN r.arms /\ ~r.dflt
    <3>1. Call1(y, r, v) = Fail(y) /\ Bad(r, v)
      BY <1>10, <2>1, <2>4 DEF xdr_switch, Bad
    <3> QED BY <1>4, <3>1
  <2> QED BY <2>2, <2>3, <2>4
<1>11. CASE r.kind \in {"bytes", "string"}
  <2>1. /\ y.op = "ENCODE" /\ r.max \in Nat /\ More(r, v, s) = <<>>
        /\ After(r, v) = (v + 3) \div 4 /\ (v + 3) \div 4 \in Nat
    BY <1>1, <1>6, <1>11 DEF Is, Shape, More, After
  <2> DEFINE z == IF Holds(r, v) THEN Alloc(y) ELSE y
  <2>2. Call1(y, r, v) = IF v > r.max THEN Fail(y) ELSE xdr_units(z, After(r, v))
    BY <1>6, <1>11, <2>1, CallIs, BytesIs
  <2>3. z = y
    BY <2>1 DEF Alloc
  <2> HIDE DEF z
  <2>4. CASE v > r.max
    <3>1. Call1(y, r, v) = Fail(y) /\ Bad(r, v)
      BY <1>11, <2>2, <2>4 DEF Bad
    <3> QED BY <1>4, <3>1
  <2>5. CASE ~(v > r.max)
    <3>1. ~Bad(r, v)
      BY <1>11, <2>5 DEF Bad
    <3>2. Call1(y, r, v) = xdr_units(y, After(r, v)) /\ y \in Handles /\ y.todo = x.todo
          /\ After(r, v) \in Nat
      BY <1>1, <2>1, <2>2, <2>3, <2>5 DEF Is
    <3>3. Is(Call1(y, r, v), "ENCODE", Tail(y.todo), y.mem, y.at, y.wire \o Data(After(r, v)),
          y.pos, y.heap, y.ok)
      BY <1>3, <2>1, <3>2, UnitsIs
    <3>4. Is(Call1(y, r, v), "ENCODE", tl, mm, x.at, ww \o Data(After(r, v)), x.pos, x.heap, x.ok)
      BY <1>1, <3>3 DEF Is, tl
    <3> QED BY <1>3, <2>1, <3>1, <3>4
  <2> QED BY <2>4, <2>5
<1>12. CASE r.kind \in {"array", "pointer"}
  <2>1. Call1(y, r, v) = xdr_elements(y, v, r.of) /\ After(r, v) = 0 /\ ~Bad(r, v)
    BY <1>6, <1>12, CallIs DEF After, Bad
  <2>2. CASE v = 0
    <3>1. Call1(y, r, v) = Return(y) /\ More(r, v, s) = <<>>
      BY <1>12, <2>1, <2>2 DEF xdr_elements, More
    <3> QED BY <1>3, <1>7, <1>8, <2>1, <3>1
  <2>3. CASE v # 0
    <3>1. Alloc(y) = y /\ Slot(y) = s
      BY <1>1, <1>3 DEF Is, Alloc, Slot
    <3>2. Call1(y, r, v) = Continue(y, More(r, v, s))
      BY <1>12, <2>1, <2>3, <3>1 DEF xdr_elements, More
    <3> QED BY <1>5, <1>7, <1>9, <2>1, <3>2
  <2> QED BY <2>2, <2>3
<1> QED BY <1>6, <1>10, <1>11, <1>12 DEF Steers

\* What is held on the heap for the part v at s.
New(r, v, s) == IF Holds(r, v) THEN {s} ELSE {}

\* ... when decoding, ...
LEMMA StepDecode ==
  ASSUME NEW x \in Handles, x.op = "DECODE", ~Ended(x), NEW v \in Nat,
         Shape(Top(x)), Steers(Top(x)), x.pos <= Len(x.wire)
  PROVE  IF Bad(Top(x), v) \/ x.pos + After(Top(x), v) > Len(x.wire)
         THEN \E p, h : Is(Step(x, v), "DECODE", <<>>, Append(x.mem, v), x.at, x.wire, p, h,
           FALSE)
         ELSE Is(Step(x, v), "DECODE", More(Top(x), v, Len(x.mem) + 1) \o Tail(x.todo),
                 Append(x.mem, v), x.at, x.wire, x.pos + 1 + After(Top(x), v),
                 x.heap \cup New(Top(x), v, Len(x.mem) + 1), x.ok)
<1> DEFINE r == Top(x)
           y == Take(x, v)
           s == Len(x.mem) + 1
           tl == Tail(x.todo)
           mm == Append(x.mem, v)
           p1 == x.pos + 1
<1>1. Is(y, "DECODE", x.todo, mm, x.at, x.wire, p1, x.heap, x.ok)
  BY TakeIs
<1>2. Step(x, v) = Call1(y, r, v)
  BY StepIs
<1>3. /\ <<>> \o tl = tl /\ x.todo # <<>>
      /\ s \in Place /\ Len(mm) = s /\ mm # <<>>
      /\ p1 \in Nat /\ p1 + 0 = p1 /\ p1 = x.pos + 1 /\ x.pos \in Nat /\ Len(x.wire) \in Nat
  <2>1. <<>> \o tl = tl /\ x.todo # <<>>
    BY TodoLeft DEF Handles, Ended
  <2>2. s \in Place /\ Len(mm) = s /\ mm # <<>>
    BY SMTT(30) DEF Handles, Place
  <2>3. p1 \in Nat /\ p1 + 0 = p1 /\ p1 = x.pos + 1 /\ x.pos \in Nat /\ Len(x.wire) \in Nat
    BY DEF Handles, Place
  <2> QED BY <2>1, <2>2, <2>3
<1>4. Is(Fail(y), "DECODE", <<>>, mm, x.at, x.wire, p1, x.heap, FALSE)
  BY <1>1, FailIs DEF Is
<1>5. More(r, v, s) \in Todo
  BY <1>3, MoreTodo
<1>6. Shape(r) /\ Steers(r)
  OBVIOUS
<1>7. y \in Handles /\ y.todo = x.todo
  BY <1>1 DEF Is
<1>8. Is(Return(y), "DECODE", tl, mm, x.at, x.wire, p1, x.heap, x.ok)
  <2>1. Is(Return(y), y.op, Tail(y.todo), y.mem, y.at, y.wire, y.pos, y.heap, y.ok)
    BY <1>3, <1>7, ReturnIs
  <2> HIDE DEF y, mm, p1
  <2> QED BY <1>1, <2>1 DEF Is
<1>9. ASSUME NEW ts \in Todo
      PROVE  Is(Continue(y, ts), "DECODE", ts \o tl, mm, x.at, x.wire, p1, x.heap, x.ok)
  <2>1. Is(Continue(y, ts), y.op, ts \o Tail(y.todo), y.mem, y.at, y.wire, y.pos, y.heap, y.ok)
    BY <1>3, <1>7, ContinueIs
  <2> HIDE DEF y, mm, p1
  <2> QED BY <1>1, <2>1 DEF Is
<1>10. Is(Alloc(y), "DECODE", x.todo, mm, x.at, x.wire, p1, x.heap \cup {s}, x.ok)
  <2> HIDE DEF y, mm, p1, s
  <2>1. y.op = "DECODE" /\ y.mem = mm /\ Len(y.mem) = s
    BY <1>1, <1>3 DEF Is
  <2>2. Is(Alloc(y), y.op, y.todo, y.mem, y.at, y.wire, y.pos, y.heap \cup {s}, y.ok)
    BY <1>3, <1>7, <2>1, AllocIs
  <2> QED BY <1>1, <2>2 DEF Is
<1> HIDE DEF r, y, s, mm, tl, p1
<1> DEFINE c == Call1(y, r, v)
           Goal == IF Bad(r, v) \/ x.pos + After(r, v) > Len(x.wire)
           THEN \E p, h : Is(c, "DECODE", <<>>, mm, x.at, x.wire, p, h, FALSE)
           ELSE Is(c, "DECODE", More(r, v, s) \o tl, mm, x.at, x.wire, p1 + After(r, v),
                   x.heap \cup New(r, v, s), x.ok)
<1> HIDE DEF c
<1> SUFFICES Goal
  BY <1>2 DEF r, y, s, mm, tl, p1, c
<1>11. CASE r.kind = "switch"
  <2>1. c = xdr_switch(y, v, r) /\ After(r, v) = 0 /\ ~Holds(r, v)
    BY <1>6, <1>11, CallIs DEF After, Holds, c
  <2>2. ~(x.pos + After(r, v) > Len(x.wire)) /\ x.heap \cup New(r, v, s) = x.heap
        /\ p1 + After(r, v) = p1
    BY <1>3, <2>1 DEF New
  <2>3. CASE v \in DOMAIN r.arms
    <3>1. c = Continue(y, More(r, v, s)) /\ ~Bad(r, v)
      BY <1>11, <2>1, <2>3 DEF xdr_switch, More, Bad
    <3> QED BY <1>5, <1>9, <2>2, <3>1
  <2>4. CASE v \notin DOMAIN r.arms /\ r.dflt
    <3>1. c = Return(y) /\ ~Bad(r, v) /\ More(r, v, s) = <<>>
      BY <1>11, <2>1, <2>4 DEF xdr_switch, More, Bad
    <3> QED BY <1>3, <1>8, <2>2, <3>1
  <2>5. CASE v \notin DOMAIN r.arms /\ ~r.dflt
    <3>1. c = Fail(y) /\ Bad(r, v)
      BY <1>11, <2>1, <2>5 DEF xdr_switch, Bad
    <3> QED BY <1>4, <3>1
  <2> QED BY <2>3, <2>4, <2>5
<1>12. CASE r.kind \in {"bytes", "string"}
  <2>1. /\ y.op = "DECODE" /\ r.max \in Nat /\ More(r, v, s) = <<>>
        /\ After(r, v) = (v + 3) \div 4 /\ (v + 3) \div 4 \in Nat
    BY <1>1, <1>6, <1>12 DEF Is, Shape, More, After
  <2> DEFINE z == IF Holds(r, v) THEN Alloc(y) ELSE y
             hh == x.heap \cup New(r, v, s)
  <2>2. c = IF v > r.max THEN Fail(y) ELSE xdr_units(z, After(r, v))
    BY <1>6, <1>12, <2>1, CallIs, BytesIs DEF c
  <2>3. Is(z, "DECODE", x.todo, mm, x.at, x.wire, p1, hh, x.ok)
    <3>1. CASE Holds(r, v)
      BY <1>10, <3>1 DEF New
    <3>2. CASE ~Holds(r, v)
      <4>1. z = y /\ hh = x.heap
        BY <3>2 DEF New
      <4> QED BY <1>1, <4>1
    <3> QED BY <3>1, <3>2
  <2> HIDE DEF z, hh
  <2>4. CASE v > r.max
    <3>1. c = Fail(y) /\ Bad(r, v)
      BY <1>12, <2>2, <2>4 DEF Bad
    <3> QED BY <1>4, <3>1
  <2>5. CASE ~(v > r.max)
    <3>1. ~Bad(r, v)
      BY <1>12, <2>5 DEF Bad
    <3>2. /\ c = xdr_units(z, After(r, v)) /\ z \in Handles /\ z.todo = x.todo
             /\ After(r, v) \in Nat
          /\ z.op = "DECODE" /\ z.pos = p1 /\ z.wire = x.wire
      BY <2>1, <2>2, <2>3, <2>5 DEF Is
    <3>3. (z.pos + After(r, v) - 1 > Len(z.wire)) <=> (x.pos + After(r, v) > Len(x.wire))
      BY <1>3, <3>2
    <3>4. CASE x.pos + After(r, v) > Len(x.wire)
      <4>1. c = Fail(z)
        BY <1>3, <3>2, <3>3, <3>4, UnitsIs
      <4>2. Is(c, z.op, <<>>, z.mem, z.at, z.wire, z.pos, z.heap, FALSE)
        BY <3>2, <4>1, FailIs
      <4>3. Is(c, "DECODE", <<>>, mm, x.at, x.wire, z.pos, z.heap, FALSE)
        BY <2>3, <4>2 DEF Is
      <4> QED BY <3>4, <4>3
    <3>5. CASE ~(x.pos + After(r, v) > Len(x.wire))
      <4>1. Is(c, "DECODE", Tail(z.todo), z.mem, z.at, z.wire, z.pos + After(r, v), z.heap, z.ok)
        BY <1>3, <3>2, <3>3, <3>5, UnitsIs
      <4>2. Is(c, "DECODE", tl, mm, x.at, x.wire, p1 + After(r, v), hh, x.ok)
        BY <2>3, <4>1 DEF Is, tl
      <4> QED BY <1>3, <2>1, <3>1, <3>5, <4>2 DEF hh
    <3> QED BY <3>4, <3>5
  <2> QED BY <2>4, <2>5
<1>13. CASE r.kind \in {"array", "pointer"}
  <2>1. c = xdr_elements(y, v, r.of) /\ After(r, v) = 0 /\ ~Bad(r, v) /\ (Holds(r, v) <=> v # 0)
    BY <1>6, <1>13, CallIs DEF After, Bad, Holds, c
  <2>2. ~(x.pos + After(r, v) > Len(x.wire)) /\ p1 + After(r, v) = p1
    BY <1>3, <2>1
  <2>3. CASE v = 0
    <3>1. c = Return(y) /\ More(r, v, s) = <<>>
      BY <1>13, <2>1, <2>3 DEF xdr_elements, More
    <3>2. x.heap \cup New(r, v, s) = x.heap
      BY <2>1, <2>3 DEF New
    <3> QED BY <1>3, <1>8, <2>1, <2>2, <3>1, <3>2
  <2>4. CASE v # 0
    <3>1. Slot(y) = s
      BY <1>1, <1>3 DEF Is, Slot
    <3>2. c = Continue(Alloc(y), More(r, v, s))
      BY <1>13, <2>1, <2>4, <3>1 DEF xdr_elements, More
    <3> DEFINE z == Alloc(y)
    <3>3. z \in Handles /\ z.todo = x.todo
      BY <1>10 DEF Is
    <3>4. Is(c, z.op, More(r, v, s) \o Tail(z.todo), z.mem, z.at, z.wire, z.pos, z.heap, z.ok)
      BY <1>3, <1>5, <3>2, <3>3, ContinueIs
    <3> HIDE DEF z
    <3>5. Is(c, "DECODE", More(r, v, s) \o tl, mm, x.at, x.wire, p1, x.heap \cup {s}, x.ok)
      BY <1>10, <3>4 DEF Is, tl, z
    <3>6. New(r, v, s) = {s}
      BY <2>1, <2>4 DEF New
    <3> QED BY <2>1, <2>2, <3>5, <3>6
  <2> QED BY <2>3, <2>4
<1> QED BY <1>6, <1>11, <1>12, <1>13 DEF Steers

\* ... and when freeing.
LEMMA StepFree ==
  ASSUME NEW x \in Handles, x.op = "FREE", ~Ended(x), NEW v \in Nat,
         Shape(Top(x)), Steers(Top(x)), ~Bad(Top(x), v)
  PROVE  Is(Step(x, v), "FREE", More(Top(x), v, x.at) \o Tail(x.todo), x.mem, x.at + 1, x.wire,
            x.pos, IF Top(x).kind \in {"bytes", "string"} THEN x.heap \ {x.at} ELSE x.heap, x.ok)
<1> DEFINE r == Top(x)
           y == Take(x, v)
           tl == Tail(x.todo)
           a1 == x.at + 1
<1>1. Is(y, "FREE", x.todo, x.mem, a1, x.wire, x.pos, x.heap, x.ok)
  BY TakeIs
<1>2. Step(x, v) = Call1(y, r, v)
  BY StepIs
<1>3. /\ <<>> \o tl = tl /\ x.todo # <<>> /\ x.at \in Place /\ a1 - 1 = x.at
  BY TodoLeft DEF Handles, Ended, Place
<1>4. Slot(y) = x.at
  BY <1>1, <1>3 DEF Is, Slot
<1>5. More(r, v, x.at) \in Todo
  BY <1>3, MoreTodo
<1>6. Shape(r) /\ Steers(r) /\ ~Bad(r, v)
  OBVIOUS
<1>7. y \in Handles /\ y.todo = x.todo /\ y.op = "FREE"
  BY <1>1 DEF Is
<1>8. Is(Return(y), "FREE", tl, x.mem, a1, x.wire, x.pos, x.heap, x.ok)
  <2>1. Is(Return(y), y.op, Tail(y.todo), y.mem, y.at, y.wire, y.pos, y.heap, y.ok)
    BY <1>3, <1>7, ReturnIs
  <2> HIDE DEF y, a1
  <2> QED BY <1>1, <2>1 DEF Is
<1>9. ASSUME NEW ts \in Todo
      PROVE  Is(Continue(y, ts), "FREE", ts \o tl, x.mem, a1, x.wire, x.pos, x.heap, x.ok)
  <2>1. Is(Continue(y, ts), y.op, ts \o Tail(y.todo), y.mem, y.at, y.wire, y.pos, y.heap, y.ok)
    BY <1>3, <1>7, ContinueIs
  <2> HIDE DEF y, a1
  <2> QED BY <1>1, <2>1 DEF Is
<1> HIDE DEF r, y, tl, a1
<1> DEFINE c == Call1(y, r, v)
           Goal == Is(c, "FREE", More(r, v, x.at) \o tl, x.mem, a1, x.wire, x.pos,
                      IF r.kind \in {"bytes", "string"} THEN x.heap \ {x.at} ELSE x.heap, x.ok)
<1> HIDE DEF c
<1> SUFFICES Goal
  BY <1>2 DEF r, y, tl, a1, c
<1>10. CASE r.kind = "switch"
  <2>1. c = xdr_switch(y, v, r)
    BY <1>6, <1>10, CallIs DEF c
  <2>2. CASE v \in DOMAIN r.arms
    <3>1. c = Continue(y, More(r, v, x.at))
      BY <1>10, <2>1, <2>2 DEF xdr_switch, More
    <3> QED BY <1>5, <1>9, <1>10, <3>1
  <2>3. CASE v \notin DOMAIN r.arms
    <3>1. c = Return(y) /\ More(r, v, x.at) = <<>>
      BY <1>6, <1>10, <2>1, <2>3 DEF xdr_switch, More, Bad
    <3> QED BY <1>3, <1>8, <1>10, <3>1
  <2> QED BY <2>2, <2>3
<1>11. CASE r.kind \in {"bytes", "string"}
  <2>1. c = xdr_bytes(y, v, r.max, Holds(r, v)) /\ More(r, v, x.at) = <<>>
    BY <1>6, <1>11, CallIs DEF c, More
  <2> DEFINE z == Return(y)
  <2>2. c = Free(z, x.at)
    BY <1>4, <1>7, <2>1 DEF xdr_bytes
  <2>3. z \in Handles /\ z.op = "FREE"
    BY <1>8 DEF Is
  <2>4. c = [z EXCEPT !.heap = z.heap \ {x.at}] /\ z.heap \ {x.at} \in SUBSET Place
    BY <2>2, <2>3 DEF Free, Handles
  <2>5. Is(c, z.op, z.todo, z.mem, z.at, z.wire, z.pos, z.heap \ {x.at}, z.ok)
    BY <2>3, <2>4, HeapIs
  <2> HIDE DEF z
  <2>6. Is(c, "FREE", tl, x.mem, a1, x.wire, x.pos, x.heap \ {x.at}, x.ok)
    BY <1>8, <2>5 DEF Is, z
  <2> QED BY <1>3, <1>11, <2>1, <2>6
<1>12. CASE r.kind \in {"array", "pointer"}
  <2>1. c = xdr_elements(y, v, r.of) /\ Alloc(y) = y
    BY <1>6, <1>7, <1>12, CallIs DEF c, Alloc
  <2>2. CASE v = 0
    <3>1. c = Return(y) /\ More(r, v, x.at) = <<>>
      BY <1>12, <2>1, <2>2 DEF xdr_elements, More
    <3> QED BY <1>3, <1>8, <1>12, <3>1
  <2>3. CASE v # 0
    <3>1. c = Continue(y, More(r, v, x.at))
      BY <1>4, <1>12, <2>1, <2>3 DEF xdr_elements, More
    <3> QED BY <1>5, <1>9, <1>12, <3>1
  <2> QED BY <2>2, <2>3
<1> QED BY <1>6, <1>10, <1>11, <1>12 DEF Steers

-----------------------------------------------------------------------------
(* One call of Advance.                                                    *)

\* The routine that is called next is well formed.
LEMMA TopShape ==
  ASSUME NEW x \in Handles, ~Ended(x), Head(x.todo)[1] # "release"
  PROVE  Shape(Top(x))
<1>1. Head(x.todo)[1] \in Name
  BY TodoLeft DEF Handles, Ended
<1> QED BY <1>1, RoutineShaped DEF Top

\* Advance, when an object is to be freed, ...
LEMMA AdvanceRelease ==
  ASSUME NEW x \in Handles, ~Ended(x), Head(x.todo)[1] = "release"
  PROVE  Is(Advance(x), x.op, Tail(x.todo), x.mem, x.at, x.wire, x.pos,
            IF x.op = "FREE" THEN x.heap \ {Head(x.todo)[2]} ELSE x.heap, x.ok)
<1> DEFINE y == Return(x)
           s == Head(x.todo)[2]
<1>1. Is(y, x.op, Tail(x.todo), x.mem, x.at, x.wire, x.pos, x.heap, x.ok)
  BY ReturnIs DEF Ended
<1>2. Advance(x) = Free(y, s)
  BY DEF Advance
<1> HIDE DEF y, s
<1>3. CASE x.op = "FREE"
  <2>1. Advance(x) = [y EXCEPT !.heap = y.heap \ {s}] /\ y.heap \ {s} \in SUBSET Place
        /\ y \in Handles
    BY <1>1, <1>2, <1>3 DEF Free, Is, Handles
  <2>2. Is(Advance(x), y.op, y.todo, y.mem, y.at, y.wire, y.pos, y.heap \ {s}, y.ok)
    BY <2>1, HeapIs
  <2> QED BY <1>1, <1>3, <2>2 DEF Is, s
<1>4. CASE x.op # "FREE"
  <2>1. Advance(x) = y
    BY <1>1, <1>2, <1>4 DEF Free, Is
  <2> QED BY <1>1, <1>4, <2>1
<1> QED BY <1>3, <1>4

\* ... when words are passed over, ...
LEMMA AdvanceUnits ==
  ASSUME NEW x \in Handles, ~Ended(x), Head(x.todo)[1] # "release", Top(x).kind = "units"
  PROVE  Advance(x) = xdr_units(x, Top(x).n) /\ Top(x).n \in Nat /\ x.todo # <<>>
<1>1. Shape(Top(x))
  BY TopShape
<1>2. Top(x).n \in Nat
  BY <1>1 DEF Shape
<1>3. ~Steers(Top(x))
  BY DEF Steers
<1>4. Advance(x) = Call0(x, Top(x))
  BY <1>3 DEF Advance
<1> QED BY <1>2, <1>4 DEF Call0, Ended

\* The routines that r calls in turn.
Turns(r) == [i \in DOMAIN r.of |-> <<r.of[i], 0>>]

\* ... when a routine calls others, ...
LEMMA AdvanceCalls ==
  ASSUME NEW x \in Handles, ~Ended(x), Head(x.todo)[1] # "release", Top(x).kind = "calls"
  PROVE  /\ Turns(Top(x)) \in Todo /\ Top(x).of \in Seq(Name)
         /\ Is(Advance(x), x.op, Turns(Top(x)) \o Tail(x.todo), x.mem, x.at, x.wire, x.pos,
               x.heap, x.ok)
<1>1. Shape(Top(x))
  BY TopShape
<1>2. Top(x).of \in Seq(Name)
  BY <1>1 DEF Shape
<1>3. Turns(Top(x)) \in Todo
  BY <1>2, NamedTodo DEF Turns
<1>4. ~Steers(Top(x))
  BY DEF Steers
<1>5. Advance(x) = Call0(x, Top(x))
  BY <1>4 DEF Advance
<1>6. Advance(x) = Continue(x, Turns(Top(x)))
  BY <1>5 DEF Call0, xdr_calls, Turns
<1> QED BY <1>2, <1>3, <1>6, ContinueIs DEF Ended

\* ... and when the part that is taken steers.
LEMMA AdvanceSteers ==
  ASSUME NEW x \in Handles, ~Ended(x), Head(x.todo)[1] # "release", Steers(Top(x))
  PROVE  /\ x.op = "ENCODE" => Advance(x) = x
         /\ x.op = "DECODE" =>
              IF x.pos > Len(x.wire) THEN Advance(x) = Fail(x)
              ELSE Read(x) \in Nat /\ Advance(x) = Step(x, Read(x))
         /\ x.op = "FREE" => Stored(x) \in Nat /\ Advance(x) = Step(x, Stored(x))
<1>1. ASSUME NEW u PROVE The({Step(x, v) : v \in {u}}) = Step(x, u)
  <2>1. {Step(x, v) : v \in {u}} = {Step(x, u)}
    OBVIOUS
  <2> QED BY <2>1, TheOnly
<1>2. Advance(x) = CASE x.op = "ENCODE" -> x
         [] x.op = "DECODE" -> IF x.pos > Len(x.wire) THEN Fail(x)
                               ELSE The({Step(x, v) : v \in {Read(x)}})
         [] x.op = "FREE"   -> The({Step(x, v) : v \in {Stored(x)}})
  BY DEF Advance
<1>3. Stored(x) \in Nat
  BY DEF Stored, Handles, Place
<1>4. ASSUME ~(x.pos > Len(x.wire)) PROVE Read(x) \in Nat
  <2>1. x.wire[x.pos] \in Nat
    BY <1>4 DEF Handles, Place
  <2> QED BY <2>1 DEF Read
<1>5. x.op = "ENCODE" => Advance(x) = x
  BY <1>2
<1>6. x.op = "DECODE" =>
        Advance(x) = IF x.pos > Len(x.wire) THEN Fail(x) ELSE The({Step(x, v) : v \in {Read(x)}})
  BY <1>2
<1>7. x.op = "FREE" => Advance(x) = The({Step(x, v) : v \in {Stored(x)}})
  BY <1>2
<1> QED BY <1>1, <1>3, <1>4, <1>5, <1>6, <1>7, Zenon

\* The kinds of the routine that is called next.
LEMMA Kinds ==
  ASSUME NEW x \in Handles, ~Ended(x), Head(x.todo)[1] # "release"
  PROVE  Top(x).kind = "units" \/ Top(x).kind = "calls" \/ Steers(Top(x))
BY TopShape, ShapeKind

\* What decoding never changes, and that it stops when it fails.
LEMMA DecodeKeeps ==
  ASSUME NEW x \in Handles, x.op = "DECODE"
  PROVE  /\ Advance(x) \in Handles /\ Advance(x).op = "DECODE"
         /\ Advance(x).wire = x.wire
         /\ Advance(x).ok => x.ok
         /\ x.ok /\ ~Advance(x).ok => Ended(Advance(x))
         /\ Advance(x).mem = x.mem \/ \E v \in Nat : Advance(x).mem = Append(x.mem, v)
         /\ Advance(x).ok => x.heap \subseteq Advance(x).heap
<1>1. CASE Ended(x)
  BY <1>1, AdvanceEnded
<1>2. CASE ~Ended(x) /\ Head(x.todo)[1] = "release"
  BY <1>2, AdvanceRelease DEF Is
<1>3. CASE ~Ended(x) /\ Head(x.todo)[1] # "release"
  <2>0. Is(Fail(x), "DECODE", <<>>, x.mem, x.at, x.wire, x.pos, x.heap, FALSE)
    BY FailIs
  <2>1. CASE Top(x).kind = "units"
    <3>1. Advance(x) = xdr_units(x, Top(x).n) /\ Top(x).n \in Nat /\ x.todo # <<>>
      BY <1>3, <2>1, AdvanceUnits
    <3>2. CASE x.pos + Top(x).n - 1 > Len(x.wire)
      <4>1. Advance(x) = Fail(x)
        BY <3>1, <3>2, UnitsIs
      <4> QED BY <2>0, <4>1 DEF Is, Ended
    <3>3. CASE ~(x.pos + Top(x).n - 1 > Len(x.wire))
      <4>1. Is(Advance(x), "DECODE", Tail(x.todo), x.mem, x.at, x.wire, x.pos + Top(x).n, x.heap,
            x.ok)
        BY <3>1, <3>3, UnitsIs
      <4> QED BY <4>1 DEF Is
    <3> QED BY <3>2, <3>3
  <2>2. CASE Top(x).kind = "calls"
    BY <1>3, <2>2, AdvanceCalls DEF Is
  <2>3. CASE Steers(Top(x))
    <3>1. CASE x.pos > Len(x.wire)
      <4>1. Advance(x) = Fail(x)
        BY <1>3, <2>3, <3>1, AdvanceSteers
      <4> QED BY <2>0, <4>1 DEF Is, Ended
    <3>2. CASE ~(x.pos > Len(x.wire))
      <4> DEFINE v == Read(x)
                 r == Top(x)
      <4>1. v \in Nat /\ Advance(x) = Step(x, v) /\ Shape(r) /\ x.pos <= Len(x.wire)
        BY <1>3, <2>3, <3>2, AdvanceSteers, TopShape DEF Handles, Place
      <4> HIDE DEF v
      <4>2. CASE Bad(r, v) \/ x.pos + After(r, v) > Len(x.wire)
        <5>1. PICK p, h : Is(Advance(x), "DECODE", <<>>, Append(x.mem, v), x.at, x.wire, p, h,
                   FALSE)
          BY <1>3, <2>3, <4>1, <4>2, StepDecode
        <5> QED BY <4>1, <5>1 DEF Is, Ended
      <4>3. CASE ~(Bad(r, v) \/ x.pos + After(r, v) > Len(x.wire))
        <5>1. Is(Advance(x), "DECODE", More(Top(x), v, Len(x.mem) + 1) \o Tail(x.todo),
                 Append(x.mem, v), x.at, x.wire, x.pos + 1 + After(Top(x), v),
                 x.heap \cup New(Top(x), v, Len(x.mem) + 1), x.ok)
          BY <1>3, <2>3, <4>1, <4>3, StepDecode
        <5> QED BY <4>1, <5>1 DEF Is
      <4> QED BY <4>2, <4>3
    <3> QED BY <3>1, <3>2
  <2> QED BY <1>3, <2>1, <2>2, <2>3, Kinds
<1> QED BY <1>1, <1>2, <1>3

-----------------------------------------------------------------------------
(* Freeing what was decoded goes the same way as decoding it.              *)

\* The objects that are still to be freed.
Pending(todo) == {todo[i][2] : i \in DOMAIN todo}

\* Objects to be freed, of calls that are put together or done.
LEMMA PendingConcat ==
  ASSUME NEW a \in Todo, NEW b \in Todo
  PROVE  Pending(a) \subseteq Pending(a \o b) /\ Pending(b) \subseteq Pending(a \o b)
<1> DEFINE S == (Name \X {0}) \cup ({"release"} \X Place)
<1>1. a \in Seq(S) /\ b \in Seq(S)
  BY DEF Todo
<1> HIDE DEF S
<1>2. /\ a \o b \in Seq(S) /\ Len(a \o b) = Len(a) + Len(b)
      /\ \A i \in 1 .. Len(a) + Len(b) :
           (a \o b)[i] = IF i <= Len(a) THEN a[i] ELSE b[i - Len(a)]
  BY <1>1, ConcatProperties
<1>3. /\ Len(a) \in Nat /\ Len(b) \in Nat
      /\ DOMAIN a = 1 .. Len(a) /\ DOMAIN b = 1 .. Len(b)
         /\ DOMAIN (a \o b) = 1 .. Len(a) + Len(b)
  BY <1>1, <1>2, LenProperties
<1> DEFINE c == a \o b
<1> HIDE DEF c
<1>4. ASSUME NEW i \in DOMAIN a PROVE a[i][2] \in Pending(c)
  <2>1. i \in DOMAIN c /\ c[i] = a[i]
    BY <1>2, <1>3 DEF c
  <2> QED BY <2>1 DEF Pending
<1>5. ASSUME NEW i \in DOMAIN b PROVE b[i][2] \in Pending(c)
  <2>1. i + Len(a) \in DOMAIN c /\ c[i + Len(a)] = b[i]
    BY <1>2, <1>3 DEF c
  <2> QED BY <2>1 DEF Pending
<1> QED BY <1>4, <1>5 DEF Pending, c

LEMMA PendingTail ==
  ASSUME NEW todo \in Todo, todo # <<>>
  PROVE  Pending(todo) \subseteq Pending(Tail(todo)) \cup {Head(todo)[2]}
<1> DEFINE S == (Name \X {0}) \cup ({"release"} \X Place)
           tl == Tail(todo)
<1>1. todo \in Seq(S)
  BY DEF Todo
<1> HIDE DEF S
<1>2. /\ Len(todo) \in Nat \ {0} /\ DOMAIN todo = 1 .. Len(todo) /\ Head(todo) = todo[1]
      /\ tl \in Seq(S) /\ Len(tl) = Len(todo) - 1
      /\ \A i \in 1 .. Len(tl) : tl[i] = todo[i + 1]
  BY <1>1, EmptySeq, HeadTailProperties, LenProperties
<1>3. DOMAIN tl = 1 .. Len(todo) - 1
  BY <1>2, LenProperties
<1> HIDE DEF tl
<1>4. ASSUME NEW i \in DOMAIN todo, i # 1 PROVE todo[i][2] \in Pending(tl)
  <2>1. i - 1 \in DOMAIN tl /\ tl[i - 1] = todo[i]
    BY <1>2, <1>3, <1>4
  <2> QED BY <2>1 DEF Pending
<1> QED BY <1>2, <1>4 DEF Pending, tl

\* An object that is decoded is to be freed after its elements.
LEMMA PendingMore ==
  ASSUME NEW r, Shape(r), r.kind \in {"array", "pointer"}, NEW v \in Nat, v # 0, NEW s \in Place
  PROVE  s \in Pending(More(r, v, s))
<1> DEFINE a == [i \in 1 .. v |-> <<r.of, 0>>]
           b == << <<"release", s>> >>
<1>1. r.of \in Name
  BY DEF Shape
<1>2. a \in Todo /\ b \in Todo
  BY <1>1, Elements
<1>3. More(r, v, s) = a \o b
  BY DEF More
<1>4. s \in Pending(b)
  <2>1. 1 \in DOMAIN b /\ b[1][2] = s
    OBVIOUS
  <2> HIDE DEF b
  <2> QED BY <2>1 DEF Pending
<1> HIDE DEF a, b
<1> QED BY <1>2, <1>3, <1>4, PendingConcat

\* The handle f frees, where d decodes, a value whose objects are in A.
Together(d, f, A) ==
  /\ d \in Handles /\ d.op = "DECODE" /\ d.ok
  /\ f \in Handles /\ f.op = "FREE" /\ f.ok
  /\ f.todo = d.todo /\ f.at = Len(d.mem) + 1
  /\ f.heap \subseteq (A \ d.heap) \cup Pending(d.todo)

\* One call of Advance keeps freeing and decoding together.
LEMMA TogetherStep ==
  ASSUME NEW d, NEW f, NEW A, Together(d, f, A), Advance(d).ok,
         \A i \in 1 .. Len(Advance(d).mem) : i <= Len(f.mem) /\ f.mem[i] = Advance(d).mem[i]
  PROVE  Together(Advance(d), Advance(f), A) /\ Advance(f).mem = f.mem
<1> DEFINE y == Advance(d)
           z == Advance(f)
<1>0. /\ d \in Handles /\ d.op = "DECODE" /\ d.ok
      /\ f \in Handles /\ f.op = "FREE" /\ f.ok
      /\ f.todo = d.todo /\ f.at = Len(d.mem) + 1
      /\ f.heap \subseteq (A \ d.heap) \cup Pending(d.todo)
      /\ d.todo \in Todo /\ 0 \notin f.heap /\ Len(d.mem) \in Nat /\ d.mem \in Seq(Nat)
  BY DEF Together, Handles, Place
<1>1. CASE Ended(d)
  <2>1. Ended(f)
    BY <1>0, <1>1 DEF Ended
  <2> QED BY <1>1, <2>1, AdvanceEnded
<1>2. ASSUME NEW mem, NEW at, NEW todo, NEW pos, NEW h1, NEW h2,
             Is(y, "DECODE", todo, mem, d.at, d.wire, pos, h1, d.ok),
             Is(z, "FREE", todo, f.mem, at, f.wire, f.pos, h2, f.ok),
             at = Len(mem) + 1, h2 \subseteq (A \ h1) \cup Pending(todo)
      PROVE  Together(y, z, A) /\ z.mem = f.mem
  <2> HIDE DEF y, z
  <2> QED BY <1>0, <1>2 DEF Is, Together
<1>3. CASE ~Ended(d) /\ Head(d.todo)[1] = "release"
  <2> DEFINE s == Head(d.todo)[2]
             tl == Tail(d.todo)
  <2>1. Is(y, "DECODE", tl, d.mem, d.at, d.wire, d.pos, d.heap, d.ok)
    BY <1>0, <1>3, AdvanceRelease
  <2>2. Is(z, "FREE", tl, f.mem, f.at, f.wire, f.pos, f.heap \ {s}, f.ok)
    <3>1. ~Ended(f) /\ Head(f.todo)[1] = "release"
      BY <1>0, <1>3 DEF Ended
    <3> QED BY <1>0, <3>1, AdvanceRelease
  <2>3. Pending(d.todo) \subseteq Pending(tl) \cup {s}
    BY <1>0, <1>3, PendingTail DEF Ended
  <2>4. f.heap \ {s} \subseteq (A \ d.heap) \cup Pending(tl)
    BY <1>0, <2>3
  <2> HIDE DEF s, tl, y, z
  <2> DEFINE h == f.heap \ {s}
  <2>5. Is(z, "FREE", tl, f.mem, f.at, f.wire, f.pos, h, f.ok) /\ h \subseteq (A \ d.heap)
        \cup Pending(tl)
    BY <2>2, <2>4
  <2> HIDE DEF h
  <2>6. Together(y, z, A) /\ z.mem = f.mem
    BY <1>0, <2>1, <2>5 DEF Is, Together
  <2> QED BY <2>6 DEF y, z
<1>4. CASE ~Ended(d) /\ Head(d.todo)[1] # "release"
  <2> DEFINE tl == Tail(d.todo)
             r == Top(d)
  <2>1. Head(d.todo)[2] = 0
    <3>1. Head(d.todo) \in (Name \X {0}) \cup ({"release"} \X Place)
      BY <1>0, <1>4, HeadTailProperties DEF Todo, Ended
    <3> QED BY <1>4, <3>1
  <2>2. f.heap \subseteq (A \ d.heap) \cup Pending(tl)
    <3>1. Pending(d.todo) \subseteq Pending(tl) \cup {Head(d.todo)[2]}
      BY <1>0, <1>4, PendingTail DEF Ended
    <3> QED BY <1>0, <2>1, <3>1
  <2>3. /\ ~Ended(f) /\ Head(f.todo)[1] # "release" /\ Top(f) = r /\ Tail(f.todo) = tl
        /\ Shape(r) /\ tl \in Todo
    BY <1>0, <1>4, TopShape, TodoLeft DEF Ended, Top
  <2>4. ASSUME y = Fail(d) PROVE FALSE
    <3>1. ~Fail(d).ok
      BY <1>0, FailIs DEF Is
    <3> QED BY <2>4, <3>1
  <2>5. CASE r.kind = "units"
    <3>1. y = xdr_units(d, r.n) /\ z = xdr_units(f, r.n) /\ r.n \in Nat /\ d.todo # <<>>
          /\ f.todo # <<>>
      BY <1>0, <1>4, <2>3, <2>5, AdvanceUnits
    <3>2. ~(d.pos + r.n - 1 > Len(d.wire))
      BY <1>0, <2>4, <3>1, UnitsIs
    <3>3. Is(y, "DECODE", tl, d.mem, d.at, d.wire, d.pos + r.n, d.heap, d.ok)
      BY <1>0, <3>1, <3>2, UnitsIs
    <3>4. Is(z, "FREE", tl, f.mem, f.at, f.wire, f.pos, f.heap, f.ok)
      BY <1>0, <2>3, <3>1, UnitsIs
    <3> HIDE DEF y, z, tl
    <3> QED BY <1>0, <1>2, <2>2, <3>3, <3>4, ZenonT(30) DEF y, z
  <2>6. CASE r.kind = "calls"
    <3>1. Is(y, "DECODE", Turns(r) \o tl, d.mem, d.at, d.wire, d.pos, d.heap, d.ok)
          /\ Turns(r) \in Todo
      BY <1>0, <1>4, <2>6, AdvanceCalls
    <3>2. Is(z, "FREE", Turns(r) \o tl, f.mem, f.at, f.wire, f.pos, f.heap, f.ok)
      BY <1>0, <2>3, <2>6, AdvanceCalls
    <3>3. f.heap \subseteq (A \ d.heap) \cup Pending(Turns(r) \o tl)
      BY <2>2, <2>3, <3>1, PendingConcat
    <3> DEFINE todo == Turns(r) \o tl
    <3> HIDE DEF y, z, todo
    <3>4. Together(y, z, A) /\ z.mem = f.mem
      BY <1>0, <1>2, <3>1, <3>2, <3>3 DEF todo
    <3> QED BY <3>4 DEF y, z
  <2>7. CASE Steers(r)
    <3> DEFINE v == Read(d)
               s == Len(d.mem) + 1
               h == IF r.kind \in {"bytes", "string"} THEN f.heap \ {s} ELSE f.heap
    <3>1. ~(d.pos > Len(d.wire))
      BY <1>0, <1>4, <2>4, <2>7, AdvanceSteers
    <3>2. v \in Nat /\ y = Step(d, v) /\ d.pos <= Len(d.wire)
      <4>1. v \in Nat /\ y = Step(d, v)
        BY <1>0, <1>4, <2>7, <3>1, AdvanceSteers
      <4>2. d.pos \in Nat /\ Len(d.wire) \in Nat
        BY <1>0 DEF Handles, Place
      <4> QED BY <3>1, <4>1, <4>2
    <3> HIDE DEF v
    <3>3. ~(Bad(r, v) \/ d.pos + After(r, v) > Len(d.wire))
      <4> SUFFICES ASSUME Bad(r, v) \/ d.pos + After(r, v) > Len(d.wire) PROVE FALSE
        OBVIOUS
      <4>1. PICK p, hh : Is(y, "DECODE", <<>>, Append(d.mem, v), d.at, d.wire, p, hh, FALSE)
        BY <1>0, <1>4, <2>3, <2>7, <3>2, StepDecode
      <4> QED BY <4>1 DEF Is
    <3>4. Is(y, "DECODE", More(r, v, s) \o tl, Append(d.mem, v), d.at, d.wire,
             d.pos + 1 + After(r, v), d.heap \cup New(r, v, s), d.ok)
      BY <1>0, <1>4, <2>3, <2>7, <3>2, <3>3, StepDecode
    <3>5. Stored(f) = v
      <4>1. y.mem = Append(d.mem, v)
        BY <3>4 DEF Is
      <4>2. s \in 1 .. Len(y.mem) /\ y.mem[s] = v
        BY <1>0, <3>2, <4>1
      <4>3. s <= Len(f.mem) /\ f.mem[s] = v
        BY <4>2
      <4> QED BY <1>0, <4>3 DEF Stored
    <3>6. z = Step(f, v)
      BY <1>0, <2>3, <2>7, <3>5, AdvanceSteers
    <3>7. Is(z, "FREE", More(r, v, s) \o tl, f.mem, s + 1, f.wire, f.pos, h, f.ok)
      BY <1>0, <2>3, <2>7, <3>2, <3>3, <3>6, StepFree
    <3>8. Len(Append(d.mem, v)) = s /\ s \in Place
      BY <1>0, <3>2 DEF Place
    <3>9. Pending(tl) \subseteq Pending(More(r, v, s) \o tl)
      BY <2>3, <2>7, <3>2, <3>8, MoreTodo, PendingConcat
    <3>10. h \subseteq (A \ (d.heap \cup New(r, v, s))) \cup Pending(More(r, v, s) \o tl)
      <4>1. CASE r.kind \in {"bytes", "string"}
        BY <2>2, <3>9, <4>1 DEF New
      <4>2. CASE r.kind = "switch"
        <5>1. New(r, v, s) = {}
          BY <4>2 DEF New, Holds
        <5> QED BY <2>2, <3>9, <4>2, <5>1
      <4>3. CASE r.kind \in {"array", "pointer"}
        <5>1. CASE v = 0
          <6>1. New(r, v, s) = {}
            BY <4>3, <5>1 DEF New, Holds
          <6> QED BY <2>2, <3>9, <4>3, <6>1
        <5>2. CASE v # 0
          <6>1. s \in Pending(More(r, v, s)) /\ More(r, v, s) \in Todo
            BY <2>3, <2>7, <3>2, <3>8, <4>3, <5>2, PendingMore, MoreTodo
          <6>2. s \in Pending(More(r, v, s) \o tl)
            BY <2>3, <6>1, PendingConcat
          <6> QED BY <2>2, <3>9, <4>3, <6>2 DEF New
        <5> QED BY <5>1, <5>2
      <4> QED BY <2>7, <4>1, <4>2, <4>3 DEF Steers
    <3> DEFINE todo == More(r, v, s) \o tl
               mem == Append(d.mem, v)
               nw == New(r, v, s)
    <3> HIDE DEF y, z, tl, r, h, s, todo, mem, nw
    <3> QED BY <1>2, <3>4, <3>7, <3>8, <3>10 DEF y, z, todo, mem, nw
  <2> QED BY <1>0, <1>4, <2>5, <2>6, <2>7, Kinds
<1> QED BY <1>1, <1>3, <1>4

\* A walk opened.
LEMMA OpenIs ==
  ASSUME NEW op \in {"ENCODE", "DECODE", "FREE"}, NEW t \in Name, NEW mem \in Seq(Nat),
         NEW wire \in Seq(Nat), NEW heap \in SUBSET Place
  PROVE  Is(Open(op, t, mem, wire, heap), op, << <<t, 0>> >>, mem, 1, wire, 1, heap, TRUE)
<1>1. << <<t, 0>> >> \in Todo
  BY DEF Todo
<1>2. 1 \in Place
  BY DEF Place
<1> DEFINE todo == << <<t, 0>> >>
<1> HIDE DEF todo
<1>3. Is([op |-> op, todo |-> todo, mem |-> mem, at |-> 1, wire |-> wire, pos |-> 1,
          heap |-> heap, ok |-> TRUE], op, todo, mem, 1, wire, 1, heap, TRUE)
  BY <1>1, <1>2 DEF Is, Handles, todo
<1> QED BY <1>3 DEF Open, todo

\* Along a walk that decodes.
LEMMA DecodeWalk ==
  ASSUME NEW x \in Handles, x.op = "DECODE", x.ok
  PROVE  \A n \in Nat : /\ Walk(x)[n] \in Handles /\ Walk(x)[n].op = "DECODE"
                        /\ Walk(x)[n].wire = x.wire
                        /\ ~Walk(x)[n].ok => Ended(Walk(x)[n])
<1> DEFINE P(y) == /\ y \in Handles /\ y.op = "DECODE" /\ y.wire = x.wire
                   /\ ~y.ok => Ended(y)
           S == {n \in Nat : P(Walk(x)[n])}
<1>1. 0 \in S
  BY WalkStep
<1>2. ASSUME NEW n \in Nat, n \in S PROVE n + 1 \in S
  <2> DEFINE y == Walk(x)[n]
  <2>1. P(y)
    BY <1>2
  <2>2. Walk(x)[n + 1] = Advance(y)
    BY WalkStep
  <2> HIDE DEF y
  <2>3. /\ Advance(y) \in Handles /\ Advance(y).op = "DECODE" /\ Advance(y).wire = y.wire
        /\ y.ok /\ ~Advance(y).ok => Ended(Advance(y))
    BY <2>1, DecodeKeeps
  <2>4. ~y.ok => Advance(y) = y
    BY <2>1, AdvanceEnded
  <2>5. P(Advance(y))
    BY <2>1, <2>3, <2>4
  <2> QED BY <2>2, <2>5
<1> HIDE DEF S
<1>3. \A n \in Nat : n \in S
  BY <1>1, <1>2, Induct
<1> QED BY <1>3 DEF S

\* What is decoded stays.
Prefix(a, b) == Len(a) <= Len(b) /\ \A i \in 1 .. Len(a) : b[i] = a[i]

\* Along a walk, what has been decoded is only added to.
LEMMA DecodePrefix ==
  ASSUME NEW x \in Handles, x.op = "DECODE", x.ok, NEW n \in Nat
  PROVE  \A m \in Nat : Prefix(Walk(x)[n].mem, Walk(x)[n + m].mem)
<1> DEFINE a == Walk(x)[n].mem
           S == {m \in Nat : Prefix(a, Walk(x)[n + m].mem)}
<1>0. a \in Seq(Nat)
  BY DecodeWalk DEF Handles
<1>1. 0 \in S
  <2>1. Prefix(a, a)
    BY <1>0 DEF Prefix
  <2> QED BY <2>1
<1>2. ASSUME NEW m \in Nat, m \in S PROVE m + 1 \in S
  <2> DEFINE y == Walk(x)[n + m]
  <2>1. Prefix(a, y.mem) /\ n + m \in Nat /\ (n + m) + 1 = n + (m + 1)
    BY <1>2
  <2>2. y \in Handles /\ y.op = "DECODE"
    BY <2>1, DecodeWalk
  <2>3. Walk(x)[n + (m + 1)] = Advance(y)
    BY <2>1, WalkStep
  <2> HIDE DEF y, a
  <2>4. Advance(y).mem = y.mem \/ \E v \in Nat : Advance(y).mem = Append(y.mem, v)
    BY <2>2, DecodeKeeps
  <2>5. y.mem \in Seq(Nat)
    BY <2>2 DEF Handles
  <2>6. Prefix(a, Advance(y).mem)
    <3>1. CASE Advance(y).mem = y.mem
      BY <2>1, <3>1
    <3>2. ASSUME NEW v \in Nat, Advance(y).mem = Append(y.mem, v) PROVE Prefix(a, Advance(y).mem)
      BY <1>0, <2>1, <2>5, <3>2 DEF Prefix
    <3> QED BY <2>4, <3>1, <3>2
  <2> QED BY <2>3, <2>6
<1> HIDE DEF S
<1>3. \A m \in Nat : m \in S
  BY <1>1, <1>2, Induct
<1> QED BY <1>3 DEF S

\* A walk that has decoded so far has not failed before.
LEMMA DecodeOk ==
  ASSUME NEW x \in Handles, x.op = "DECODE", x.ok, NEW n \in Nat, NEW m \in Nat,
         Walk(x)[n + m].ok
  PROVE  Walk(x)[n].ok
<1> SUFFICES ASSUME ~Walk(x)[n].ok PROVE FALSE
  OBVIOUS
<1>1. Ended(Walk(x)[n])
  BY DecodeWalk
<1>2. Walk(x)[n + m] = Walk(x)[n]
  BY <1>1, WalkEnded
<1> QED BY <1>2

\* Along a walk, what has been allocated stays.
LEMMA DecodeHeap ==
  ASSUME NEW x \in Handles, x.op = "DECODE", x.ok, NEW n \in Nat
  PROVE  \A m \in Nat : Walk(x)[n + m].ok => Walk(x)[n].heap \subseteq Walk(x)[n + m].heap
<1> DEFINE a == Walk(x)[n].heap
           S == {m \in Nat : Walk(x)[n + m].ok => a \subseteq Walk(x)[n + m].heap}
<1>1. 0 \in S
  OBVIOUS
<1>2. ASSUME NEW m \in Nat, m \in S PROVE m + 1 \in S
  <2> DEFINE y == Walk(x)[n + m]
  <2>1. (y.ok => a \subseteq y.heap) /\ n + m \in Nat /\ (n + m) + 1 = n + (m + 1)
    BY <1>2
  <2>2. y \in Handles /\ y.op = "DECODE"
    BY <2>1, DecodeWalk
  <2>3. Walk(x)[n + (m + 1)] = Advance(y)
    BY <2>1, WalkStep
  <2> HIDE DEF y, a
  <2>4. Advance(y).ok => y.ok /\ y.heap \subseteq Advance(y).heap
    BY <2>2, DecodeKeeps
  <2>5. Advance(y).ok => a \subseteq Advance(y).heap
    BY <2>1, <2>4
  <2> QED BY <2>3, <2>5
<1> HIDE DEF S
<1>3. \A m \in Nat : m \in S
  BY <1>1, <1>2, Induct
<1> QED BY <1>3 DEF S

\* What has been decoded is walked the way it was decoded.
LEMMA WalkTogether ==
  ASSUME NEW t \in Name, NEW w \in Seq(Nat), decode(t, w).ok, Ended(decode(t, w))
  PROVE  LET D == decode(t, w)
             d == Open("DECODE", t, <<>>, w, {})
             f == Open("FREE", t, D.mem, <<>>, D.heap)
         IN  /\ d \in Handles /\ d.op = "DECODE" /\ d.ok
             /\ D \in Handles /\ Steps \in Nat /\ D = Walk(d)[Steps]
             /\ \A n \in Nat : n <= Steps =>
                  Together(Walk(d)[n], Walk(f)[n], D.heap) /\ Walk(f)[n].mem = D.mem
<1> DEFINE D == decode(t, w)
           d == Open("DECODE", t, <<>>, w, {})
           f == Open("FREE", t, D.mem, <<>>, D.heap)
           A == D.heap
           N == Steps
           P(n) == Together(Walk(d)[n], Walk(f)[n], A) /\ Walk(f)[n].mem = D.mem
           S == {n \in Nat : n <= N => P(n)}
<1>0. <<>> \in Seq(Nat) /\ {} \in SUBSET Place
  OBVIOUS
<1>1. Is(d, "DECODE", << <<t, 0>> >>, <<>>, 1, w, 1, {}, TRUE)
  BY <1>0, OpenIs, Zenon
<1>2. d \in Handles /\ d.op = "DECODE" /\ d.ok
  BY <1>1 DEF Is
<1>3. N \in Nat /\ D = Walk(d)[N]
  BY RunIsWalk DEF decode
<1>5. D \in Handles
  BY <1>2, <1>3, DecodeWalk
<1>6. Is(f, "FREE", << <<t, 0>> >>, D.mem, 1, <<>>, 1, D.heap, TRUE)
  <2>1. D.mem \in Seq(Nat) /\ D.heap \in SUBSET Place
    BY <1>5 DEF Handles
  <2> QED BY <1>0, <2>1, OpenIs, Zenon
<1>7. D.ok /\ Ended(D)
  OBVIOUS
<1> HIDE DEF D, d, f, N, A
<1>8. 0 \in S
  <2>1. Together(d, f, A) /\ f.mem = D.mem
    BY <1>1, <1>6 DEF Together, Is, A
  <2> QED BY <2>1, WalkStep
<1>9. ASSUME NEW n \in Nat, n \in S PROVE n + 1 \in S
  <2> SUFFICES ASSUME n + 1 <= N PROVE P(n + 1)
    OBVIOUS
  <2> DEFINE y == Walk(d)[n]
             z == Walk(f)[n]
             k == N - (n + 1)
  <2>1. Together(y, z, A) /\ z.mem = D.mem
    BY <1>3, <1>9
  <2>2. Walk(d)[n + 1] = Advance(y) /\ Walk(f)[n + 1] = Advance(z)
    BY WalkStep
  <2>3. k \in Nat /\ n + 1 \in Nat /\ (n + 1) + k = N
    BY <1>3
  <2> HIDE DEF y, z, k
  <2>4. Advance(y).ok
    <3>1. Walk(d)[(n + 1) + k].ok
      BY <1>3, <1>7, <2>3
    <3> QED BY <1>2, <2>2, <2>3, <3>1, DecodeOk
  <2>5. Prefix(Advance(y).mem, D.mem)
    <3>1. Prefix(Walk(d)[n + 1].mem, Walk(d)[(n + 1) + k].mem)
      BY <1>2, <2>3, DecodePrefix
    <3> QED BY <1>3, <2>2, <2>3, <3>1
  <2>6. \A i \in 1 .. Len(Advance(y).mem) : i <= Len(z.mem) /\ z.mem[i] = Advance(y).mem[i]
    <3>1. Advance(y).mem \in Seq(Nat)
      <4>1. Advance(y) \in Handles
        BY <2>1, DecodeKeeps DEF Together
      <4> QED BY <4>1 DEF Handles
    <3>2. D.mem \in Seq(Nat)
      BY <1>5 DEF Handles
    <3> QED BY <2>1, <2>5, <3>1, <3>2 DEF Prefix
  <2>7. Together(Advance(y), Advance(z), A) /\ Advance(z).mem = z.mem
    BY <2>1, <2>4, <2>6, TogetherStep
  <2> QED BY <2>1, <2>2, <2>7
<1> HIDE DEF S
<1>10. \A n \in Nat : n \in S
  BY <1>8, <1>9, Induct
<1>11. \A n \in Nat : n <= N => Together(Walk(d)[n], Walk(f)[n], A) /\ Walk(f)[n].mem = D.mem
  BY <1>10 DEF S
<1> QED BY <1>2, <1>3, <1>5, <1>11 DEF D, d, f, A, N

\* What has been decoded can be freed, and nothing of it is left then.
LEMMA FreesDecoded ==
  ASSUME NEW t \in Name, NEW w \in Seq(Nat), decode(t, w).ok, Ended(decode(t, w))
  PROVE  LET x == free(t, decode(t, w).mem, decode(t, w).heap)
         IN  x.ok /\ Ended(x) /\ x.heap = {}
<1> DEFINE D == decode(t, w)
           d == Open("DECODE", t, <<>>, w, {})
           f == Open("FREE", t, D.mem, <<>>, D.heap)
<1>1. /\ Steps \in Nat /\ D = Walk(d)[Steps]
      /\ \A n \in Nat : n <= Steps => Together(Walk(d)[n], Walk(f)[n], D.heap)
  BY WalkTogether
<1>2. free(t, D.mem, D.heap) = Walk(f)[Steps]
  BY RunIsWalk DEF free
<1>3. D.ok /\ Ended(D)
  OBVIOUS
<1> HIDE DEF D, d, f
<1>4. Together(D, Walk(f)[Steps], D.heap)
  BY <1>1
<1>5. Pending(D.todo) = {}
  BY <1>3 DEF Pending, Ended
<1>6. Walk(f)[Steps].ok /\ Ended(Walk(f)[Steps]) /\ Walk(f)[Steps].heap = {}
  BY <1>3, <1>4, <1>5 DEF Together, Ended
<1> QED BY <1>2, <1>6 DEF D

-----------------------------------------------------------------------------
(* Decoding what was encoded goes the same way as encoding it.             *)

\* The handle d has decoded what e has encoded.
Alike(d, e) ==
  /\ d \in Handles /\ d.op = "DECODE" /\ d.ok
  /\ d.todo = e.todo /\ d.mem = e.mem /\ d.pos = Len(e.wire) + 1

\* Where a routine takes a Boolean no other part is encoded.
Sound(r, v) == v \in Nat /\ (IsBool(r) => v \in {0, 1} \/ Bad(r, v))

\* Sequences of words, put together.
LEMMA ConcatNat ==
  ASSUME NEW a \in Seq(Nat), NEW b \in Seq(Nat)
  PROVE  /\ a \o b \in Seq(Nat) /\ Len(a \o b) = Len(a) + Len(b)
         /\ \A i \in 1 .. Len(a) : (a \o b)[i] = a[i]
OBVIOUS

\* Going on without a choice keeps decoding and encoding alike, ...
LEMMA AlikeAdvance ==
  ASSUME NEW d, NEW e \in Handles, e.op = "ENCODE", Alike(d, e), ~Ended(e), ~Asks(e),
         Prefix(Advance(e).wire, d.wire)
  PROVE  Alike(Advance(d), Advance(e))
<1> DEFINE y == Advance(d)
           z == Advance(e)
<1>0. /\ d \in Handles /\ d.op = "DECODE" /\ d.ok /\ ~Ended(d)
      /\ d.todo = e.todo /\ d.mem = e.mem /\ d.pos = Len(e.wire) + 1
      /\ Len(e.wire) \in Nat /\ e.wire \in Seq(Nat) /\ Len(d.wire) \in Nat
  BY DEF Alike, Handles, Ended
<1>1. CASE Head(e.todo)[1] = "release"
  <2>1. Is(y, "DECODE", Tail(d.todo), d.mem, d.at, d.wire, d.pos, d.heap, d.ok)
    BY <1>0, <1>1, AdvanceRelease
  <2>2. Is(z, "ENCODE", Tail(e.todo), e.mem, e.at, e.wire, e.pos, e.heap, e.ok)
    BY <1>1, AdvanceRelease
  <2> HIDE DEF y, z
  <2>3. Alike(y, z)
    BY <1>0, <2>1, <2>2 DEF Is, Alike
  <2> QED BY <2>3 DEF y, z
<1>2. CASE Head(e.todo)[1] # "release"
  <2>1. Top(d) = Top(e) /\ Head(d.todo)[1] # "release" /\ ~Steers(Top(e))
    BY <1>0, <1>2 DEF Top, Asks
  <2>2. CASE Top(e).kind = "units"
    <3> DEFINE n == Top(e).n
    <3>1. y = xdr_units(d, n) /\ z = xdr_units(e, n) /\ n \in Nat /\ d.todo # <<>>
          /\ e.todo # <<>>
      BY <1>0, <1>2, <2>1, <2>2, AdvanceUnits
    <3>2. Is(z, "ENCODE", Tail(e.todo), e.mem, e.at, e.wire \o Data(n), e.pos, e.heap, e.ok)
      BY <3>1, UnitsIs
    <3>3. Len(z.wire) = Len(e.wire) + n
      <4>1. Data(n) \in Seq(Nat) /\ Len(Data(n)) = n
        BY <3>1, DataSeq
      <4>2. Len(e.wire \o Data(n)) = Len(e.wire) + n
        BY <1>0, <4>1, ConcatNat, ZenonT(30)
      <4> QED BY <3>2, <4>2 DEF Is
    <3>4. ~(d.pos + n - 1 > Len(d.wire))
      BY <1>0, <3>1, <3>3 DEF Prefix
    <3>5. Is(y, "DECODE", Tail(d.todo), d.mem, d.at, d.wire, d.pos + n, d.heap, d.ok)
      BY <1>0, <3>1, <3>4, UnitsIs
    <3> HIDE DEF y, z, n
    <3>6. Alike(y, z)
      BY <1>0, <3>1, <3>2, <3>3, <3>5 DEF Is, Alike
    <3> QED BY <3>6 DEF y, z
  <2>3. CASE Top(e).kind = "calls"
    <3> DEFINE ts == Turns(Top(e)) \o Tail(e.todo)
    <3>1. Is(y, "DECODE", ts, d.mem, d.at, d.wire, d.pos, d.heap, d.ok)
      BY <1>0, <2>1, <2>3, AdvanceCalls
    <3>2. Is(z, "ENCODE", ts, e.mem, e.at, e.wire, e.pos, e.heap, e.ok)
      BY <1>2, <2>3, AdvanceCalls
    <3> HIDE DEF y, z, ts
    <3>3. Alike(y, z)
      BY <1>0, <3>1, <3>2 DEF Is, Alike
    <3> QED BY <3>3 DEF y, z
  <2> QED BY <1>2, <2>1, <2>2, <2>3, Kinds
<1> QED BY <1>1, <1>2

\* ... and so does a part that is chosen.
LEMMA AlikeStep ==
  ASSUME NEW d, NEW e \in Handles, e.op = "ENCODE", Alike(d, e), Asks(e),
         NEW v, Sound(Top(e), v), Step(e, v).ok, Prefix(Step(e, v).wire, d.wire)
  PROVE  Alike(Advance(d), Step(e, v))
<1> DEFINE y == Advance(d)
           z == Step(e, v)
           r == Top(e)
           s == Len(e.mem) + 1
           ts == More(r, v, s) \o Tail(e.todo)
           ww == Append(e.wire, v)
           n == After(r, v)
<1>0. /\ d \in Handles /\ d.op = "DECODE" /\ d.ok /\ ~Ended(d) /\ ~Ended(e)
      /\ d.todo = e.todo /\ d.mem = e.mem /\ d.pos = Len(e.wire) + 1
      /\ Len(e.wire) \in Nat /\ e.wire \in Seq(Nat) /\ Len(d.wire) \in Nat
      /\ Head(e.todo)[1] # "release" /\ Steers(r) /\ v \in Nat
  BY DEF Alike, Handles, Ended, Asks, Sound
<1>1. Top(d) = r /\ Head(d.todo)[1] # "release" /\ Shape(r)
  BY <1>0, TopShape DEF Top
<1>2. ~Bad(r, v)
  BY <1>0, <1>1, StepEncode DEF Is
<1>3. Is(z, "ENCODE", ts, Append(e.mem, v), e.at, ww \o Data(n), e.pos, e.heap, e.ok)
  BY <1>0, <1>1, <1>2, StepEncode
<1>4. n \in Nat
  BY <1>0 DEF After
<1>5. Len(z.wire) = Len(e.wire) + 1 + n /\ z.wire[Len(e.wire) + 1] = v
  <2>1. Data(n) \in Seq(Nat) /\ Len(Data(n)) = n
    BY <1>4, DataSeq
  <2>2. ww \in Seq(Nat) /\ Len(ww) = Len(e.wire) + 1 /\ ww[Len(e.wire) + 1] = v
    BY <1>0
  <2> HIDE DEF ww, n
  <2>4. Len(ww) \in 1 .. Len(ww)
    BY <1>0, <2>2
  <2>3. Len(ww \o Data(n)) = Len(ww) + n /\ (ww \o Data(n))[Len(ww)] = ww[Len(ww)]
    BY <2>1, <2>2, <2>4, ConcatNat
  <2> QED BY <1>3, <2>2, <2>3 DEF Is
<1>6. d.pos + n <= Len(d.wire) /\ d.pos <= Len(d.wire) /\ d.wire[d.pos] = v
  <2>1. Prefix(z.wire, d.wire)
    OBVIOUS
  <2> HIDE DEF z, n
  <2>2. Len(z.wire) <= Len(d.wire) /\ \A i \in 1 .. Len(z.wire) : d.wire[i] = z.wire[i]
    BY <2>1 DEF Prefix
  <2>3. d.pos \in 1 .. Len(z.wire) /\ d.pos + n = Len(z.wire)
    <3>1. d.pos = Len(e.wire) + 1 /\ Len(e.wire) \in Nat /\ Len(z.wire) = Len(e.wire) + 1 + n
      BY <1>0, <1>5
    <3> QED BY <1>4, <3>1
  <2>4. d.wire[d.pos] = v
    <3>1. d.wire[d.pos] = z.wire[d.pos]
      BY <2>2, <2>3
    <3> QED BY <1>0, <1>5, <3>1
  <2> QED BY <1>0, <1>4, <1>5, <2>2, <2>3, <2>4
<1>7. Read(d) = v
  BY <1>0, <1>1, <1>2, <1>6 DEF Read, Sound
<1>8. y = Step(d, v)
  BY <1>0, <1>1, <1>6, <1>7, AdvanceSteers
<1>9. Is(y, "DECODE", ts, Append(d.mem, v), d.at, d.wire, d.pos + 1 + n, d.heap \cup New(r, v, s),
      d.ok)
  <2>1. ~(Bad(r, v) \/ d.pos + n > Len(d.wire))
    BY <1>0, <1>2, <1>4, <1>6
  <2> QED BY <1>0, <1>1, <1>6, <1>8, <2>1, StepDecode
<1> DEFINE mm == Append(e.mem, v)
<1>10. y.mem = mm /\ z.mem = mm /\ y \in Handles /\ y.op = "DECODE" /\ y.ok
       /\ y.pos = d.pos + 1 + n
       /\ y.todo = ts /\ z.todo = ts
  BY <1>0, <1>3, <1>9 DEF Is
<1> HIDE DEF y, z, n, ts, mm
<1>11. Alike(y, z)
  BY <1>0, <1>4, <1>5, <1>10 DEF Alike
<1> QED BY <1>11 DEF y, z

\* The handle e encodes a t so that decoding it goes the same way.
Follows(e, t) ==
  /\ e \in Handles /\ e.op = "ENCODE" /\ (~e.ok => Ended(e))
  /\ e.ok => \A w \in Seq(Nat) : Prefix(e.wire, w) =>
       \E k \in Nat : Alike(Walk(Open("DECODE", t, <<>>, w, {}))[k], e)

\* Nothing has been encoded yet.
LEMMA FollowsOpen ==
  ASSUME NEW t \in Name
  PROVE  Follows(Open("ENCODE", t, <<>>, <<>>, {}), t)
<1> DEFINE e == Open("ENCODE", t, <<>>, <<>>, {})
<1>0. <<>> \in Seq(Nat) /\ {} \in SUBSET Place
  OBVIOUS
<1>1. Is(e, "ENCODE", << <<t, 0>> >>, <<>>, 1, <<>>, 1, {}, TRUE)
  BY <1>0, OpenIs, Zenon
<1>2. ASSUME NEW w \in Seq(Nat)
      PROVE  \E k \in Nat : Alike(Walk(Open("DECODE", t, <<>>, w, {}))[k], e)
  <2> DEFINE d == Open("DECODE", t, <<>>, w, {})
  <2>1. Is(d, "DECODE", << <<t, 0>> >>, <<>>, 1, w, 1, {}, TRUE)
    BY <1>0, OpenIs, Zenon
  <2> HIDE DEF d, e
  <2>2. Alike(d, e)
    BY <1>1, <2>1 DEF Is, Alike
  <2>3. Walk(d)[0] = d
    BY WalkStep
  <2>4. Alike(Walk(d)[0], e)
    BY <2>2, <2>3
  <2> QED BY <2>4 DEF d
<1> HIDE DEF e
<1>3. Follows(e, t)
  BY <1>1, <1>2 DEF Is, Follows
<1> QED BY <1>3 DEF e

\* Encoding one more part, or going on to the next, keeps to that way.
LEMMA FollowsOn ==
  ASSUME NEW t \in Name, NEW e, Follows(e, t), NEW z \in Handles, z.op = "ENCODE",
         ~z.ok => Ended(z), z.ok => e.ok /\ Prefix(e.wire, z.wire),
         \A d : z.ok /\ Alike(d, e) /\ Prefix(z.wire, d.wire) => Alike(Advance(d), z)
  PROVE  Follows(z, t)
<1> SUFFICES ASSUME z.ok, NEW w \in Seq(Nat), Prefix(z.wire, w)
             PROVE  \E k \in Nat : Alike(Walk(Open("DECODE", t, <<>>, w, {}))[k], z)
  BY DEF Follows
<1> DEFINE x == Open("DECODE", t, <<>>, w, {})
<1>0. <<>> \in Seq(Nat) /\ {} \in SUBSET Place
  OBVIOUS
<1>1. Is(x, "DECODE", << <<t, 0>> >>, <<>>, 1, w, 1, {}, TRUE)
  BY <1>0, OpenIs, Zenon
<1>2. Prefix(e.wire, w)
  <2>1. e.wire \in Seq(Nat) /\ z.wire \in Seq(Nat)
    BY DEF Follows, Handles
  <2> QED BY <2>1 DEF Prefix
<1>3. PICK k \in Nat : Alike(Walk(x)[k], e)
  BY <1>2 DEF Follows
<1> HIDE DEF x
<1>4. Walk(x)[k].wire = w
  BY <1>1, DecodeWalk DEF Is
<1>5. Alike(Advance(Walk(x)[k]), z)
  BY <1>3, <1>4
<1>6. Walk(x)[k + 1] = Advance(Walk(x)[k]) /\ k + 1 \in Nat
  BY WalkStep
<1>7. Alike(Walk(x)[k + 1], z) /\ k + 1 \in Nat
  BY <1>5, <1>6
<1> QED BY <1>7 DEF x

LEMMA PrefixSame == ASSUME NEW a \in Seq(Nat) PROVE Prefix(a, a)
BY DEF Prefix

LEMMA PrefixConcat ==
  ASSUME NEW a \in Seq(Nat), NEW b \in Seq(Nat)
  PROVE  Prefix(a, a \o b)
BY ConcatNat DEF Prefix

\* Follows is kept by Advance, by Run, and by choosing a part.
LEMMA FollowsAdvance ==
  ASSUME NEW t \in Name, NEW e, Follows(e, t)
  PROVE  Follows(Advance(e), t)
<1> DEFINE z == Advance(e)
<1>0. /\ e \in Handles /\ e.op = "ENCODE" /\ (~e.ok => Ended(e))
      /\ e.wire \in Seq(Nat)
  BY DEF Follows, Handles
<1>1. CASE Ended(e)
  BY <1>1, AdvanceEnded
<1>2. CASE Asks(e)
  <2>1. ~Ended(e) /\ Head(e.todo)[1] # "release" /\ Steers(Top(e))
    BY <1>2 DEF Asks
  <2>2. z = e
    BY <1>0, <2>1, AdvanceSteers
  <2> QED BY <2>2
<1>3. CASE ~Ended(e) /\ ~Asks(e)
  <2>0. e.ok
    BY <1>0, <1>3
  <2>1. \A d : Alike(d, e) /\ Prefix(z.wire, d.wire) => Alike(Advance(d), z)
    BY <1>0, <1>3, AlikeAdvance
  <2>2. z \in Handles /\ z.op = "ENCODE" /\ z.ok = e.ok /\ Prefix(e.wire, z.wire)
    <3>1. CASE Head(e.todo)[1] = "release"
      <4>1. Is(z, "ENCODE", Tail(e.todo), e.mem, e.at, e.wire, e.pos, e.heap, e.ok)
        BY <1>0, <1>3, <3>1, AdvanceRelease
      <4> QED BY <1>0, <4>1, PrefixSame DEF Is
    <3>2. CASE Head(e.todo)[1] # "release" /\ Top(e).kind = "units"
      <4> DEFINE n == Top(e).n
      <4>1. z = xdr_units(e, n) /\ n \in Nat /\ e.todo # <<>>
        BY <1>0, <1>3, <3>2, AdvanceUnits
      <4>2. Is(z, "ENCODE", Tail(e.todo), e.mem, e.at, e.wire \o Data(n), e.pos, e.heap, e.ok)
        BY <1>0, <4>1, UnitsIs
      <4>3. Prefix(e.wire, e.wire \o Data(n))
        BY <1>0, <4>1, DataSeq, PrefixConcat
      <4> QED BY <4>2, <4>3 DEF Is
    <3>3. CASE Head(e.todo)[1] # "release" /\ Top(e).kind = "calls"
      <4>1. Is(z, "ENCODE", Turns(Top(e)) \o Tail(e.todo), e.mem, e.at, e.wire, e.pos, e.heap,
            e.ok)
        BY <1>0, <1>3, <3>3, AdvanceCalls
      <4> QED BY <1>0, <4>1, PrefixSame DEF Is
    <3> QED BY <1>0, <1>3, <3>1, <3>2, <3>3, Kinds DEF Asks
  <2> HIDE DEF z
  <2>3. Follows(z, t)
    BY <2>0, <2>1, <2>2, FollowsOn
  <2> QED BY <2>3 DEF z
<1> QED BY <1>1, <1>2, <1>3

LEMMA FollowsRun ==
  ASSUME NEW t \in Name, NEW e, Follows(e, t)
  PROVE  Follows(Run(e), t)
<1> DEFINE S == {n \in Nat : Follows(Walk(e)[n], t)}
<1>1. 0 \in S
  BY WalkStep
<1>2. ASSUME NEW n \in Nat, n \in S PROVE n + 1 \in S
  <2>1. Follows(Advance(Walk(e)[n]), t)
    BY <1>2, FollowsAdvance
  <2> QED BY <2>1, WalkStep
<1> HIDE DEF S
<1>3. \A n \in Nat : n \in S
  BY <1>1, <1>2, Induct
<1> QED BY <1>3, RunIsWalk DEF S

LEMMA FollowsEncode == ASSUME NEW t \in Name PROVE Follows(encode(t), t)
BY FollowsOpen, FollowsRun DEF encode

LEMMA FollowsStep ==
  ASSUME NEW t \in Name, NEW e, Follows(e, t), Asks(e), NEW v, Sound(Top(e), v)
  PROVE  Follows(Step(e, v), t)
<1> DEFINE z == Step(e, v)
           r == Top(e)
<1>0. /\ e \in Handles /\ e.op = "ENCODE" /\ e.ok /\ ~Ended(e) /\ v \in Nat
      /\ e.wire \in Seq(Nat) /\ Steers(r) /\ Shape(r)
  BY TopShape DEF Follows, Handles, Asks, Sound
<1>1. CASE Bad(r, v)
  <2>1. Is(z, "ENCODE", <<>>, Append(e.mem, v), e.at, Append(e.wire, v), e.pos, e.heap, FALSE)
    BY <1>0, <1>1, StepEncode
  <2>2. z \in Handles /\ z.op = "ENCODE" /\ ~z.ok /\ Ended(z)
    BY <2>1 DEF Is, Ended
  <2> HIDE DEF z
  <2>3. Follows(z, t)
    BY <2>2 DEF Follows
  <2> QED BY <2>3 DEF z
<1>2. CASE ~Bad(r, v)
  <2> DEFINE n == After(r, v)
             ww == Append(e.wire, v)
  <2>1. Is(z, "ENCODE", More(r, v, Len(e.mem) + 1) \o Tail(e.todo), Append(e.mem, v), e.at,
           ww \o Data(n), e.pos, e.heap, e.ok)
    BY <1>0, <1>2, StepEncode
  <2>2. Prefix(e.wire, z.wire)
    <3>1. n \in Nat
      BY <1>0 DEF After
    <3>2. Data(n) \in Seq(Nat)
      BY <3>1, DataSeq
    <3>3. ww \in Seq(Nat) /\ Prefix(e.wire, ww)
      BY <1>0 DEF Prefix
    <3> HIDE DEF ww, n
    <3>4. Prefix(ww, ww \o Data(n)) /\ ww \o Data(n) \in Seq(Nat)
      BY <3>2, <3>3, PrefixConcat, ConcatNat
    <3>5. z.wire = ww \o Data(n)
      BY <2>1 DEF Is
    <3> DEFINE u == ww \o Data(n)
    <3> HIDE DEF u
    <3>6. Prefix(e.wire, u)
      BY <1>0, <3>3, <3>4 DEF Prefix, u
    <3> QED BY <3>5, <3>6 DEF u
  <2>3. z \in Handles /\ z.op = "ENCODE" /\ z.ok = e.ok
    BY <2>1 DEF Is
  <2>4. \A d : Alike(d, e) /\ Prefix(z.wire, d.wire) => Alike(Advance(d), z)
    BY <1>0, <2>3, AlikeStep
  <2> HIDE DEF z
  <2>5. Follows(z, t)
    BY <1>0, <2>2, <2>3, <2>4, FollowsOn
  <2> QED BY <2>5 DEF z
<1> QED BY <1>1, <1>2

\* The least number that is none of the arms.
LEMMA SmallestIs ==
  ASSUME NEW S, S \subseteq 0 .. 4, S # {}
  PROVE  SmallestOf(S) \in S
<1>1. \E v \in S : \A w \in S : v <= w
  <2>1. S \subseteq {0, 1, 2, 3, 4}
    OBVIOUS
  <2>2. CASE 0 \in S
    BY <2>1, <2>2
  <2>3. CASE 0 \notin S /\ 1 \in S
    BY <2>1, <2>3
  <2>4. CASE 0 \notin S /\ 1 \notin S /\ 2 \in S
    BY <2>1, <2>4
  <2>5. CASE 0 \notin S /\ 1 \notin S /\ 2 \notin S /\ 3 \in S
    BY <2>1, <2>5
  <2>6. CASE 0 \notin S /\ 1 \notin S /\ 2 \notin S /\ 3 \notin S
    <3>1. \A v \in S : v = 4
      BY <2>1, <2>6
    <3>2. PICK v \in S : TRUE
      OBVIOUS
    <3>3. \A w \in S : v <= w
      BY <3>1
    <3> QED BY <3>3
  <2> QED BY <2>1, <2>2, <2>3, <2>4, <2>5, <2>6
<1> QED BY <1>1 DEF SmallestOf

\* The parts that are chosen while encoding.
LEMMA ValuesSound ==
  ASSUME NEW r, Shape(r), Steers(r), NEW focus \in Nat, NEW v \in Values(r, focus)
  PROVE  Sound(r, v)
<1>1. CASE r.kind = "switch"
  <2>0. /\ DOMAIN r.arms \subseteq Nat /\ (\E u \in 0 .. 4 : u \notin DOMAIN r.arms)
        /\ (r.disc = "bool" => ~r.dflt /\ DOMAIN r.arms = {0, 1})
    BY <1>1 DEF Shape
  <2>1. SmallestOf((0 .. 4) \ DOMAIN r.arms) \in Nat
    <3> DEFINE S == (0 .. 4) \ DOMAIN r.arms
    <3>1. S \subseteq 0 .. 4 /\ S # {}
      BY <2>0
    <3> HIDE DEF S
    <3>2. SmallestOf(S) \in 0 .. 4
      BY <3>1, SmallestIs
    <3> QED BY <3>2 DEF S
  <2>2. v \in {focus} \cup DOMAIN r.arms \cup {SmallestOf((0 .. 4) \ DOMAIN r.arms)}
    BY <1>1 DEF Values
  <2>3. v \in Nat
    BY <2>0, <2>1, <2>2
  <2>4. IsBool(r) => v \in {0, 1} \/ Bad(r, v)
    BY <1>1, <2>0 DEF IsBool, Bad
  <2> QED BY <2>3, <2>4 DEF Sound
<1>2. CASE r.kind \in {"bytes", "string"}
  BY <1>2 DEF Sound, Values, IsBool, Shape
<1>3. CASE r.kind = "array"
  BY <1>3 DEF Sound, Values, IsBool
<1>4. CASE r.kind = "pointer"
  BY <1>4 DEF Sound, Values
<1> QED BY <1>1, <1>2, <1>3, <1>4 DEF Steers

\* Every encoding that the model chooses is one that decoding follows.
LEMMA FollowsEncodings ==
  ASSUME NEW t \in Name, NEW x, Follows(x, t), Asks(x), NEW focus \in Nat, NEW odd,
         NEW e \in Encodings(x, odd, focus)
  PROVE  Follows(e[1], t)
<1>1. PICK v \in Values(Top(x), focus) : e = <<Run(Step(x, v)),
           odd - Cost(v, Plain(Top(x), focus))>>
  BY DEF Encodings
<1>2. Shape(Top(x)) /\ Steers(Top(x))
  BY TopShape DEF Follows, Asks
<1>3. Follows(Step(x, v), t)
  BY <1>2, ValuesSound, FollowsStep
<1>4. Follows(Run(Step(x, v)), t)
  BY <1>3, FollowsRun
<1> QED BY <1>1, <1>4

\* What has been encoded is decoded as it was.
LEMMA DecodesEncoded ==
  ASSUME NEW t \in Name, NEW e, Follows(e, t), Ended(e), e.ok, Ended(decode(t, e.wire))
  PROVE  decode(t, e.wire).ok /\ decode(t, e.wire).mem = e.mem
<1> DEFINE d == Open("DECODE", t, <<>>, e.wire, {})
           N == Steps
<1>0. e.wire \in Seq(Nat)
  BY DEF Follows, Handles
<1>1. PICK k \in Nat : Alike(Walk(d)[k], e)
  BY <1>0, PrefixSame DEF Follows
<1>2. N \in Nat /\ decode(t, e.wire) = Walk(d)[N]
  BY RunIsWalk DEF decode
<1>3. Ended(Walk(d)[N])
  BY <1>2
<1>4. Ended(Walk(d)[k])
  BY <1>1 DEF Alike, Ended
<1> HIDE DEF d, N
<1>5. Walk(d)[N] = Walk(d)[k]
  <2>1. CASE k <= N
    <3>1. N - k \in Nat /\ k + (N - k) = N
      BY <1>2, <2>1
    <3>2. Walk(d)[k + (N - k)] = Walk(d)[k]
      BY <1>4, <3>1, WalkEnded
    <3> QED BY <3>1, <3>2
  <2>2. CASE N <= k
    <3>1. k - N \in Nat /\ N + (k - N) = k
      BY <1>2, <2>2
    <3>2. Walk(d)[N + (k - N)] = Walk(d)[N]
      BY <1>2, <1>3, <3>1, WalkEnded
    <3> QED BY <3>1, <3>2
  <2> QED BY <1>2, <2>1, <2>2
<1> QED BY <1>1, <1>2, <1>5 DEF Alike

-----------------------------------------------------------------------------
(* Calls and answers.                                                      *)

\* The tables of the stubs and of the server agree.
LEMMA TableIs ==
  /\ DOMAIN Dispatch = Programs
  /\ DOMAIN Dispatch["NFS4_PROGRAM"] = {0, 1} /\ DOMAIN Dispatch["NFS4_CALLBACK"] = {0, 1}
  /\ Dispatch["NFS4_PROGRAM"][0] = Proc("NFS4_PROGRAM", 0, "void", "void")
  /\ Dispatch["NFS4_PROGRAM"][1] = Proc("NFS4_PROGRAM", 1, "COMPOUND4args", "COMPOUND4res")
  /\ Dispatch["NFS4_CALLBACK"][0] = Proc("NFS4_CALLBACK", 0, "void", "void")
  /\ Dispatch["NFS4_CALLBACK"][1] = Proc("NFS4_CALLBACK", 1, "CB_COMPOUND4args",
     "CB_COMPOUND4res")
<1>1. ASSUME NEW a, NEW b
      PROVE  LET t == Join(<<Entry(0, a), Entry(1, b)>>)
             IN  DOMAIN t = {0, 1} /\ t[0] = a /\ t[1] = b
  <2> DEFINE ts == <<Entry(0, a), Entry(1, b)>>
             t  == Join(ts)
  <2>1. DOMAIN ts = {1, 2} /\ ts[1] = Entry(0, a) /\ ts[2] = Entry(1, b)
    OBVIOUS
  <2>2. DOMAIN ts[1] = {0} /\ DOMAIN ts[2] = {1} /\ ts[1][0] = a /\ ts[2][1] = b
    BY <2>1 DEF Entry
  <2> HIDE DEF ts
  <2>3. DOMAIN t = UNION {DOMAIN ts[i] : i \in DOMAIN ts}
    BY DEF Join
  <2>4. DOMAIN t = {0, 1}
    BY <2>1, <2>2, <2>3
  <2>5. t[0] = a
    <3>1. PICK i \in DOMAIN ts : 0 \in DOMAIN ts[i] /\ t[0] = ts[i][0]
      BY <2>4, JoinOf
    <3> QED BY <2>1, <2>2, <3>1
  <2>6. t[1] = b
    <3>1. PICK i \in DOMAIN ts : 1 \in DOMAIN ts[i] /\ t[1] = ts[i][1]
      BY <2>4, JoinOf
    <3> QED BY <2>1, <2>2, <3>1
  <2> QED BY <2>4, <2>5, <2>6 DEF ts
<1>2. /\ DOMAIN nfs4_program_4 = {0, 1}
      /\ nfs4_program_4[0] = Proc("NFS4_PROGRAM", 0, "void", "void")
      /\ nfs4_program_4[1] = Proc("NFS4_PROGRAM", 1, "COMPOUND4args", "COMPOUND4res")
  BY <1>1, Zenon DEF nfs4_program_4
<1>3. /\ DOMAIN nfs4_callback_1 = {0, 1}
      /\ nfs4_callback_1[0] = Proc("NFS4_CALLBACK", 0, "void", "void")
      /\ nfs4_callback_1[1] = Proc("NFS4_CALLBACK", 1, "CB_COMPOUND4args", "CB_COMPOUND4res")
  BY <1>1, Zenon DEF nfs4_callback_1
<1>4. /\ DOMAIN Dispatch = Programs /\ Dispatch["NFS4_PROGRAM"] = nfs4_program_4
      /\ Dispatch["NFS4_CALLBACK"] = nfs4_callback_1
  BY DEF Dispatch, Programs
<1> QED BY <1>2, <1>3, <1>4

\* The stubs call procedures of the dispatch tables, with their types.
LEMMA Tables ==
  /\ DOMAIN Dispatch = Programs
  /\ \A p \in Programs : /\ DOMAIN Dispatch[p] = {0, 1}
                         /\ \A q \in {0, 1} : /\ Dispatch[p][q].prog = p
                                              /\ Dispatch[p][q].proc = q
                                              /\ Dispatch[p][q].arg \in Name
                                              /\ Dispatch[p][q].res \in Name
  /\ \A s \in DOMAIN Stub : /\ Stub[s].prog \in Programs /\ Stub[s].proc \in {0, 1}
                            /\ Dispatch[Stub[s].prog][Stub[s].proc] = Stub[s]
                            /\ Stub[s].arg \in Name
<1>0. {"void", "COMPOUND4args", "COMPOUND4res", "CB_COMPOUND4args", "CB_COMPOUND4res"}
      \subseteq Name
  BY LibraryNames, CompoundNames, CallbackNames
<1>5. ASSUME NEW p \in Programs
      PROVE  /\ DOMAIN Dispatch[p] = {0, 1}
             /\ \A q \in {0, 1} : /\ Dispatch[p][q].prog = p /\ Dispatch[p][q].proc = q
                                  /\ Dispatch[p][q].arg \in Name /\ Dispatch[p][q].res \in Name
  <2>1. CASE p = "NFS4_PROGRAM"
    BY <1>0, <2>1, TableIs DEF Proc
  <2>2. CASE p = "NFS4_CALLBACK"
    BY <1>0, <2>2, TableIs DEF Proc
  <2> QED BY <2>1, <2>2 DEF Programs
<1>6. ASSUME NEW s \in DOMAIN Stub
      PROVE  /\ Stub[s].prog \in Programs /\ Stub[s].proc \in {0, 1}
             /\ Dispatch[Stub[s].prog][Stub[s].proc] = Stub[s] /\ Stub[s].arg \in Name
  <2>1. /\ DOMAIN Stub = {"nfsproc4_null_4", "nfsproc4_compound_4", "cb_null_1", "cb_compound_1"}
        /\ Stub["nfsproc4_null_4"] = Dispatch["NFS4_PROGRAM"][0]
        /\ Stub["nfsproc4_compound_4"] = Dispatch["NFS4_PROGRAM"][1]
        /\ Stub["cb_null_1"] = Dispatch["NFS4_CALLBACK"][0]
        /\ Stub["cb_compound_1"] = Dispatch["NFS4_CALLBACK"][1]
    BY TableIs DEF Stub
  <2>2. \E p \in Programs, q \in {0, 1} : Stub[s] = Dispatch[p][q]
    BY <2>1 DEF Programs
  <2> QED BY <1>5, <2>2
<1> QED BY <1>5, <1>6, TableIs

Fields        == {"pc", "run", "why", "stale", "req", "args", "heap", "x", "lost"}
ClientFields  == {"pc", "stub", "id", "prot", "to", "x", "ret", "sound", "res", "attr",
                  "intact", "freed"}
ScopeFields   == {"focus", "stubs", "attrs", "odd", "faults", "calls", "tampered"}
MessageFields == {"stat", "id", "prot", "to", "prog", "proc", "wire", "garbled"}

Letter(m) ==
  /\ DOMAIN m = MessageFields
  /\ m.id \in Nat /\ m.prog \in Programs /\ m.wire \in Seq(Nat)

\* Decoding what m carries, if it comes to an end, gives something that is in S
\* for the same call of the same procedure.
Carries(m, t, S) ==
  LET x == decode(t, m.wire)
  IN  Ended(x) => x.ok /\ <<m.id, m.prog, m.proc, x.mem>> \in S

Known(m) == m.proc \in {0, 1}

\* A message that the client c, which waits for the answer to its last call,
\* does not take for another.
Timely(m, c) ==
  /\ m.id <= c.id
  /\ c.pc = "encode" => m.id < c.id
  /\ c.pc = "wait" /\ m.id = c.id =>
       m.prog = Stub[c.stub].prog /\ m.proc = Stub[c.stub].proc

Post(m, tampered, P, A, c) ==
  /\ Letter(m) /\ Timely(m, c)
  /\ m.garbled => tampered
  /\ m.stat = "call" /\ ~m.garbled =>
       Known(m) /\ Carries(m, Dispatch[m.prog][m.proc].arg, P)
  /\ m.stat = "success" /\ ~m.garbled =>
       Known(m) /\ Carries(m, Dispatch[m.prog][m.proc].res, A)

Serving(s) == s.pc \in {"local", "reply", "free"}

\* The request that is served, its arguments and what they have allocated.
RequestOk(s, P, c) ==
  /\ Letter(s.req) /\ Known(s.req) /\ Timely(s.req, c)
  /\ LET p == Dispatch[s.req.prog][s.req.proc]
         x == decode(p.arg, s.req.wire)
     IN  /\ Ended(x) /\ x.ok /\ s.args = x.mem /\ s.heap = x.heap
         /\ ~s.req.garbled => <<s.req.id, s.req.prog, s.req.proc, s.args>> \in P
         /\ s.pc = "reply" => Follows(s.x, p.res)

ServerOk(s, tampered, P, c) ==
  /\ DOMAIN s = Fields
  /\ s.lost => tampered
  /\ s.why # "freeargs"
  /\ IF Serving(s) THEN RequestOk(s, P, c) ELSE s.heap = {}

ClientOk(c, P, A) ==
  /\ DOMAIN c = ClientFields /\ DOMAIN c.res = DOMAIN Stub /\ c.id \in Nat
  /\ c.pc \in {"encode", "wait"} =>
       c.stub \in DOMAIN Stub /\ c.id > 0 /\ Follows(c.x, Stub[c.stub].arg)
  /\ c.pc = "wait" =>
       /\ Ended(c.x) /\ c.x.ok
       /\ <<c.id, Stub[c.stub].prog, Stub[c.stub].proc, c.x.mem>> \in P
  /\ c.pc = "pack" => c.attr \in Name /\ Follows(c.x, c.attr)
  /\ c.intact /\ c.freed
  /\ c.ret /\ c.sound =>
       <<c.id, Stub[c.stub].prog, Stub[c.stub].proc, c.res[c.stub]>> \in A

ScopeOk(s) ==
  /\ DOMAIN s = ScopeFields
  /\ s.focus \in Nat /\ s.stubs \subseteq DOMAIN Stub /\ s.attrs \subseteq Name

Delivers ==
  /\ ScopeOk(scope)
  /\ \A m \in net : Post(m, scope.tampered, passed, answered, client)
  /\ ServerOk(server, scope.tampered, passed, client)
  /\ ClientOk(client, passed, answered)

-----------------------------------------------------------------------------
(* What the steps of the server do to the invariant.                       *)

\* What becomes of the parts of the invariant when more is known.
LEMMA PostKept ==
  ASSUME NEW m, NEW t, NEW t2, NEW P, NEW P2, NEW A, NEW A2, NEW c, NEW c2,
         Post(m, t, P, A, c), t => t2, P \subseteq P2, A \subseteq A2, Timely(m, c2)
  PROVE  Post(m, t2, P2, A2, c2)
<1>1. \A u : /\ Carries(m, u, P) => Carries(m, u, P2)
             /\ Carries(m, u, A) => Carries(m, u, A2)
  BY DEF Carries
<1> QED BY <1>1 DEF Post

LEMMA ServerKept ==
  ASSUME NEW s, NEW t, NEW t2, NEW P, NEW P2, NEW c, NEW c2,
         ServerOk(s, t, P, c), t => t2, P \subseteq P2, Timely(s.req, c) => Timely(s.req, c2)
  PROVE  ServerOk(s, t2, P2, c2)
BY DEF ServerOk, RequestOk

\* As much of a step as the invariant sees.
LEMMA Assemble ==
  ASSUME Delivers,
         ScopeOk(scope'), scope.tampered => scope'.tampered,
         passed \subseteq passed', answered \subseteq answered',
         \A m \in net' : \/ m \in net /\ (client' = client \/ Timely(m, client'))
                         \/ Post(m, scope'.tampered, passed', answered', client'),
         ServerOk(server', scope'.tampered, passed', client'),
         ClientOk(client', passed', answered')
  PROVE  Delivers'
<1>1. ASSUME NEW m \in net' PROVE Post(m, scope'.tampered, passed', answered', client')
  <2>1. CASE m \in net /\ (client' = client \/ Timely(m, client'))
    <3>1. Post(m, scope.tampered, passed, answered, client)
      BY <2>1 DEF Delivers
    <3>2. Timely(m, client')
      BY <2>1, <3>1 DEF Post
    <3> HIDE DEF Delivers
    <3> QED BY <3>1, <3>2, PostKept
  <2> QED BY <1>1, <2>1
<1> QED BY <1>1 DEF Delivers

LEMMA ClientKept ==
  ASSUME NEW c, NEW P, NEW P2, NEW A, NEW A2, ClientOk(c, P, A), P \subseteq P2, A \subseteq A2
  PROVE  ClientOk(c, P2, A2)
BY DEF ClientOk

\* A step of the server: the client does not change.
LEMMA ServerStep ==
  ASSUME Delivers, client' = client, passed' = passed, answered \subseteq answered',
         ScopeOk(scope'), scope.tampered => scope'.tampered,
         \A m \in net' : m \in net \/ Post(m, scope'.tampered, passed', answered', client'),
         ServerOk(server', scope'.tampered, passed', client')
  PROVE  Delivers'
<1>1. ClientOk(client', passed', answered')
  BY ClientKept DEF Delivers
<1> QED BY <1>1, Assemble

\* The scope, when something goes wrong or is tampered with.
LEMMA FaultScope ==
  ASSUME ScopeOk(scope), Fault
  PROVE  ScopeOk(scope') /\ scope'.tampered = scope.tampered
BY DEF ScopeOk, Fault, ScopeFields

LEMMA TamperedScope == ASSUME ScopeOk(scope), Tampered PROVE ScopeOk(scope') /\ scope'.tampered
BY DEF ScopeOk, Tampered, ScopeFields

LEMMA SameScope ==
  ASSUME ScopeOk(scope), UNCHANGED scope \/ Fault
  PROVE  ScopeOk(scope') /\ scope'.tampered = scope.tampered
BY FaultScope

\* Outside a request.
LEMMA Exited ==
  ASSUME Delivers, NEW why, why # "freeargs", Exit(why)
  PROVE  ServerOk(server', scope.tampered, passed, client)
BY DEF Delivers, ServerOk, Exit, Fields, Serving

\* main goes on, or registers.
LEMMA GoesTo ==
  ASSUME Delivers, NEW l, Goto(l), ~Serving(server), l \notin {"local", "reply", "free"}
  PROVE  ServerOk(server', scope.tampered, passed, client)
BY DEF Delivers, ServerOk, Goto, Fields, Serving

LEMMA RegistersOk ==
  ASSUME Delivers, NEW at, NEW prog, NEW prot, NEW next, svc_register(at, prog, prot, next),
         at \notin {"local", "reply", "free"}, next \notin {"local", "reply", "free"}
  PROVE  ServerOk(server', scope.tampered, passed, client)
<1>1. ~Serving(server)
  BY DEF svc_register, Serving
<1> QED BY <1>1, GoesTo, Exited DEF svc_register

\* main only registers; it has no request.
LEMMA MainStep == ASSUME Delivers, main PROVE Delivers'
<1>0. ScopeOk(scope)
  BY DEF Delivers
<1>1. UNCHANGED <<client, net, passed, answered>>
  BY DEF main, pmap_unset, Create, svc_register
<1>2. ScopeOk(scope') /\ scope'.tampered = scope.tampered
  <2>1. UNCHANGED scope \/ Fault
    BY DEF main, pmap_unset, Create, svc_register
  <2> QED BY <1>0, <2>1, SameScope
<1>3. ServerOk(server', scope.tampered, passed, client)
  <2>1. CASE pmap_unset
    <3>1. ~Serving(server) /\ server.pc = "unset"
      BY <2>1 DEF pmap_unset, Serving
    <3>2. CASE server' = [server EXCEPT !.pc = "udp", !.stale = TRUE]
      BY <3>1, <3>2 DEF Delivers, ServerOk, Fields, Serving
    <3> QED BY <2>1, <3>1, <3>2, GoesTo DEF pmap_unset
  <2>2. ASSUME NEW prot, NEW next, Create(prot, next), prot \notin {"local", "reply", "free"},
               next \notin {"local", "reply", "free"}
        PROVE  ServerOk(server', scope.tampered, passed, client)
    <3>1. ~Serving(server)
      BY <2>2 DEF Create, Serving
    <3> QED BY <2>2, <3>1, GoesTo, Exited DEF Create
  <2>3. /\ "program udp" \notin {"local", "reply", "free"}
        /\ "callback udp" \notin {"local", "reply", "free"}
        /\ "tcp" \notin {"local", "reply", "free"}
        /\ "program tcp" \notin {"local", "reply", "free"}
        /\ "callback tcp" \notin {"local", "reply", "free"}
        /\ "svc_run" \notin {"local", "reply", "free"}
    OBVIOUS
  <2>4. CASE Create("udp", "program udp")
    BY <2>2, <2>4
  <2>5. CASE svc_register("program udp", "NFS4_PROGRAM", "udp", "callback udp")
    BY <2>3, <2>5, RegistersOk
  <2>6. CASE svc_register("callback udp", "NFS4_CALLBACK", "udp", "tcp")
    BY <2>3, <2>6, RegistersOk
  <2>7. CASE Create("tcp", "program tcp")
    BY <2>2, <2>7
  <2>8. CASE svc_register("program tcp", "NFS4_PROGRAM", "tcp", "callback tcp")
    BY <2>3, <2>8, RegistersOk
  <2>9. CASE svc_register("callback tcp", "NFS4_CALLBACK", "tcp", "svc_run")
    BY <2>3, <2>9, RegistersOk
  <2> QED BY <2>1, <2>4, <2>5, <2>6, <2>7, <2>8, <2>9 DEF main
<1> QED BY <1>1, <1>2, <1>3, ServerStep

\* A server that starts or is killed has no request.
LEMMA StartStep == ASSUME Delivers, Start PROVE Delivers'
<1>1. UNCHANGED <<scope, client, net, passed, answered>> /\ ScopeOk(scope)
  BY DEF Start, Delivers
<1>2. ServerOk(server', scope.tampered, passed, client)
  BY DEF Start, Delivers, ServerOk, Fields, Serving
<1> QED BY <1>1, <1>2, ServerStep

LEMMA DieStep == ASSUME Delivers, Die PROVE Delivers'
<1>1. UNCHANGED <<client, net, passed, answered>> /\ ScopeOk(scope) /\ Fault /\ Exit("died")
  BY DEF Die, Delivers
<1>2. ServerOk(server', scope.tampered, passed, client)
  BY <1>1, Exited
<1> QED BY <1>1, <1>2, FaultScope, ServerStep

-----------------------------------------------------------------------------

\* An answer that carries nothing of a procedure's.
LEMMA Refusal ==
  ASSUME NEW m, NEW t, NEW P, NEW A, NEW c, Letter(m), Timely(m, c),
         NEW stat, stat \notin {"call", "success"}
  PROVE  Post(Reply(m, stat, <<>>), t, P, A, c)
<1> DEFINE r == Reply(m, stat, <<>>)
<1>1. /\ DOMAIN r = MessageFields /\ r.id = m.id /\ r.prog = m.prog /\ r.proc = m.proc
      /\ r.stat = stat /\ r.garbled = FALSE /\ r.wire = <<>>
  BY DEF Letter, Reply, MessageFields
<1> HIDE DEF r
<1>2. Post(r, t, P, A, c)
  BY <1>1 DEF Post, Letter, Timely
<1> QED BY <1>2 DEF r

\* svcerr_noproc: no procedure is called.
LEMMA NoprocStep == ASSUME Delivers, NEW m \in net, svcerr_noproc(m) PROVE Delivers'
<1>1. /\ UNCHANGED <<scope, client, server, passed, answered>>
      /\ net' = (net \ {m}) \cup {Reply(m, "noproc", <<>>)}
  BY DEF svcerr_noproc
<1>2. ScopeOk(scope) /\ ServerOk(server, scope.tampered, passed, client) /\ Letter(m)
      /\ Timely(m, client)
  BY DEF Delivers, Post
<1>3. Post(Reply(m, "noproc", <<>>), scope.tampered, passed, answered, client)
  BY <1>2, Refusal
<1> QED BY <1>1, <1>2, <1>3, ServerStep

\* svc_getargs gives the procedure what the message carries.
LEMMA GetargsStep == ASSUME Delivers, NEW m \in net, svc_getargs(m) PROVE Delivers'
<1> DEFINE x == decode(Dispatch[m.prog][m.proc].arg, m.wire)
<1>0. /\ UNCHANGED <<scope, client, passed, answered>> /\ ScopeOk(scope)
      /\ Post(m, scope.tampered, passed, answered, client)
      /\ ServerOk(server, scope.tampered, passed, client)
      /\ server.pc = "svc_run" /\ m.stat = "call"
  BY DEF svc_getargs, Delivers, Arrived
<1>1. Letter(m) /\ Known(m) /\ Timely(m, client) /\ m.prog \in Programs
  <2>1. Letter(m) /\ Timely(m, client)
    BY <1>0 DEF Post
  <2>2. m.proc \in DOMAIN Dispatch[m.prog]
    BY DEF svc_getargs
  <2> QED BY <2>1, <2>2, Tables DEF Letter, Known
<1>2. /\ Ended(x)
      /\ \/ /\ x.ok /\ net' = net \ {m}
            /\ server' = [server EXCEPT !.pc = "local", !.req = m, !.args = x.mem,
               !.heap = x.heap]
         \/ /\ ~x.ok /\ net' = (net \ {m}) \cup {Reply(m, "decode", <<>>)}
            /\ \E freed \in BOOLEAN :
                 server' = [server EXCEPT !.lost = @ \/ (~freed /\ x.heap # {})]
  BY DEF svc_getargs
<1>3. ~m.garbled => x.ok /\ <<m.id, m.prog, m.proc, x.mem>> \in passed
  BY <1>0, <1>2 DEF Post, Carries
<1>4. CASE x.ok
  <2>1. net' = net \ {m}
        /\ server' = [server EXCEPT !.pc = "local", !.req = m, !.args = x.mem, !.heap = x.heap]
    BY <1>2, <1>4
  <2>2. /\ DOMAIN server' = Fields /\ server'.pc = "local" /\ server'.req = m
        /\ server'.args = x.mem /\ server'.heap = x.heap /\ server'.why = server.why
        /\ server'.lost = server.lost
    BY <1>0, <2>1 DEF ServerOk, Fields
  <2>3. ServerOk(server', scope.tampered, passed, client)
    BY <1>0, <1>1, <1>2, <1>3, <1>4, <2>2 DEF ServerOk, Serving, RequestOk
  <2> QED BY <1>0, <2>1, <2>3, ServerStep
<1>5. CASE ~x.ok
  <2>1. PICK freed \in BOOLEAN : server' = [server EXCEPT !.lost = @ \/ (~freed /\ x.heap # {})]
    BY <1>2, <1>5
  <2>2. scope.tampered
    BY <1>0, <1>3, <1>5 DEF Post
  <2>3. ServerOk(server', scope.tampered, passed, client)
    BY <1>0, <2>1, <2>2 DEF ServerOk, Serving, Fields
  <2>4. Post(Reply(m, "decode", <<>>), scope.tampered, passed, answered, client)
    BY <1>1, Refusal
  <2>5. net' = (net \ {m}) \cup {Reply(m, "decode", <<>>)}
    BY <1>2, <1>5
  <2> QED BY <1>0, <2>3, <2>4, <2>5, ServerStep
<1> QED BY <1>4, <1>5

\* While a request is served.
LEMMA ServedIs ==
  ASSUME Delivers, Serving(server)
  PROVE  /\ ScopeOk(scope) /\ RequestOk(server, passed, client) /\ DOMAIN server = Fields
         /\ server.why # "freeargs" /\ (server.lost => scope.tampered)
         /\ Served = Dispatch[server.req.prog][server.req.proc]
         /\ Served.arg \in Name /\ Served.res \in Name
         /\ Served.prog = server.req.prog /\ Served.proc = server.req.proc
<1>1. /\ ScopeOk(scope) /\ RequestOk(server, passed, client) /\ DOMAIN server = Fields
      /\ server.why # "freeargs" /\ (server.lost => scope.tampered)
  BY DEF Delivers, ServerOk
<1>2. Served = Dispatch[server.req.prog][server.req.proc]
  BY DEF Served
<1>3. server.req.prog \in Programs /\ server.req.proc \in {0, 1}
  BY <1>1 DEF RequestOk, Letter, Known
<1> QED BY <1>1, <1>2, <1>3, Tables

\* The next step of serving the same request.
LEMMA SameRequest ==
  ASSUME Delivers, Serving(server), NEW s, DOMAIN s = Fields, Serving(s),
         s.req = server.req, s.args = server.args, s.heap = server.heap,
         s.why = server.why, s.lost = server.lost,
         s.pc = "reply" => Follows(s.x, Served.res)
  PROVE  ServerOk(s, scope.tampered, passed, client)
BY ServedIs DEF ServerOk, RequestOk

\* The procedure answers, or leaves the answer out.
LEMMA LocalStep == ASSUME Delivers, Local PROVE Delivers'
<1>0. /\ UNCHANGED <<client, net, passed, answered>> /\ (UNCHANGED scope \/ Fault)
      /\ Serving(server)
  BY DEF Local, Serving
<1>1. /\ ScopeOk(scope) /\ DOMAIN server = Fields /\ Served.res \in Name
  BY <1>0, ServedIs
<1>2. ServerOk(server', scope.tampered, passed, client)
  <2>1. CASE server' = [server EXCEPT !.pc = "reply", !.x = encode(Served.res)]
    <3>1. Follows(encode(Served.res), Served.res)
      BY <1>1, FollowsEncode
    <3>2. /\ DOMAIN server' = Fields /\ server'.pc = "reply" /\ server'.x = encode(Served.res)
          /\ server'.req = server.req /\ server'.args = server.args
          /\ server'.heap = server.heap /\ server'.why = server.why /\ server'.lost = server.lost
      BY <1>1, <2>1 DEF Fields
    <3>3. Serving(server')
      BY <3>2 DEF Serving
    <3> QED BY <1>0, <3>1, <3>2, <3>3, SameRequest
  <2>2. CASE server' = [server EXCEPT !.pc = "free"]
    <3>2. /\ DOMAIN server' = Fields /\ server'.pc = "free"
          /\ server'.req = server.req /\ server'.args = server.args
          /\ server'.heap = server.heap /\ server'.why = server.why /\ server'.lost = server.lost
      BY <1>1, <2>2 DEF Fields
    <3>3. Serving(server')
      BY <3>2 DEF Serving
    <3> QED BY <1>0, <3>2, <3>3, SameRequest
  <2> QED BY <2>1, <2>2 DEF Local, Goto
<1>3. ScopeOk(scope') /\ scope'.tampered = scope.tampered
  BY <1>0, <1>1, SameScope
<1> QED BY <1>0, <1>2, <1>3, ServerStep

\* The answer is encoded part by part.
LEMMA EncodeReplyStep == ASSUME Delivers, EncodeReply PROVE Delivers'
<1>0. /\ UNCHANGED <<client, net, passed, answered>> /\ Serving(server)
      /\ server.pc = "reply" /\ Asks(server.x)
  BY DEF EncodeReply, Serving
<1>1. /\ ScopeOk(scope) /\ DOMAIN server = Fields /\ Served.res \in Name
      /\ Follows(server.x, Served.res)
  BY <1>0, ServedIs DEF RequestOk
<1>2. PICK e \in Encodings(server.x, scope.odd, scope.focus) :
        server' = [server EXCEPT !.x = e[1]] /\ scope' = [scope EXCEPT !.odd = e[2]]
  BY DEF EncodeReply
<1>3. ScopeOk(scope') /\ scope'.tampered = scope.tampered
  BY <1>1, <1>2 DEF ScopeOk, ScopeFields
<1>4. Follows(e[1], Served.res)
  <2>1. scope.focus \in Nat
    BY <1>1 DEF ScopeOk
  <2> QED BY <1>0, <1>1, <2>1, FollowsEncodings
<1>5. /\ DOMAIN server' = Fields /\ server'.pc = server.pc /\ server'.x = e[1]
      /\ server'.req = server.req /\ server'.args = server.args
      /\ server'.heap = server.heap /\ server'.why = server.why /\ server'.lost = server.lost
  BY <1>1, <1>2 DEF Fields
<1>6. Serving(server')
  BY <1>0, <1>5 DEF Serving
<1>7. ServerOk(server', scope.tampered, passed, client)
  BY <1>0, <1>4, <1>5, <1>6, SameRequest
<1> QED BY <1>0, <1>3, <1>7, ServerStep

\* svc_sendreply sends what decodes to the answer.
LEMMA SendreplyStep == ASSUME Delivers, svc_sendreply PROVE Delivers'
<1> DEFINE x == server.x
           m == server.req
           r == Reply(m, "success", x.wire)
           a == <<m.id, m.prog, m.proc, x.mem>>
<1>0. /\ UNCHANGED <<client, passed>> /\ Serving(server)
      /\ server.pc = "reply" /\ Ended(x) /\ Goto("free")
  BY DEF svc_sendreply, Serving
<1>1. /\ ScopeOk(scope) /\ DOMAIN server = Fields /\ Served.res \in Name
      /\ Follows(x, Served.res) /\ Letter(m) /\ Known(m) /\ Timely(m, client)
      /\ Served = Dispatch[m.prog][m.proc] /\ Served.prog = m.prog /\ Served.proc = m.proc
  BY <1>0, ServedIs DEF RequestOk
<1>2. ServerOk(server', scope.tampered, passed, client)
  <2>2. /\ DOMAIN server' = Fields /\ server'.pc = "free"
        /\ server'.req = server.req /\ server'.args = server.args
        /\ server'.heap = server.heap /\ server'.why = server.why /\ server'.lost = server.lost
    BY <1>0, <1>1 DEF Fields, Goto
  <2>3. Serving(server')
    BY <2>2 DEF Serving
  <2> QED BY <1>0, <2>2, <2>3, SameRequest
<1>3. CASE x.ok /\ net' = net \cup {r} /\ answered' = answered \cup {a} /\ UNCHANGED scope
  <2>1. /\ DOMAIN r = MessageFields /\ r.id = m.id /\ r.prog = m.prog /\ r.proc = m.proc
        /\ r.stat = "success" /\ r.garbled = FALSE /\ r.wire = x.wire
    BY <1>1 DEF Letter, Reply, MessageFields
  <2>2. x.wire \in Seq(Nat)
    BY <1>1 DEF Follows, Handles
  <2>3. Carries(r, Served.res, answered')
    <3>1. Ended(decode(Served.res, x.wire)) =>
            decode(Served.res, x.wire).ok /\ decode(Served.res, x.wire).mem = x.mem
      BY <1>0, <1>1, <1>3, DecodesEncoded
    <3> HIDE DEF r, x, m
    <3> QED BY <1>3, <2>1, <3>1 DEF Carries
  <2> HIDE DEF r, x
  <2>4. Post(r, scope.tampered, passed, answered', client)
    BY <1>1, <2>1, <2>2, <2>3 DEF Post, Letter, Timely, Known
  <2> QED BY <1>0, <1>1, <1>2, <1>3, <2>4, ServerStep
<1>4. CASE net' = net \cup {Reply(m, "systemerr", <<>>)} /\ UNCHANGED answered
           /\ (UNCHANGED scope \/ Fault)
  <2>1. ScopeOk(scope') /\ scope'.tampered = scope.tampered
    BY <1>1, <1>4, SameScope
  <2>2. Post(Reply(m, "systemerr", <<>>), scope.tampered, passed, answered, client)
    BY <1>1, Refusal
  <2> QED BY <1>0, <1>2, <1>4, <2>1, <2>2, ServerStep
<1>5. \/ x.ok /\ net' = net \cup {r} /\ answered' = answered \cup {a} /\ UNCHANGED scope
      \/ net' = net \cup {Reply(m, "systemerr", <<>>)} /\ UNCHANGED answered
         /\ (UNCHANGED scope \/ Fault)
  BY <1>1 DEF svc_sendreply
<1> QED BY <1>3, <1>4, <1>5

\* svc_freeargs frees all that svc_getargs has allocated.
LEMMA FreeargsStep == ASSUME Delivers, svc_freeargs PROVE Delivers'
<1> DEFINE x == free(Served.arg, server.args, server.heap)
<1>0. /\ UNCHANGED <<scope, client, net, passed, answered>> /\ Serving(server)
  BY DEF svc_freeargs, Serving
<1>1. /\ ScopeOk(scope) /\ DOMAIN server = Fields /\ Served.arg \in Name
      /\ server.why # "freeargs" /\ (server.lost => scope.tampered)
  BY <1>0, ServedIs
<1>2. x.ok /\ x.heap = {}
  <2> DEFINE w == server.req.wire
             d == decode(Served.arg, w)
  <2>1. w \in Seq(Nat) /\ d.ok /\ Ended(d) /\ server.args = d.mem /\ server.heap = d.heap
    BY <1>0, ServedIs DEF RequestOk, Letter
  <2>2. free(Served.arg, d.mem, d.heap).ok /\ free(Served.arg, d.mem, d.heap).heap = {}
    BY <1>1, <2>1, FreesDecoded
  <2> QED BY <2>1, <2>2
<1>3. server' = [server EXCEPT !.pc = "svc_run", !.req = NoRequest, !.args = <<>>,
                               !.heap = x.heap, !.x = Unused]
  BY <1>2 DEF svc_freeargs
<1>4. DOMAIN server' = Fields /\ server'.pc = "svc_run" /\ server'.heap = {}
      /\ server'.why = server.why /\ server'.lost = server.lost
  <2> HIDE DEF x
  <2> QED BY <1>1, <1>2, <1>3 DEF Fields
<1>5. ServerOk(server', scope.tampered, passed, client)
  BY <1>1, <1>4 DEF ServerOk, Serving
<1> QED BY <1>0, <1>1, <1>5, ServerStep

\* The steps of the server while it serves.
LEMMA ServeStep == ASSUME Delivers, serve PROVE Delivers'
BY NoprocStep, GetargsStep, LocalStep, EncodeReplyStep, SendreplyStep, FreeargsStep DEF serve

-----------------------------------------------------------------------------

\* A step of the client: the server does not change.
LEMMA ClientStep ==
  ASSUME Delivers, server' = server, passed \subseteq passed', answered' = answered,
         ScopeOk(scope'), scope'.tampered = scope.tampered,
         \A m : Letter(m) /\ Timely(m, client) => Timely(m, client'),
         \A m \in net' : m \in net \/ Post(m, scope'.tampered, passed', answered', client'),
         ClientOk(client', passed', answered')
  PROVE  Delivers'
<1>1. ServerOk(server', scope'.tampered, passed', client')
  <2>1. ServerOk(server, scope.tampered, passed, client)
    BY DEF Delivers
  <2>2. CASE Serving(server)
    <3>1. Timely(server.req, client')
      BY <2>2, ServedIs DEF RequestOk
    <3> QED BY <2>1, <3>1, ServerKept
  <2>3. CASE ~Serving(server)
    BY <2>1, <2>3 DEF ServerOk
  <2> QED BY <2>2, <2>3
<1>2. \A m \in net : Timely(m, client')
  BY DEF Delivers, Post
<1> QED BY <1>1, <1>2, Assemble

\* What the client may do without being taken for another.
LEMMA Passive ==
  ASSUME NEW c, NEW d, d.id = c.id, d.stub = c.stub,
         d.pc \notin {"encode", "wait"} \/ d.pc = c.pc,
         NEW m, Timely(m, c)
  PROVE  Timely(m, d)
BY DEF Timely

\* A stub is called: no message of its number is under way.
LEMMA CallStep == ASSUME Delivers, NEW s \in scope.stubs, NEW prot, Call(s, prot) PROVE Delivers'
<1>0. /\ UNCHANGED <<server, net, passed, answered>> /\ ScopeOk(scope)
      /\ ClientOk(client, passed, answered) /\ s \in DOMAIN Stub
  BY DEF Call, Delivers, ScopeOk
<1>1. ScopeOk(scope') /\ scope'.tampered = scope.tampered
  BY <1>0 DEF Call, ScopeOk, ScopeFields
<1>2. PICK to : client' = [client EXCEPT !.pc = "encode", !.stub = s, !.id = @ + 1, !.prot = prot,
                               !.to = to, !.x = encode(Stub[s].arg), !.ret = FALSE,
                               !.sound = TRUE, !.res[s] = <<>>]
  BY DEF Call
<1>3. /\ DOMAIN client' = ClientFields /\ client'.pc = "encode" /\ client'.stub = s
      /\ client'.id = client.id + 1 /\ client'.x = encode(Stub[s].arg) /\ client'.ret = FALSE
      /\ DOMAIN client'.res = DOMAIN Stub
      /\ client'.intact = client.intact /\ client'.freed = client.freed
  <2> DEFINE X == encode(Stub[s].arg)
  <2>1. client' = [client EXCEPT !.pc = "encode", !.stub = s, !.id = @ + 1, !.prot = prot,
                               !.to = to, !.x = X, !.ret = FALSE,
                               !.sound = TRUE, !.res[s] = <<>>]
    BY <1>2
  <2> HIDE DEF X
  <2>2. DOMAIN client = ClientFields /\ DOMAIN client.res = DOMAIN Stub
    BY <1>0 DEF ClientOk
  <2>3. /\ DOMAIN client' = ClientFields /\ client'.pc = "encode" /\ client'.stub = s
      /\ client'.id = client.id + 1 /\ client'.x = X /\ client'.ret = FALSE
      /\ client'.res = [client.res EXCEPT ![s] = <<>>]
      /\ client'.intact = client.intact /\ client'.freed = client.freed
    BY <2>1, <2>2 DEF ClientFields
  <2> QED BY <2>2, <2>3 DEF X
<1>4. Follows(encode(Stub[s].arg), Stub[s].arg)
  BY <1>0, Tables, FollowsEncode
<1>5. ClientOk(client', passed, answered)
  BY <1>0, <1>3, <1>4 DEF ClientOk
<1>6. \A m : Letter(m) /\ Timely(m, client) => Timely(m, client')
  BY <1>0, <1>3 DEF Timely, Letter, ClientOk
<1> QED BY <1>0, <1>1, <1>5, <1>6, ClientStep

\* An attribute is packed.
LEMMA PackStep == ASSUME Delivers, NEW t \in scope.attrs, Pack(t) PROVE Delivers'
<1>0. /\ UNCHANGED <<server, net, passed, answered>> /\ ScopeOk(scope)
      /\ ClientOk(client, passed, answered) /\ t \in Name
  BY DEF Pack, Delivers, ScopeOk
<1>1. ScopeOk(scope') /\ scope'.tampered = scope.tampered
  BY <1>0 DEF Pack, ScopeOk, ScopeFields
<1>2. client' = [client EXCEPT !.pc = "pack", !.attr = t, !.x = encode(t)]
  BY DEF Pack
<1>3. /\ DOMAIN client' = ClientFields /\ client'.pc = "pack" /\ client'.stub = client.stub
      /\ client'.id = client.id /\ client'.x = encode(t) /\ client'.ret = client.ret
      /\ client'.res = client.res /\ client'.sound = client.sound /\ client'.attr = t
      /\ client'.intact = client.intact /\ client'.freed = client.freed
  <2> DEFINE X == encode(t)
  <2> HIDE DEF X
  <2> QED BY <1>0, <1>2 DEF X, ClientOk, ClientFields
<1>4. Follows(encode(t), t)
  BY <1>0, FollowsEncode
<1>5. ClientOk(client', passed, answered)
  BY <1>0, <1>3, <1>4 DEF ClientOk
<1>6. \A m : Letter(m) /\ Timely(m, client) => Timely(m, client')
  BY <1>3, Passive
<1> QED BY <1>0, <1>1, <1>5, <1>6, ClientStep

\* Arguments or an attribute are encoded part by part.
LEMMA EncodeArgStep == ASSUME Delivers, EncodeArg PROVE Delivers'
<1>0. /\ UNCHANGED <<server, net, passed, answered>> /\ ScopeOk(scope)
      /\ ClientOk(client, passed, answered)
      /\ client.pc \in {"encode", "pack"} /\ Asks(client.x)
  BY DEF EncodeArg, Delivers
<1>1. PICK e \in Encodings(client.x, scope.odd, scope.focus) :
        client' = [client EXCEPT !.x = e[1]] /\ scope' = [scope EXCEPT !.odd = e[2]]
  BY DEF EncodeArg
<1>2. ScopeOk(scope') /\ scope'.tampered = scope.tampered /\ scope.focus \in Nat
  BY <1>0, <1>1 DEF ScopeOk, ScopeFields
<1>3. /\ DOMAIN client' = ClientFields /\ client'.pc = client.pc /\ client'.stub = client.stub
      /\ client'.id = client.id /\ client'.x = e[1] /\ client'.ret = client.ret
      /\ client'.res = client.res /\ client'.sound = client.sound /\ client'.attr = client.attr
      /\ client'.intact = client.intact /\ client'.freed = client.freed
  BY <1>0, <1>1 DEF ClientOk, ClientFields
<1>4. \A t \in Name : Follows(client.x, t) => Follows(e[1], t)
  BY <1>0, <1>2, FollowsEncodings
<1>5. ClientOk(client', passed, answered)
  <2>1. CASE client.pc = "encode"
    <3>1. client.stub \in DOMAIN Stub /\ Stub[client.stub].arg \in Name
      BY <1>0, <2>1, Tables DEF ClientOk
    <3> QED BY <1>0, <1>3, <1>4, <2>1, <3>1 DEF ClientOk
  <2>2. CASE client.pc = "pack"
    BY <1>0, <1>3, <1>4, <2>2 DEF ClientOk
  <2> QED BY <1>0, <2>1, <2>2
<1>6. \A m : Letter(m) /\ Timely(m, client) => Timely(m, client')
  BY <1>3, Passive
<1> QED BY <1>0, <1>2, <1>5, <1>6, ClientStep

\* A call that is over.
LEMMA IdleIs ==
  ASSUME NEW c, DOMAIN c = ClientFields
  PROVE  /\ DOMAIN Idle(c) = ClientFields /\ Idle(c).pc = "idle"
         /\ Idle(c).stub = c.stub /\ Idle(c).id = c.id /\ Idle(c).ret = c.ret
         /\ Idle(c).sound = c.sound /\ Idle(c).res = c.res /\ Idle(c).attr = c.attr
         /\ Idle(c).intact = c.intact /\ Idle(c).freed = c.freed
<1> DEFINE X == Unused
<1> HIDE DEF X
<1>1. Idle(c) = [c EXCEPT !.pc = "idle", !.x = X]
  BY DEF Idle, X
<1> QED BY <1>1 DEF ClientFields

\* What is sent while the client waits for the answer.
LEMMA RequestPost ==
  ASSUME Delivers, client.pc \in {"encode", "wait"}, Ended(client.x), client.x.ok,
         NEW c, c.pc = "wait", c.id = client.id, c.stub = client.stub, NEW P, NEW t, NEW A,
         <<client.id, Stub[client.stub].prog, Stub[client.stub].proc, client.x.mem>> \in P
  PROVE  Post(Request, t, P, A, c)
<1> DEFINE x == client.x
           s == Stub[client.stub]
           r == Request
<1>1. /\ client.stub \in DOMAIN Stub /\ client.id \in Nat /\ Follows(x, s.arg)
  BY DEF Delivers, ClientOk
<1>2. /\ s.prog \in Programs /\ s.proc \in {0, 1} /\ Dispatch[s.prog][s.proc] = s
         /\ s.arg \in Name
  BY <1>1, Tables
<1>3. /\ DOMAIN r = MessageFields /\ r.stat = "call" /\ r.id = client.id /\ r.prog = s.prog
      /\ r.proc = s.proc /\ r.wire = x.wire /\ r.garbled = FALSE
  BY DEF Request, Message, MessageFields
<1>4. x.wire \in Seq(Nat)
  BY <1>1 DEF Follows, Handles
<1>5. Carries(r, s.arg, P)
  <2>1. Ended(decode(s.arg, x.wire)) =>
          decode(s.arg, x.wire).ok /\ decode(s.arg, x.wire).mem = x.mem
    BY <1>1, <1>2, DecodesEncoded
  <2>2. <<r.id, r.prog, r.proc, x.mem>> \in P
    BY <1>3
  <2> HIDE DEF r, x, s
  <2> QED BY <1>3, <2>1, <2>2 DEF Carries
<1> HIDE DEF r
<1>6. Letter(r) /\ Known(r) /\ Timely(r, c)
  BY <1>1, <1>2, <1>3, <1>4 DEF Letter, Known, Timely
<1>7. Post(r, t, P, A, c)
  BY <1>2, <1>3, <1>5, <1>6 DEF Post
<1> QED BY <1>7 DEF r

\* clnt_call sends what decodes to the arguments, ...
LEMMA SendStep == ASSUME Delivers, Send PROVE Delivers'
<1> DEFINE p == <<client.id, Stub[client.stub].prog, Stub[client.stub].proc, client.x.mem>>
<1>0. /\ UNCHANGED <<scope, server, answered>> /\ ScopeOk(scope)
      /\ ClientOk(client, passed, answered) /\ DOMAIN client = ClientFields
      /\ client.pc = "encode" /\ Ended(client.x)
  BY DEF Send, Delivers, ClientOk
<1>1. CASE client.x.ok
  <2>1. /\ client' = [client EXCEPT !.pc = "wait"] /\ net' = net \cup {Request}
        /\ passed' = passed \cup {p}
    <3>1. Request.prog = Stub[client.stub].prog /\ Request.proc = Stub[client.stub].proc
      BY DEF Request, Message
    <3> QED BY <1>1, <3>1 DEF Send
  <2>2. /\ DOMAIN client' = ClientFields /\ client'.pc = "wait" /\ client'.stub = client.stub
        /\ client'.id = client.id /\ client'.x = client.x /\ client'.ret = client.ret
        /\ client'.res = client.res /\ client'.sound = client.sound /\ client'.attr = client.attr
        /\ client'.intact = client.intact /\ client'.freed = client.freed
    BY <1>0, <2>1 DEF ClientFields
  <2>3. ClientOk(client', passed', answered)
    <3>1. p \in passed' /\ passed \subseteq passed'
      BY <2>1
    <3> QED BY <1>0, <1>1, <2>2, <3>1 DEF ClientOk
  <2>4. \A m : Letter(m) /\ Timely(m, client) => Timely(m, client')
    BY <1>0, <2>2 DEF Timely, Letter, ClientOk
  <2>5. Post(Request, scope.tampered, passed', answered, client')
    <3>1. p \in passed'
      BY <2>1
    <3> QED BY <1>0, <1>1, <2>2, <3>1, RequestPost
  <2> QED BY <1>0, <2>1, <2>3, <2>4, <2>5, ClientStep
<1>2. CASE ~client.x.ok
  <2>1. client' = Idle(client) /\ UNCHANGED <<net, passed>>
    BY <1>2 DEF Send
  <2>2. ClientOk(client', passed, answered)
    BY <1>0, <2>1, IdleIs DEF ClientOk
  <2>3. \A m : Letter(m) /\ Timely(m, client) => Timely(m, client')
    BY <1>0, <2>1, IdleIs, Passive
  <2> QED BY <1>0, <2>1, <2>2, <2>3, ClientStep
<1> QED BY <1>1, <1>2

\* ... perhaps again, ...
LEMMA RetransmitStep == ASSUME Delivers, Retransmit PROVE Delivers'
<1>0. /\ UNCHANGED <<client, server, passed, answered>> /\ ScopeOk(scope) /\ Fault
      /\ ClientOk(client, passed, answered) /\ client.pc = "wait" /\ net' = net \cup {Request}
  BY DEF Retransmit, Delivers
<1>1. ScopeOk(scope') /\ scope'.tampered = scope.tampered
  BY <1>0, FaultScope
<1>2. Post(Request, scope.tampered, passed, answered, client)
  <2>1. /\ Ended(client.x) /\ client.x.ok
        /\ <<client.id, Stub[client.stub].prog, Stub[client.stub].proc, client.x.mem>> \in passed
    BY <1>0 DEF ClientOk
  <2> QED BY <1>0, <2>1, RequestPost
<1> QED BY <1>0, <1>1, <1>2, ClientStep

\* The call is over, and nothing is returned.
LEMMA Nothing ==
  ASSUME NEW c, NEW d, NEW P, NEW A, ClientOk(c, P, A), d = [Idle(c) EXCEPT !.ret = FALSE]
  PROVE  ClientOk(d, P, A) /\ \A m : Timely(m, c) => Timely(m, d)
<1> DEFINE i == Idle(c)
<1>1. /\ DOMAIN i = ClientFields /\ i.pc = "idle" /\ i.stub = c.stub /\ i.id = c.id
      /\ i.res = c.res /\ i.intact = c.intact /\ i.freed = c.freed
  BY IdleIs DEF ClientOk
<1> HIDE DEF i
<1>2. d = [i EXCEPT !.ret = FALSE]
  BY DEF i
<1>3. /\ DOMAIN d = ClientFields /\ d.pc = "idle" /\ d.stub = c.stub /\ d.id = c.id
      /\ d.res = c.res /\ d.intact = c.intact /\ d.freed = c.freed /\ d.ret = FALSE
  BY <1>1, <1>2 DEF ClientFields
<1>4. ClientOk(d, P, A)
  BY <1>3 DEF ClientOk
<1> QED BY <1>3, <1>4, Passive

\* ... gives up, ...
LEMMA TimeoutStep == ASSUME Delivers, Timeout PROVE Delivers'
<1>0. /\ UNCHANGED <<server, net, passed, answered>> /\ ScopeOk(scope)
      /\ ClientOk(client, passed, answered) /\ (UNCHANGED scope \/ Fault)
      /\ client' = [Idle(client) EXCEPT !.ret = FALSE]
  BY DEF Timeout, Delivers, Returned
<1>1. ScopeOk(scope') /\ scope'.tampered = scope.tampered
  BY <1>0, SameScope
<1>2. ClientOk(client', passed, answered) /\ \A m : Timely(m, client) => Timely(m, client')
  BY <1>0, Nothing
<1> QED BY <1>0, <1>1, <1>2, ClientStep

\* ... or decodes the answer into the static result.
LEMMA ReceiveStep == ASSUME Delivers, NEW m \in net, Receive(m) PROVE Delivers'
<1> DEFINE s == client.stub
           y == decode(Stub[s].res, m.wire)
           i == Idle(client)
<1>0. /\ UNCHANGED <<scope, server, passed, answered>> /\ ScopeOk(scope)
      /\ ClientOk(client, passed, answered) /\ client.pc = "wait" /\ m.id = client.id
      /\ net' = net \ {m} /\ Post(m, scope.tampered, passed, answered, client)
  BY DEF Receive, Delivers
<1>1. CASE m.stat # "success"
  <2>1. client' = [Idle(client) EXCEPT !.ret = FALSE]
    BY <1>1 DEF Receive, Returned
  <2>2. ClientOk(client', passed, answered) /\ \A n : Timely(n, client) => Timely(n, client')
    BY <1>0, <2>1, Nothing
  <2> QED BY <1>0, <2>2, ClientStep
<1>2. CASE m.stat = "success"
  <2>1. /\ Ended(y)
        /\ client' = [i EXCEPT !.res[s] = y.mem, !.ret = y.ok, !.sound = ~m.garbled]
    BY <1>2 DEF Receive, Returned
  <2>2. /\ s \in DOMAIN Stub /\ m.prog = Stub[s].prog /\ m.proc = Stub[s].proc
        /\ Dispatch[m.prog][m.proc] = Stub[s]
    <3>1. s \in DOMAIN Stub
      BY <1>0 DEF ClientOk
    <3>2. m.prog = Stub[s].prog /\ m.proc = Stub[s].proc
      BY <1>0 DEF Post, Timely
    <3> QED BY <3>1, <3>2, Tables
  <2>3. ~m.garbled => y.ok /\ <<client.id, Stub[s].prog, Stub[s].proc, y.mem>> \in answered
    BY <1>0, <1>2, <2>1, <2>2 DEF Post, Carries
  <2>4. /\ DOMAIN i = ClientFields /\ i.pc = "idle" /\ i.stub = s /\ i.id = client.id
        /\ i.res = client.res /\ i.intact = client.intact /\ i.freed = client.freed
    BY <1>0, IdleIs DEF ClientOk
  <2>5. /\ DOMAIN client' = ClientFields /\ client'.pc = "idle" /\ client'.stub = s
        /\ client'.id = client.id /\ client'.intact = client.intact
           /\ client'.freed = client.freed
        /\ client'.ret = y.ok /\ client'.sound = ~m.garbled
        /\ client'.res = [client.res EXCEPT ![s] = y.mem]
    <3> HIDE DEF i, y, s
    <3> QED BY <2>1, <2>4 DEF ClientFields
  <2>6. DOMAIN client'.res = DOMAIN Stub /\ client'.res[s] = y.mem
    <3>1. DOMAIN client.res = DOMAIN Stub
      BY <1>0 DEF ClientOk
    <3> HIDE DEF y, s
    <3> QED BY <2>2, <2>5, <3>1
  <2>7. ClientOk(client', passed, answered)
    <3> HIDE DEF y, s, i
    <3> QED BY <1>0, <2>3, <2>5, <2>6 DEF ClientOk
  <2>8. \A n : Timely(n, client) => Timely(n, client')
    BY <2>5, Passive
  <2> QED BY <1>0, <2>7, <2>8, ClientStep
<1> QED BY <1>1, <1>2

\* An attribute is unpacked and freed.
LEMMA UnpackStep == ASSUME Delivers, Unpack PROVE Delivers'
<1> DEFINE t == client.attr
           w == client.x.wire
           y == decode(t, w)
           z == free(t, y.mem, y.heap)
           i == Idle(client)
           in == client.x.ok => y.ok /\ y.mem = client.x.mem
           fr == y.ok => z.ok /\ z.heap = {}
<1>0. /\ UNCHANGED <<scope, server, net, passed, answered>> /\ ScopeOk(scope)
      /\ ClientOk(client, passed, answered) /\ client.pc = "pack" /\ Ended(client.x)
  BY DEF Unpack, Delivers
<1>1. t \in Name /\ Follows(client.x, t)
  BY <1>0 DEF ClientOk
<1>2. w \in Seq(Nat)
  BY <1>1 DEF Follows, Handles
<1>3. Ended(y) /\ client' = [i EXCEPT !.intact = in, !.freed = fr]
  BY DEF Unpack
<1>4. in
  BY <1>0, <1>1, <1>3, DecodesEncoded
<1>5. fr
  BY <1>1, <1>2, <1>3, FreesDecoded
<1>6. /\ DOMAIN i = ClientFields /\ i.pc = "idle" /\ i.stub = client.stub /\ i.id = client.id
      /\ i.res = client.res /\ i.ret = client.ret /\ i.sound = client.sound
  BY <1>0, IdleIs DEF ClientOk
<1> HIDE DEF in, fr, i, y, z, w, t
<1>7. /\ DOMAIN client' = ClientFields /\ client'.pc = "idle" /\ client'.stub = client.stub
      /\ client'.id = client.id /\ client'.res = client.res /\ client'.ret = client.ret
      /\ client'.sound = client.sound /\ client'.intact = in /\ client'.freed = fr
  BY <1>3, <1>6 DEF ClientFields
<1>8. ClientOk(client', passed, answered)
  BY <1>0, <1>4, <1>5, <1>7 DEF ClientOk
<1>9. \A m : Timely(m, client) => Timely(m, client')
  BY <1>7, Passive
<1> QED BY <1>0, <1>8, <1>9, ClientStep

-----------------------------------------------------------------------------
(* The network, and what follows from the invariant.                       *)

\* A step of the network: messages come or go.
LEMMA NetworkStep ==
  ASSUME Delivers, UNCHANGED <<client, server, passed, answered>>, ScopeOk(scope'),
         scope.tampered => scope'.tampered,
         \A m \in net' : m \in net \/ Post(m, scope'.tampered, passed, answered, client)
  PROVE  Delivers'
<1>1. ServerOk(server, scope.tampered, passed, client)
  BY DEF Delivers
<1>2. ServerOk(server, scope'.tampered, passed, client)
  BY <1>1, ServerKept
<1> QED BY <1>2, ServerStep

\* The network loses, garbles and makes up messages.
LEMMA LoseStep ==
  ASSUME Delivers, NEW m \in net, Lose(m) \/ Ignore(m)
  PROVE  Delivers'
<1>1. /\ UNCHANGED <<client, server, passed, answered>> /\ net' = net \ {m}
      /\ (UNCHANGED scope \/ Fault) /\ ScopeOk(scope)
  BY DEF Lose, Ignore, Delivers
<1>2. ScopeOk(scope') /\ scope'.tampered = scope.tampered
  BY <1>1, SameScope
<1> QED BY <1>1, <1>2, NetworkStep

LEMMA GarbleStep == ASSUME Delivers, NEW m \in net, Garble(m) PROVE Delivers'
<1>0. /\ UNCHANGED <<client, server, passed, answered>> /\ ScopeOk(scope) /\ Tampered
      /\ Letter(m) /\ Timely(m, client)
  BY DEF Garble, Delivers, Post
<1>1. ScopeOk(scope') /\ scope'.tampered
  BY <1>0, TamperedScope
<1>2. ASSUME NEW v \in Seq(Nat), NEW n, n = [m EXCEPT !.wire = v, !.garbled = TRUE]
      PROVE  Post(n, scope'.tampered, passed, answered, client)
  <2>1. /\ DOMAIN n = MessageFields /\ n.id = m.id /\ n.prog = m.prog /\ n.proc = m.proc
        /\ n.garbled = TRUE /\ n.wire = v
    BY <1>0, <1>2 DEF Letter, MessageFields
  <2> QED BY <1>0, <1>1, <2>1 DEF Post, Letter, Timely
<1>3. PICK i \in DOMAIN m.wire :
       \/ \E w \in Garbage \ {m.wire[i]} :
            net' = (net \ {m}) \cup {[m EXCEPT !.wire[i] = w, !.garbled = TRUE]}
       \/ net' = (net \ {m}) \cup {[m EXCEPT !.wire = SubSeq(@, 1, i - 1), !.garbled = TRUE]}
  BY DEF Garble
<1>4. m.wire \in Seq(Nat) /\ i \in 1 .. Len(m.wire)
  BY <1>0 DEF Letter
<1>5. ASSUME NEW w \in Garbage, net' = (net \ {m}) \cup {[m EXCEPT !.wire[i] = w,
      !.garbled = TRUE]}
      PROVE  Delivers'
  <2> DEFINE v == [m.wire EXCEPT ![i] = w]
  <2>1. v \in Seq(Nat)
    BY <1>4, RpcAssumption
  <2>2. [m EXCEPT !.wire[i] = w, !.garbled = TRUE] = [m EXCEPT !.wire = v, !.garbled = TRUE]
    OBVIOUS
  <2> HIDE DEF v
  <2>3. Post([m EXCEPT !.wire[i] = w, !.garbled = TRUE], scope'.tampered, passed, answered,
        client)
    BY <1>2, <2>1, <2>2
  <2> QED BY <1>0, <1>1, <1>5, <2>3, NetworkStep
<1>6. CASE net' = (net \ {m}) \cup {[m EXCEPT !.wire = SubSeq(@, 1, i - 1), !.garbled = TRUE]}
  <2> DEFINE v == SubSeq(m.wire, 1, i - 1)
  <2>1. v \in Seq(Nat)
    BY <1>4
  <2>2. [m EXCEPT !.wire = SubSeq(@, 1, i - 1), !.garbled = TRUE] = [m EXCEPT !.wire = v,
        !.garbled = TRUE]
    OBVIOUS
  <2> HIDE DEF v
  <2>3. Post([m EXCEPT !.wire = SubSeq(@, 1, i - 1), !.garbled = TRUE], scope'.tampered, passed,
        answered, client)
    BY <1>2, <2>1, <2>2
  <2> QED BY <1>0, <1>1, <1>6, <2>3, NetworkStep
<1> QED BY <1>3, <1>5, <1>6

LEMMA StrayStep == ASSUME Delivers, Stray PROVE Delivers'
<1>0. /\ UNCHANGED <<client, server, passed, answered>> /\ ScopeOk(scope) /\ Tampered
      /\ ClientOk(client, passed, answered)
  BY DEF Stray, Delivers
<1>1. ScopeOk(scope') /\ scope'.tampered
  BY <1>0, TamperedScope
<1>2. PICK p \in Programs : net' = net \cup
        {[Message("call", 0, "udp", server.run, p, 2, <<>>) EXCEPT !.garbled = TRUE]}
  BY DEF Stray
<1> DEFINE n == [Message("call", 0, "udp", server.run, p, 2, <<>>) EXCEPT !.garbled = TRUE]
<1>3. /\ DOMAIN n = MessageFields /\ n.id = 0 /\ n.prog = p /\ n.garbled = TRUE /\ n.wire = <<>>
      /\ n.stat = "call"
  BY DEF Message, MessageFields
<1> HIDE DEF n
<1>4. Letter(n) /\ Timely(n, client)
  BY <1>0, <1>3 DEF Letter, Timely, ClientOk
<1>5. Post(n, scope'.tampered, passed, answered, client)
  BY <1>1, <1>3, <1>4 DEF Post
<1> QED BY <1>0, <1>1, <1>2, <1>5, NetworkStep DEF n

\* The invariant holds at first, and every step keeps it.
LEMMA InitDelivers == Init => Delivers
<1> SUFFICES ASSUME Init PROVE Delivers
  OBVIOUS
<1>1. ScopeOk(scope)
  <2>1. scope \in [focus : Nat, stubs : SUBSET DOMAIN Stub, attrs : SUBSET DOMAIN Attributes,
                   odd : Nat, faults : Nat, calls : Nat, tampered : {FALSE}]
    BY ScopeAssumption DEF Init
  <2> QED BY <2>1, PartsNamed DEF ScopeOk, ScopeFields
<1>2. ServerOk(server, scope.tampered, passed, client)
  <2> DEFINE X == Unused
  <2> HIDE DEF X
  <2>1. server = [pc |-> "exited", run |-> 0, why |-> "", stale |-> FALSE, req |-> NoRequest,
                  args |-> <<>>, heap |-> {}, x |-> X, lost |-> FALSE]
    BY DEF Init, X
  <2> QED BY <2>1 DEF ServerOk, Fields, Serving
<1>3. ClientOk(client, passed, answered)
  <2> DEFINE X == Unused
             R == [s \in DOMAIN Stub |-> <<>>]
  <2>0. DOMAIN R = DOMAIN Stub
    OBVIOUS
  <2> HIDE DEF X, R
  <2>1. client = [pc |-> "idle", stub |-> "", id |-> 0, prot |-> "udp", to |-> 0,
                  x |-> X, ret |-> FALSE, sound |-> TRUE,
                  res |-> R, attr |-> "void", intact |-> TRUE, freed |-> TRUE]
    BY DEF Init, X, R
  <2> QED BY <2>0, <2>1 DEF ClientOk, ClientFields
<1> QED BY <1>1, <1>2, <1>3 DEF Delivers, Init

LEMMA NextDelivers == Delivers /\ [Next]_vars => Delivers'
<1> SUFFICES ASSUME Delivers, [Next]_vars PROVE Delivers'
  OBVIOUS
<1>1. CASE UNCHANGED vars
  BY <1>1, NetworkStep DEF vars, Delivers
<1>2. CASE program
  BY <1>2, CallStep, PackStep DEF program
<1>3. CASE clnt
  BY <1>3, EncodeArgStep, SendStep, TimeoutStep, UnpackStep, ReceiveStep DEF clnt
<1>4. CASE Network
  BY <1>4, StrayStep, LoseStep, GarbleStep DEF Network
<1>5. CASE \E m \in net : Ignore(m)
  BY <1>5, LoseStep
<1> QED BY <1>1, <1>2, <1>3, <1>4, <1>5, StartStep, MainStep, DieStep, ServeStep, RetransmitStep
           DEF Next

LEMMA SpecDelivers == Spec => []Delivers
BY InitDelivers, NextDelivers, PTL DEF Spec

\* A procedure of the server is given the arguments that a stub was given for
\* the same call, whatever is lost, sent again or comes late: what svc_getargs
\* decodes is what clnt_call has encoded (prot_clnt.c:33-36, prot_svc.c:46-51).
\* An attribute that was packed is unpacked as it was.
THEOREM ArgumentsDelivered == Spec => []ArgumentsArrive
<1>1. Delivers => ArgumentsArrive
  <2> SUFFICES ASSUME Delivers PROVE ArgumentsArrive
    OBVIOUS
  <2>1. client.intact
    BY DEF Delivers, ClientOk
  <2>2. ASSUME server.pc = "local", ~server.req.garbled
        PROVE  <<server.req.id, Served.prog, Served.proc, server.args>> \in passed
    <3>1. Serving(server)
      BY <2>2 DEF Serving
    <3> QED BY <2>2, <3>1, ServedIs DEF RequestOk
  <2> QED BY <2>1, <2>2 DEF ArgumentsArrive
<1> QED BY SpecDelivers, <1>1, PTL

\* A stub that does not return NULL returns what the procedure has answered to
\* this very call, and no earlier or half decoded result (prot_clnt.c:32-39).
THEOREM AnswersReturned == Spec => []ResultIsAnswer
<1>1. Delivers => ResultIsAnswer
  BY DEF Delivers, ClientOk, ResultIsAnswer
<1> QED BY SpecDelivers, <1>1, PTL

\* svc_freeargs frees all that svc_getargs has allocated: nothing is left on the
\* heap between requests (prot_svc.c:46-58).
THEOREM ArgumentsFreed == Spec => []ArgsFreed
<1>1. Delivers => ArgsFreed
  BY DEF Delivers, ClientOk, ServerOk, Serving, ArgsFreed
<1> QED BY SpecDelivers, <1>1, PTL

\* svc_freeargs never fails on what svc_getargs has decoded, whatever the request
\* holds, so that the server does not exit there (prot_svc.c:55-58).
THEOREM ServesOn == Spec => []NeverDiesServing
<1>1. Delivers => NeverDiesServing
  BY DEF Delivers, ServerOk, NeverDiesServing
<1> QED BY SpecDelivers, <1>1, PTL

-----------------------------------------------------------------------------
(* Which routine a name stands for.                                        *)

\* The routines with a limit, and the part of the tables in which they are.
Home == [nfs_fh4 |-> 3, owner |-> 7, id |-> 7]

\* The table tbl, which is part i, has none of them that is not of part i.
Owns(tbl, i) == \A t \in DOMAIN Home : t \in DOMAIN tbl => Home[t] = i

\* Tables that own their names, joined.
LEMMA JoinOwns ==
  ASSUME NEW ts, NEW i, \A k \in DOMAIN ts : Owns(ts[k], i)
  PROVE  Owns(Join(ts), i)
BY JoinOf DEF Owns

LEMMA AllOwns ==
  ASSUME NEW S, NEW r, NEW i, \A t \in DOMAIN Home : t \in S => Home[t] = i
  PROVE  Owns(All(S, r), i)
BY DEF Owns, All

\* Each part of the table has names of its own.
LEMMA FileHandleOwns == Owns(FileHandle, 3)
BY DEF Owns, Home, FileHandle

LEMMA StructuresOwns == Owns(Structures, 5)
BY DEF Owns, Home, Structures

LEMMA StateOwns == Owns(State, 7)
BY DEF Owns, Home, State

LEMMA AccessCloseCommitOwns == Owns(AccessCloseCommit, 8)
BY DEF Owns, Home, AccessCloseCommit

LEMMA CreateDelegOwns == Owns(CreateDeleg, 9)
BY DEF Owns, Home, CreateDeleg

LEMMA GetAndLinkOwns == Owns(GetAndLink, 10)
BY DEF Owns, Home, GetAndLink

LEMMA LockersOwns == Owns(Lockers, 11)
BY DEF Owns, Home, Lockers

LEMMA LockAndTestOwns == Owns(LockAndTest, 12)
BY DEF Owns, Home, LockAndTest

LEMMA UnlockAndLookupOwns == Owns(UnlockAndLookup, 13)
BY DEF Owns, Home, UnlockAndLookup

LEMMA OpenArgumentsOwns == Owns(OpenArguments, 15)
BY DEF Owns, Home, OpenArguments

LEMMA OpenResultsOwns == Owns(OpenResults, 16)
BY DEF Owns, Home, OpenResults

LEMMA OpenOthersOwns == Owns(OpenOthers, 17)
BY DEF Owns, Home, OpenOthers

LEMMA PutAndReadOwns == Owns(PutAndRead, 18)
BY DEF Owns, Home, PutAndRead

LEMMA ReadDirectoryOwns == Owns(ReadDirectory, 19)
BY DEF Owns, Home, ReadDirectory

LEMMA ReadlinkToRenameOwns == Owns(ReadlinkToRename, 20)
BY DEF Owns, Home, ReadlinkToRename

LEMMA RenewToSecinfoOwns == Owns(RenewToSecinfo, 21)
BY DEF Owns, Home, RenewToSecinfo

LEMMA SetOperationsOwns == Owns(SetOperations, 22)
BY DEF Owns, Home, SetOperations

LEMMA VerifyAndWriteOwns == Owns(VerifyAndWrite, 23)
BY DEF Owns, Home, VerifyAndWrite

LEMMA CompoundOwns == Owns(Compound, 25)
BY DEF Owns, Home, Compound

LEMMA CallbackOperationsOwns == Owns(CallbackOperations, 26)
BY DEF Owns, Home, CallbackOperations

LEMMA CallbackOwns == Owns(Callback, 27)
BY DEF Owns, Home, Callback

LEMMA LibraryOwns == Owns(Library, 1)
<1>1. Owns(All({"uint32_t", "u_int", "enum", "bool"}, Units(1)), 1)
  <2>1. \A t \in DOMAIN Home : t \in {"uint32_t", "u_int", "enum", "bool"} => Home[t] = 1
    BY DEF Home
  <2> QED BY <2>1, AllOwns
<1>2. Owns(All({"uint64_t", "int64_t"}, Units(2)), 1)
  <2>1. \A t \in DOMAIN Home : t \in {"uint64_t", "int64_t"} => Home[t] = 1
    BY DEF Home
  <2> QED BY <2>1, AllOwns
<1>3. Owns([void |-> Units(0)], 1)
  BY DEF Owns, Home
<1> DEFINE ts == <<All({"uint32_t", "u_int", "enum", "bool"}, Units(1)),
                  All({"uint64_t", "int64_t"}, Units(2)),
                  [void |-> Units(0)]>>
<1>4. \A k \in DOMAIN ts : Owns(ts[k], 1)
  <2>1. DOMAIN ts = 1 .. 3
    OBVIOUS
  <2> QED BY <2>1, <1>1, <1>2, <1>3
<1> HIDE DEF ts
<1>5. Owns(Join(ts), 1)
  BY <1>4, JoinOwns
<1> QED BY <1>5 DEF Library, ts

LEMMA NumbersOwns == Owns(Numbers, 2)
<1>1. Owns(All({"nfs_ftype4", "nfsstat4"}, Enum), 2)
  <2>1. \A t \in DOMAIN Home : t \in {"nfs_ftype4", "nfsstat4"} => Home[t] = 2
    BY DEF Home
  <2> QED BY <2>1, AllOwns
<1>2. Owns(All({"changeid4", "clientid4", "length4", "nfs_cookie4"}, Double), 2)
  <2>1. \A t \in DOMAIN Home : t \in {"changeid4", "clientid4", "length4", "nfs_cookie4"}
        => Home[t] = 2
    BY DEF Home
  <2> QED BY <2>1, AllOwns
<1>3. Owns(All({"count4", "mode4"}, Word), 2)
  <2>1. \A t \in DOMAIN Home : t \in {"count4", "mode4"} => Home[t] = 2
    BY DEF Home
  <2> QED BY <2>1, AllOwns
<1>4. Owns([attrlist4 |-> Bytes(NOLIMIT), bitmap4 |-> Array("uint32_t")], 2)
  BY DEF Owns, Home
<1> DEFINE ts == <<All({"nfs_ftype4", "nfsstat4"}, Enum),
                  All({"changeid4", "clientid4", "length4", "nfs_cookie4"}, Double),
                  All({"count4", "mode4"}, Word),
                  [attrlist4 |-> Bytes(NOLIMIT), bitmap4 |-> Array("uint32_t")]>>
<1>5. \A k \in DOMAIN ts : Owns(ts[k], 2)
  <2>1. DOMAIN ts = 1 .. 4
    OBVIOUS
  <2> QED BY <2>1, <1>1, <1>2, <1>3, <1>4
<1> HIDE DEF ts
<1>6. Owns(Join(ts), 2)
  BY <1>5, JoinOwns
<1> QED BY <1>6 DEF Numbers, ts

LEMMA NamesOwns == Owns(Names, 4)
<1>1. Owns(All({"nfs_lease4", "qop4", "seqid4"}, Word), 4)
  <2>1. \A t \in DOMAIN Home : t \in {"nfs_lease4", "qop4", "seqid4"} => Home[t] = 4
    BY DEF Home
  <2> QED BY <2>1, AllOwns
<1>2. Owns([offset4 |-> Double], 4)
  BY DEF Owns, Home
<1>3. Owns(All({"sec_oid4", "utf8string", "linktext4"}, Bytes(NOLIMIT)), 4)
  <2>1. \A t \in DOMAIN Home : t \in {"sec_oid4", "utf8string", "linktext4"} => Home[t] = 4
    BY DEF Home
  <2> QED BY <2>1, AllOwns
<1>4. Owns(All({"utf8str_cis", "utf8str_cs", "utf8str_mixed", "ascii_REQUIRED4"},
      Calls(<<"utf8string">>)), 4)
  <2>1. \A t \in DOMAIN Home : t \in {"utf8str_cis", "utf8str_cs", "utf8str_mixed",
        "ascii_REQUIRED4"} => Home[t] = 4
    BY DEF Home
  <2> QED BY <2>1, AllOwns
<1>5. Owns([component4 |-> Calls(<<"utf8str_cs">>), pathname4 |-> Array("component4")], 4)
  BY DEF Owns, Home
<1> DEFINE ts == <<All({"nfs_lease4", "qop4", "seqid4"}, Word),
                  [offset4 |-> Double],
                  All({"sec_oid4", "utf8string", "linktext4"}, Bytes(NOLIMIT)),
                  All({"utf8str_cis", "utf8str_cs", "utf8str_mixed", "ascii_REQUIRED4"},
                    Calls(<<"utf8string">>)),
                  [component4 |-> Calls(<<"utf8str_cs">>), pathname4 |-> Array("component4")]>>
<1>6. \A k \in DOMAIN ts : Owns(ts[k], 4)
  <2>1. DOMAIN ts = 1 .. 5
    OBVIOUS
  <2> QED BY <2>1, <1>1, <1>2, <1>3, <1>4, <1>5
<1> HIDE DEF ts
<1>7. Owns(Join(ts), 4)
  BY <1>6, JoinOwns
<1> QED BY <1>7 DEF Names, ts

LEMMA OpenHowOwns == Owns(OpenHow, 14)
<1>1. Owns(All({"createmode4", "opentype4", "limit_by4", "open_delegation_type4"}, Enum), 14)
  <2>1. \A t \in DOMAIN Home : t \in {"createmode4", "opentype4", "limit_by4",
        "open_delegation_type4"} => Home[t] = 14
    BY DEF Home
  <2> QED BY <2>1, AllOwns
<1>2. Owns([createhow4 |-> Switch(Join(<<All({0, 1}, "fattr4"), Entry(2, "verifier4")>>), Refuse),
      openflag4 |-> Switch(Entry(1, "createhow4"), Break),
      nfs_modified_limit4 |-> Calls(<<"uint32_t", "uint32_t">>),
      nfs_space_limit4 |-> Switch(Join(<<Entry(1, "uint64_t"), Entry(2, "nfs_modified_limit4")>>),
      Refuse)], 14)
  BY DEF Owns, Home
<1> DEFINE ts == <<All({"createmode4", "opentype4", "limit_by4", "open_delegation_type4"}, Enum),
                  [createhow4 |-> Switch(Join(<<All({0, 1}, "fattr4"), Entry(2, "verifier4")>>),
                    Refuse), openflag4 |-> Switch(Entry(1, "createhow4"), Break),
                    nfs_modified_limit4 |-> Calls(<<"uint32_t", "uint32_t">>),
                    nfs_space_limit4 |-> Switch(Join(<<Entry(1, "uint64_t"),
                    Entry(2, "nfs_modified_limit4")>>), Refuse)]>>
<1>3. \A k \in DOMAIN ts : Owns(ts[k], 14)
  <2>1. DOMAIN ts = 1 .. 2
    OBVIOUS
  <2> QED BY <2>1, <1>1, <1>2
<1> HIDE DEF ts
<1>4. Owns(Join(ts), 14)
  BY <1>3, JoinOwns
<1> QED BY <1>4 DEF OpenHow, ts

LEMMA RequiredAttrsOwns == Owns(RequiredAttrs, 6)
<1>1. Owns(All({"fattr4_link_support", "fattr4_symlink_support", "fattr4_named_attr",
      "fattr4_unique_handles"}, Flag), 6)
  <2>1. \A t \in DOMAIN Home : t \in {"fattr4_link_support", "fattr4_symlink_support",
        "fattr4_named_attr", "fattr4_unique_handles"} => Home[t] = 6
    BY DEF Home
  <2> QED BY <2>1, AllOwns
<1>2. Owns([fattr4_supported_attrs |-> Calls(<<"bitmap4">>),
      fattr4_type |-> Calls(<<"nfs_ftype4">>), fattr4_fh_expire_type |-> Word,
      fattr4_change |-> Calls(<<"changeid4">>), fattr4_size |-> Double,
      fattr4_fsid |-> Calls(<<"fsid4">>), fattr4_lease_time |-> Calls(<<"nfs_lease4">>),
      fattr4_rdattr_error |-> Status, fattr4_acl |-> Array("nfsace4"),
      fattr4_aclsupport |-> Word], 6)
  BY DEF Owns, Home
<1> DEFINE ts == <<All({"fattr4_link_support", "fattr4_symlink_support", "fattr4_named_attr",
             "fattr4_unique_handles"}, Flag),
                  [fattr4_supported_attrs |-> Calls(<<"bitmap4">>),
                    fattr4_type |-> Calls(<<"nfs_ftype4">>), fattr4_fh_expire_type |-> Word,
                    fattr4_change |-> Calls(<<"changeid4">>), fattr4_size |-> Double,
                    fattr4_fsid |-> Calls(<<"fsid4">>),
                    fattr4_lease_time |-> Calls(<<"nfs_lease4">>), fattr4_rdattr_error |-> Status,
                    fattr4_acl |-> Array("nfsace4"), fattr4_aclsupport |-> Word]>>
<1>3. \A k \in DOMAIN ts : Owns(ts[k], 6)
  <2>1. DOMAIN ts = 1 .. 2
    OBVIOUS
  <2> QED BY <2>1, <1>1, <1>2
<1> HIDE DEF ts
<1>4. Owns(Join(ts), 6)
  BY <1>3, JoinOwns
<1> QED BY <1>4 DEF RequiredAttrs, ts

LEMMA FilesystemAttrsOwns == Owns(FilesystemAttrs, 6)
<1>1. Owns(All({"fattr4_archive", "fattr4_cansettime", "fattr4_case_insensitive",
      "fattr4_case_preserving", "fattr4_chown_restricted", "fattr4_hidden", "fattr4_homogeneous"},
      Flag), 6)
  <2>1. \A t \in DOMAIN Home : t \in {"fattr4_archive", "fattr4_cansettime",
        "fattr4_case_insensitive", "fattr4_case_preserving", "fattr4_chown_restricted",
        "fattr4_hidden", "fattr4_homogeneous"} => Home[t] = 6
    BY DEF Home
  <2> QED BY <2>1, AllOwns
<1>2. Owns(All({"fattr4_fileid", "fattr4_files_avail", "fattr4_files_free", "fattr4_files_total",
      "fattr4_maxfilesize"}, Double), 6)
  <2>1. \A t \in DOMAIN Home : t \in {"fattr4_fileid", "fattr4_files_avail", "fattr4_files_free",
        "fattr4_files_total", "fattr4_maxfilesize"} => Home[t] = 6
    BY DEF Home
  <2> QED BY <2>1, AllOwns
<1>3. Owns([fattr4_filehandle |-> Calls(<<"nfs_fh4">>),
      fattr4_fs_locations |-> Calls(<<"fs_locations4">>)], 6)
  BY DEF Owns, Home
<1> DEFINE ts == <<All({"fattr4_archive", "fattr4_cansettime", "fattr4_case_insensitive",
             "fattr4_case_preserving", "fattr4_chown_restricted", "fattr4_hidden",
             "fattr4_homogeneous"}, Flag),
                  All({"fattr4_fileid", "fattr4_files_avail", "fattr4_files_free",
                    "fattr4_files_total", "fattr4_maxfilesize"}, Double),
                  [fattr4_filehandle |-> Calls(<<"nfs_fh4">>),
                    fattr4_fs_locations |-> Calls(<<"fs_locations4">>)]>>
<1>4. \A k \in DOMAIN ts : Owns(ts[k], 6)
  <2>1. DOMAIN ts = 1 .. 3
    OBVIOUS
  <2> QED BY <2>1, <1>1, <1>2, <1>3
<1> HIDE DEF ts
<1>5. Owns(Join(ts), 6)
  BY <1>4, JoinOwns
<1> QED BY <1>5 DEF FilesystemAttrs, ts

LEMMA FileAttrsOwns == Owns(FileAttrs, 6)
<1>1. Owns(All({"fattr4_maxlink", "fattr4_maxname", "fattr4_numlinks"}, Word), 6)
  <2>1. \A t \in DOMAIN Home : t \in {"fattr4_maxlink", "fattr4_maxname", "fattr4_numlinks"}
        => Home[t] = 6
    BY DEF Home
  <2> QED BY <2>1, AllOwns
<1>2. Owns(All({"fattr4_maxread", "fattr4_maxwrite", "fattr4_mounted_on_fileid",
      "fattr4_quota_avail_hard", "fattr4_quota_avail_soft", "fattr4_quota_used"}, Double), 6)
  <2>1. \A t \in DOMAIN Home : t \in {"fattr4_maxread", "fattr4_maxwrite",
        "fattr4_mounted_on_fileid", "fattr4_quota_avail_hard", "fattr4_quota_avail_soft",
        "fattr4_quota_used"} => Home[t] = 6
    BY DEF Home
  <2> QED BY <2>1, AllOwns
<1>3. Owns(All({"fattr4_owner", "fattr4_owner_group"}, Calls(<<"utf8str_mixed">>)), 6)
  <2>1. \A t \in DOMAIN Home : t \in {"fattr4_owner", "fattr4_owner_group"} => Home[t] = 6
    BY DEF Home
  <2> QED BY <2>1, AllOwns
<1>4. Owns([fattr4_mimetype |-> Calls(<<"ascii_REQUIRED4">>), fattr4_mode |-> Calls(<<"mode4">>),
      fattr4_no_trunc |-> Flag, fattr4_rawdev |-> Calls(<<"specdata4">>)], 6)
  BY DEF Owns, Home
<1> DEFINE ts == <<All({"fattr4_maxlink", "fattr4_maxname", "fattr4_numlinks"}, Word),
                  All({"fattr4_maxread", "fattr4_maxwrite", "fattr4_mounted_on_fileid",
                    "fattr4_quota_avail_hard", "fattr4_quota_avail_soft", "fattr4_quota_used"},
                    Double),
                  All({"fattr4_owner", "fattr4_owner_group"}, Calls(<<"utf8str_mixed">>)),
                  [fattr4_mimetype |-> Calls(<<"ascii_REQUIRED4">>),
                    fattr4_mode |-> Calls(<<"mode4">>), fattr4_no_trunc |-> Flag,
                    fattr4_rawdev |-> Calls(<<"specdata4">>)]>>
<1>5. \A k \in DOMAIN ts : Owns(ts[k], 6)
  <2>1. DOMAIN ts = 1 .. 4
    OBVIOUS
  <2> QED BY <2>1, <1>1, <1>2, <1>3, <1>4
<1> HIDE DEF ts
<1>6. Owns(Join(ts), 6)
  BY <1>5, JoinOwns
<1> QED BY <1>6 DEF FileAttrs, ts

LEMMA SpaceAndTimeAttrsOwns == Owns(SpaceAndTimeAttrs, 6)
<1>1. Owns(All({"fattr4_space_avail", "fattr4_space_free", "fattr4_space_total",
      "fattr4_space_used"}, Double), 6)
  <2>1. \A t \in DOMAIN Home : t \in {"fattr4_space_avail", "fattr4_space_free",
        "fattr4_space_total", "fattr4_space_used"} => Home[t] = 6
    BY DEF Home
  <2> QED BY <2>1, AllOwns
<1>2. Owns(All({"fattr4_time_access", "fattr4_time_backup", "fattr4_time_create",
      "fattr4_time_delta", "fattr4_time_metadata", "fattr4_time_modify"}, Calls(<<"nfstime4">>)),
      6)
  <2>1. \A t \in DOMAIN Home : t \in {"fattr4_time_access", "fattr4_time_backup",
        "fattr4_time_create", "fattr4_time_delta", "fattr4_time_metadata", "fattr4_time_modify"}
        => Home[t] = 6
    BY DEF Home
  <2> QED BY <2>1, AllOwns
<1>3. Owns(All({"fattr4_time_access_set", "fattr4_time_modify_set"}, Calls(<<"settime4">>)), 6)
  <2>1. \A t \in DOMAIN Home : t \in {"fattr4_time_access_set", "fattr4_time_modify_set"}
        => Home[t] = 6
    BY DEF Home
  <2> QED BY <2>1, AllOwns
<1>4. Owns([fattr4_system |-> Flag], 6)
  BY DEF Owns, Home
<1> DEFINE ts == <<All({"fattr4_space_avail", "fattr4_space_free", "fattr4_space_total",
             "fattr4_space_used"}, Double),
                  All({"fattr4_time_access", "fattr4_time_backup", "fattr4_time_create",
                    "fattr4_time_delta", "fattr4_time_metadata", "fattr4_time_modify"},
                    Calls(<<"nfstime4">>)),
                  All({"fattr4_time_access_set", "fattr4_time_modify_set"},
                    Calls(<<"settime4">>)),
                  [fattr4_system |-> Flag]>>
<1>5. \A k \in DOMAIN ts : Owns(ts[k], 6)
  <2>1. DOMAIN ts = 1 .. 4
    OBVIOUS
  <2> QED BY <2>1, <1>1, <1>2, <1>3, <1>4
<1> HIDE DEF ts
<1>6. Owns(Join(ts), 6)
  BY <1>5, JoinOwns
<1> QED BY <1>6 DEF SpaceAndTimeAttrs, ts

LEMMA AttributesOwns == Owns(Attributes, 6)
<1> DEFINE ts == <<RequiredAttrs, FilesystemAttrs, FileAttrs, SpaceAndTimeAttrs>>
<1>1. \A k \in DOMAIN ts : Owns(ts[k], 6)
  <2>1. DOMAIN ts = 1 .. 4
    OBVIOUS
  <2> QED BY <2>1, RequiredAttrsOwns, FilesystemAttrsOwns, FileAttrsOwns, SpaceAndTimeAttrsOwns
<1> HIDE DEF ts
<1>2. Owns(Join(ts), 6)
  BY <1>1, JoinOwns
<1> QED BY <1>2 DEF Attributes, ts

LEMMA OpsOwns == Owns([nfs_argop4 |-> nfs_argop4, nfs_resop4 |-> nfs_resop4], 24)
<1>1. DOMAIN [nfs_argop4 |-> nfs_argop4, nfs_resop4 |-> nfs_resop4] = {"nfs_argop4", "nfs_resop4"}
  OBVIOUS
<1> QED BY <1>1 DEF Owns, Home

\* No name is in two parts of the table.
LEMMA PartsOwn == \A i \in 1 .. 27 : Owns(Parts[i], i)
BY LibraryOwns, NumbersOwns, FileHandleOwns, NamesOwns, StructuresOwns, AttributesOwns, StateOwns,
   AccessCloseCommitOwns, CreateDelegOwns, GetAndLinkOwns, LockersOwns, LockAndTestOwns,
   UnlockAndLookupOwns, OpenHowOwns, OpenArgumentsOwns, OpenResultsOwns, OpenOthersOwns,
   PutAndReadOwns, ReadDirectoryOwns, ReadlinkToRenameOwns, RenewToSecinfoOwns, SetOperationsOwns,
   VerifyAndWriteOwns, OpsOwns, CompoundOwns, CallbackOperationsOwns, CallbackOwns DEF Parts

\* The routine of a name is that of the part that has it.
LEMMA Found ==
  ASSUME NEW t \in DOMAIN Home, NEW j \in 1 .. 27, t \in DOMAIN Parts[j]
  PROVE  t \in Name /\ Routine[t] = Parts[j][t]
<1>1. DOMAIN Parts = 1 .. 27
  BY DEF Parts
<1>2. t \in DOMAIN Join(Parts)
  BY <1>1, JoinIn
<1>3. PICK i \in DOMAIN Parts : t \in DOMAIN Parts[i] /\ Join(Parts)[t] = Parts[i][t]
  BY <1>2, JoinOf
<1>4. Home[t] = i /\ Home[t] = j
  BY <1>1, <1>3, PartsOwn DEF Owns
<1> QED BY <1>2, <1>3, <1>4, RoutineParts DEF Name

\* The limits of the protocol are those of the routines.
LEMMA LimitRoutes ==
  \A t \in DOMAIN Limits : t \in Name /\ Routine[t] = Bytes(Limits[t])
<1>1. DOMAIN Limits = {"nfs_fh4", "owner", "id"} /\ DOMAIN Home = {"nfs_fh4", "owner", "id"}
  BY DEF Limits, Home
<1>2. /\ "nfs_fh4" \in DOMAIN FileHandle /\ FileHandle["nfs_fh4"] = Bytes(NFS4_FHSIZE)
      /\ "owner" \in DOMAIN State /\ State["owner"] = Owner
      /\ "id" \in DOMAIN State /\ State["id"] = Owner
  BY DEF FileHandle, State
<1>3. Parts[3] = FileHandle /\ Parts[7] = State /\ 3 \in 1 .. 27 /\ 7 \in 1 .. 27
  BY DEF Parts
<1>4. /\ "nfs_fh4" \in Name /\ Routine["nfs_fh4"] = Bytes(NFS4_FHSIZE)
      /\ "owner" \in Name /\ Routine["owner"] = Owner
      /\ "id" \in Name /\ Routine["id"] = Owner
  BY <1>1, <1>2, <1>3, Found
<1>5. /\ Limits["nfs_fh4"] = NFS4_FHSIZE /\ Limits["owner"] = NFS4_OPAQUE_LIMIT
      /\ Limits["id"] = NFS4_OPAQUE_LIMIT
  BY DEF Limits
<1> QED BY <1>1, <1>4, <1>5 DEF Owner

-----------------------------------------------------------------------------
(* What a procedure finds in its arguments.                                *)

\* Where decoding has taken a part, it has looked at its limit and allocated.
LEMMA UsableDecoded ==
  ASSUME NEW t \in Name, NEW w \in Seq(Nat), decode(t, w).ok, Ended(decode(t, w)),
         NEW n \in Nat, n <= Steps
  PROVE  LET D == decode(t, w)
         IN  Usable(Walk(Open("FREE", t, D.mem, <<>>, D.heap))[n], D.heap)
<1> DEFINE D == decode(t, w)
           d == Open("DECODE", t, <<>>, w, {})
           f == Open("FREE", t, D.mem, <<>>, D.heap)
           y == Walk(f)[n]
           z == Walk(d)[n]
           r == Top(z)
           v == Read(z)
           k == Steps - (n + 1)
<1> SUFFICES ASSUME Asks(y) PROVE Usable(y, D.heap)
  BY DEF Usable
<1>1. /\ d \in Handles /\ d.op = "DECODE" /\ d.ok /\ D \in Handles
      /\ Steps \in Nat /\ D = Walk(d)[Steps] /\ Together(z, y, D.heap) /\ y.mem = D.mem
  BY WalkTogether
<1>2. D.ok /\ Ended(D)
  OBVIOUS
<1>3. /\ ~Ended(z) /\ Head(z.todo)[1] # "release" /\ Steers(Top(z))
      /\ Head(y.todo) = Head(z.todo) /\ Top(y) = Top(z)
  <2>1. y.todo = z.todo
    BY <1>1 DEF Together
  <2> HIDE DEF y, z
  <2> QED BY <2>1 DEF Asks, Ended, Top
<1>4. n # Steps
  BY <1>1, <1>2, <1>3
<1>5. k \in Nat /\ n + 1 \in Nat /\ (n + 1) + k = Steps
  BY <1>1, <1>4
<1>6. Walk(d)[n + 1] = Advance(z)
  BY WalkStep
<1> HIDE DEF D, d, f, y, z, k
<1>7. Advance(z).ok
  <2>1. Walk(d)[(n + 1) + k].ok
    BY <1>1, <1>2, <1>5
  <2> QED BY <1>1, <1>5, <1>6, <2>1, DecodeOk
<1>8. Prefix(Advance(z).mem, D.mem)
  <2>1. Prefix(Walk(d)[n + 1].mem, Walk(d)[(n + 1) + k].mem)
    BY <1>1, <1>5, DecodePrefix
  <2> QED BY <1>1, <1>5, <1>6, <2>1
<1>9. Advance(z).heap \subseteq D.heap
  <2>1. Walk(d)[(n + 1) + k].ok => Walk(d)[n + 1].heap \subseteq Walk(d)[(n + 1) + k].heap
    BY <1>1, <1>5, DecodeHeap
  <2> QED BY <1>1, <1>2, <1>5, <1>6, <2>1
<1>10. /\ z \in Handles /\ z.op = "DECODE" /\ z.mem \in Seq(Nat) /\ z.pos \in Nat
       /\ Len(z.wire) \in Nat /\ y.at = Len(z.mem) + 1
  <2>1. z \in Handles /\ z.op = "DECODE" /\ y.at = Len(z.mem) + 1
    BY <1>1 DEF Together
  <2>2. z.mem \in Seq(Nat) /\ z.pos \in Place /\ z.wire \in Seq(Nat)
    BY <2>1 DEF Handles
  <2> QED BY <2>1, <2>2 DEF Place
<1>11. ~(z.pos > Len(z.wire))
  <2> SUFFICES ASSUME z.pos > Len(z.wire) PROVE FALSE
    OBVIOUS
  <2>1. Advance(z) = Fail(z)
    BY <1>3, <1>10, AdvanceSteers
  <2>2. ~Fail(z).ok
    BY <1>10, FailIs DEF Is
  <2> QED BY <1>7, <2>1, <2>2
<1>12. v \in Nat /\ Advance(z) = Step(z, v) /\ Shape(r) /\ z.pos <= Len(z.wire)
  BY <1>3, <1>10, <1>11, AdvanceSteers, TopShape
<1> HIDE DEF v, r
<1>13. ~Bad(r, v) /\ Is(Advance(z), "DECODE", More(r, v, Len(z.mem) + 1) \o Tail(z.todo),
         Append(z.mem, v), z.at, z.wire, z.pos + 1 + After(r, v),
         z.heap \cup New(r, v, Len(z.mem) + 1), z.ok)
  <2>1. ~(Bad(r, v) \/ z.pos + After(r, v) > Len(z.wire))
    <3> SUFFICES ASSUME Bad(r, v) \/ z.pos + After(r, v) > Len(z.wire) PROVE FALSE
      OBVIOUS
    <3>1. PICK p, h : Is(Advance(z), "DECODE", <<>>, Append(z.mem, v), z.at, z.wire, p, h, FALSE)
      BY <1>3, <1>10, <1>12, StepDecode DEF r
    <3> QED BY <1>7, <3>1 DEF Is
  <2> QED BY <1>3, <1>10, <1>12, <2>1, StepDecode DEF r
<1>14. Advance(z).mem = Append(z.mem, v) /\ New(r, v, Len(z.mem) + 1) \subseteq Advance(z).heap
  BY <1>13 DEF Is
<1>15. Stored(y) = v
  <2>1. D.mem \in Seq(Nat)
    BY <1>1 DEF Handles
  <2>2. Len(z.mem) + 1 <= Len(D.mem) /\ D.mem[Len(z.mem) + 1] = v
    <3> DEFINE a == z.mem
               b == D.mem
    <3>1. a \in Seq(Nat) /\ b \in Seq(Nat) /\ v \in Nat /\ Prefix(Append(a, v), b)
      BY <1>8, <1>10, <1>12, <1>14, <2>1
    <3> HIDE DEF a, b
    <3>2. Len(Append(a, v)) = Len(a) + 1 /\ Append(a, v)[Len(a) + 1] = v /\ Len(a) \in Nat
      BY <3>1
    <3>3. Len(a) + 1 <= Len(b) /\ b[Len(a) + 1] = v
      BY <3>1, <3>2 DEF Prefix
    <3> QED BY <3>3 DEF a, b
  <2> QED BY <1>1, <1>10, <2>2 DEF Stored
<1>16. Head(y.todo)[1] \in DOMAIN Limits => Stored(y) <= Limits[Head(y.todo)[1]]
  <2> SUFFICES ASSUME Head(y.todo)[1] \in DOMAIN Limits PROVE v <= Limits[Head(y.todo)[1]]
    BY <1>15
  <2> DEFINE m == Limits[Head(y.todo)[1]]
  <2>1. r = Bytes(m)
    BY <1>3, LimitRoutes DEF Top, r
  <2>2. m \in Nat
    <3>1. NFS4_FHSIZE \in Nat /\ NFS4_OPAQUE_LIMIT \in Nat
      BY LimitAssumption
    <3> QED BY <3>1 DEF Limits
  <2> HIDE DEF m
  <2>3. r.kind = "bytes" /\ r.max = m
    BY <2>1 DEF Bytes
  <2>4. ~(v > m)
    BY <1>13, <2>3 DEF Bad
  <2>5. v <= m
    BY <1>12, <2>2, <2>4
  <2> QED BY <2>5 DEF m
<1>17. Top(y).kind # "switch" /\ (Stored(y) > 0 \/ Top(y).kind = "string") => y.at \in D.heap
  <2> SUFFICES ASSUME r.kind # "switch" /\ (v > 0 \/ r.kind = "string") PROVE y.at \in D.heap
    BY <1>3, <1>15 DEF r
  <2>1. New(r, v, Len(z.mem) + 1) = {Len(z.mem) + 1}
    BY DEF New, Holds
  <2> QED BY <1>9, <1>10, <1>14, <2>1
<1>18. Usable(y, D.heap)
  BY <1>16, <1>17 DEF Usable
<1> QED BY <1>18

\* Whatever a request holds, what its procedure is given can be walked through
\* all operations: no file handle, owner or client id is above the protocol's
\* limit, and every object that the walk comes to was allocated, for every
\* request, every limit and every length of walk (prot_svc.c:46-51,
\* prot_xdr.c:114, 1037, 1049, 1061).
THEOREM GivesUsable == Spec => []ArgumentsUsable
<1>1. Delivers => ArgumentsUsable
  <2> DEFINE m == server.req
             p == Served
             x == decode(p.arg, m.wire)
             o == Open("FREE", p.arg, x.mem, <<>>, x.heap)
  <2> SUFFICES ASSUME Delivers, server.pc = "local"
               PROVE  \A k \in DOMAIN Path(Open("FREE", p.arg, server.args, <<>>, server.heap)) :
                        Usable(Path(Open("FREE", p.arg, server.args, <<>>, server.heap))[k], server.heap)
    BY Zenon DEF ArgumentsUsable
  <2>1. Serving(server)
    BY DEF Serving
  <2>2. /\ m.wire \in Seq(Nat) /\ m.prog \in Programs /\ m.proc \in {0, 1}
        /\ p = Dispatch[m.prog][m.proc] /\ Ended(x) /\ x.ok
        /\ server.args = x.mem /\ server.heap = x.heap
    BY <2>1, ServedIs DEF RequestOk, Letter, Known
  <2>3. p.arg \in Name
    BY <2>1, ServedIs
  <2>4. ASSUME NEW k \in DOMAIN Path(o) PROVE Usable(Path(o)[k], x.heap)
    <3>1. PICK n \in Nat : n <= Steps /\ Path(o)[k] = Walk(o)[n]
      BY <2>4, PathIs
    <3> HIDE DEF p, m
    <3>2. Usable(Walk(o)[n], x.heap)
      BY <2>2, <2>3, <3>1, UsableDecoded
    <3> QED BY <3>1, <3>2
  <2> QED BY <2>2, <2>4
<1> QED BY SpecDelivers, <1>1, PTL

-----------------------------------------------------------------------------
(* Starting again after being killed.                                      *)

\* What main still has to register when it is at l.
Later(l) ==
  CASE l \in {"udp", "program udp"} ->
         {<<"NFS4_PROGRAM", "udp">>, <<"NFS4_CALLBACK", "udp">>,
          <<"NFS4_PROGRAM", "tcp">>, <<"NFS4_CALLBACK", "tcp">>}
    [] l = "callback udp" ->
         {<<"NFS4_CALLBACK", "udp">>, <<"NFS4_PROGRAM", "tcp">>, <<"NFS4_CALLBACK", "tcp">>}
    [] l \in {"tcp", "program tcp"} -> {<<"NFS4_PROGRAM", "tcp">>, <<"NFS4_CALLBACK", "tcp">>}
    [] l = "callback tcp" -> {<<"NFS4_CALLBACK", "tcp">>}
    [] OTHER -> {}

\* Unless unmapping has failed, nothing is mapped that is still to be registered.
Room ==
  ~server.stale => \A prog, prot : <<prog, prot>> \in Later(server.pc) => ~Mapped(prog, prot)

IInv == DOMAIN server = Fields /\ StartsAgain /\ Room

\* What a registration at l leaves to be registered.
LEMMA Order ==
  /\ <<"NFS4_PROGRAM", "udp">> \in Later("program udp")
  /\ Later("callback udp") \subseteq Later("program udp") \ {<<"NFS4_PROGRAM", "udp">>}
  /\ <<"NFS4_CALLBACK", "udp">> \in Later("callback udp")
  /\ Later("tcp") \subseteq Later("callback udp") \ {<<"NFS4_CALLBACK", "udp">>}
  /\ <<"NFS4_PROGRAM", "tcp">> \in Later("program tcp")
  /\ Later("callback tcp") \subseteq Later("program tcp") \ {<<"NFS4_PROGRAM", "tcp">>}
  /\ <<"NFS4_CALLBACK", "tcp">> \in Later("callback tcp")
  /\ Later("svc_run") = {}
<1>1. /\ \A prog : <<prog, "udp">> # <<"NFS4_PROGRAM", "tcp">>
      /\ \A prog : <<prog, "udp">> # <<"NFS4_CALLBACK", "tcp">>
      /\ \A prot : <<"NFS4_PROGRAM", prot>> # <<"NFS4_CALLBACK", prot>>
  OBVIOUS
<1>2. Later("program udp") = {<<"NFS4_PROGRAM", "udp">>, <<"NFS4_CALLBACK", "udp">>,
                              <<"NFS4_PROGRAM", "tcp">>, <<"NFS4_CALLBACK", "tcp">>}
  BY DEF Later
<1>3. Later("callback udp") = {<<"NFS4_CALLBACK", "udp">>, <<"NFS4_PROGRAM", "tcp">>,
                               <<"NFS4_CALLBACK", "tcp">>}
  BY DEF Later
<1>4. Later("tcp") = {<<"NFS4_PROGRAM", "tcp">>, <<"NFS4_CALLBACK", "tcp">>}
      /\ Later("program tcp") = Later("tcp")
  BY DEF Later
<1>5. Later("callback tcp") = {<<"NFS4_CALLBACK", "tcp">>} /\ Later("svc_run") = {}
  BY DEF Later
<1>6. /\ <<"NFS4_PROGRAM", "udp">> \in Later("program udp")
      /\ Later("callback udp") \subseteq Later("program udp") \ {<<"NFS4_PROGRAM", "udp">>}
  BY <1>1, <1>2, <1>3, Zenon
<1>7. /\ <<"NFS4_CALLBACK", "udp">> \in Later("callback udp")
      /\ Later("tcp") \subseteq Later("callback udp") \ {<<"NFS4_CALLBACK", "udp">>}
  BY <1>1, <1>3, <1>4, Zenon
<1>8. /\ <<"NFS4_PROGRAM", "tcp">> \in Later("program tcp")
      /\ Later("callback tcp") \subseteq Later("program tcp") \ {<<"NFS4_PROGRAM", "tcp">>}
  BY <1>1, <1>4, <1>5, Zenon
<1> QED BY <1>5, <1>6, <1>7, <1>8

LEMMA InitIInv == Init => IInv
<1> SUFFICES ASSUME Init PROVE IInv
  OBVIOUS
<1>1. DOMAIN server = Fields
  BY DEF Init, Fields
<1>2. server.pc = "exited" /\ server.why = ""
  BY DEF Init
<1>3. Later(server.pc) = {}
  BY <1>2 DEF Later
<1> QED BY <1>1, <1>2, <1>3 DEF IInv, StartsAgain, Room

\* Steps that go on, or end a request, without main.
LEMMA Elsewhere ==
  ASSUME IInv, DOMAIN server' = Fields, server'.why = server.why,
         server'.stale = server.stale,
         Later(server'.pc) = {} \/ (server'.pc = server.pc /\ pmap' = pmap)
  PROVE  IInv'
BY DEF IInv, StartsAgain, Room, Mapped

\* Exits for another reason than a mapping.
LEMMA Exits ==
  ASSUME IInv, NEW why, why # "mapped", Exit(why)
  PROVE  IInv'
BY DEF IInv, Exit, Fields, StartsAgain, Room, Later

LEMMA Registers ==
  ASSUME IInv, NEW at, NEW prog, NEW prot, NEW next,
         svc_register(at, prog, prot, next),
         <<prog, prot>> \in Later(at),
         Later(next) \subseteq Later(at) \ {<<prog, prot>>}
  PROVE  IInv'
<1>1. CASE /\ ~Mapped(prog, prot) /\ pmap' = pmap \cup {<<prog, prot, server.run>>}
           /\ Goto(next)
  <2>1. DOMAIN server' = Fields /\ server'.why = server.why /\ server'.stale = server.stale
        /\ server'.pc = next
    BY <1>1 DEF IInv, Fields, Goto
  <2>2. ASSUME ~server.stale, NEW p, NEW t, <<p, t>> \in Later(next)
        PROVE  ~Mapped(p, t)'
    <3>1. server.pc = at /\ <<p, t>> \in Later(at) /\ <<p, t>> # <<prog, prot>>
      BY <2>2 DEF svc_register
    <3>2. ~Mapped(p, t)
      BY <2>2, <3>1 DEF IInv, Room
    <3> QED BY <1>1, <3>1, <3>2 DEF Mapped
  <2> QED BY <2>1, <2>2 DEF IInv, StartsAgain, Room
<1>2. CASE Mapped(prog, prot) /\ Exit("mapped")
  <2>1. server.pc = at BY DEF svc_register
  <2>2. server.stale
    BY <1>2, <2>1 DEF IInv, Room
  <2> QED BY <1>2, <2>2 DEF IInv, Exit, Fields, StartsAgain, Room, Later
<1>3. CASE Exit("portmapper")
  BY <1>3, Exits
<1> QED BY <1>1, <1>2, <1>3 DEF svc_register

LEMMA Mains == ASSUME IInv, main PROVE IInv'
<1>1. CASE pmap_unset
  <2>1. DOMAIN server' = Fields /\ server'.why = server.why /\ server'.pc = "udp"
    BY <1>1 DEF pmap_unset, Goto, IInv, Fields
  <2>2. CASE pmap' = {} /\ Goto("udp")
    BY <2>1, <2>2 DEF IInv, StartsAgain, Room, Mapped, Goto, Fields
  <2>3. CASE server' = [server EXCEPT !.pc = "udp", !.stale = TRUE]
    BY <2>1, <2>3 DEF IInv, StartsAgain, Room, Fields
  <2> QED BY <1>1, <2>2, <2>3 DEF pmap_unset
<1>2. ASSUME NEW prot, NEW next, Create(prot, next), Later(next) \subseteq Later(prot)
      PROVE  IInv'
  <2>1. CASE Goto(next)
    BY <1>2, <2>1 DEF Create, Goto, IInv, Fields, StartsAgain, Room, Mapped
  <2>2. CASE Exit("socket")
    BY <2>2, Exits
  <2> QED BY <1>2, <2>1, <2>2 DEF Create
<1>3. CASE Create("udp", "program udp")
  BY <1>2, <1>3 DEF Later
<1>4. CASE svc_register("program udp", "NFS4_PROGRAM", "udp", "callback udp")
  BY <1>4, Registers, Order
<1>5. CASE svc_register("callback udp", "NFS4_CALLBACK", "udp", "tcp")
  BY <1>5, Registers, Order
<1>6. CASE Create("tcp", "program tcp")
  BY <1>2, <1>6 DEF Later
<1>7. CASE svc_register("program tcp", "NFS4_PROGRAM", "tcp", "callback tcp")
  BY <1>7, Registers, Order
<1>8. CASE svc_register("callback tcp", "NFS4_CALLBACK", "tcp", "svc_run")
  BY <1>8, Registers, Order
<1> QED BY <1>1, <1>3, <1>4, <1>5, <1>6, <1>7, <1>8 DEF main

LEMMA Serves == ASSUME IInv, serve PROVE IInv'
<1>1. ASSUME NEW m \in net, svcerr_noproc(m) PROVE IInv'
  BY <1>1, Elsewhere DEF svcerr_noproc, IInv
<1>2. ASSUME NEW m \in net, svc_getargs(m) PROVE IInv'
  <2> PICK x : \/ server' = [server EXCEPT !.pc = "local", !.req = m, !.args = x.mem,
                                            !.heap = x.heap]
                \/ \E freed \in BOOLEAN :
                     server' = [server EXCEPT !.lost = @ \/ (~freed /\ x.heap # {})]
    BY <1>2 DEF svc_getargs
  <2> QED BY <1>2, Elsewhere DEF svc_getargs, IInv, Fields, Later
<1>3. CASE Local
  <2>1. \/ server' = [server EXCEPT !.pc = "reply", !.x = encode(Served.res)]
        \/ server' = [server EXCEPT !.pc = "free"]
    BY <1>3 DEF Local, Goto
  <2> QED BY <2>1, Elsewhere DEF IInv, Fields, Later
<1>4. CASE EncodeReply
  <2> PICK e : server' = [server EXCEPT !.x = e[1]]
    BY <1>4 DEF EncodeReply
  <2> QED BY <1>4, Elsewhere DEF EncodeReply, IInv, Fields
<1>5. CASE svc_sendreply
  <2>1. server' = [server EXCEPT !.pc = "free"]
    BY <1>5 DEF svc_sendreply, Goto
  <2> QED BY <2>1, Elsewhere DEF IInv, Fields, Later
<1>6. CASE svc_freeargs
  <2>1. PICK x : IF x.ok
                 THEN server' = [server EXCEPT !.pc = "svc_run", !.req = NoRequest,
                                   !.args = <<>>, !.heap = x.heap, !.x = Unused]
                 ELSE Exit("freeargs")
    BY <1>6 DEF svc_freeargs
  <2>2. CASE x.ok
    <3>1. DOMAIN server' = Fields /\ server'.why = server.why /\ server'.stale = server.stale
          /\ server'.pc = "svc_run"
      BY <2>1, <2>2 DEF IInv, Fields
    <3> QED BY <3>1, Elsewhere, Order
  <2> QED BY <2>1, <2>2, Exits
<1> QED BY <1>1, <1>2, <1>3, <1>4, <1>5, <1>6 DEF serve

LEMMA NextIInv == IInv /\ [Next]_vars => IInv'
<1> SUFFICES ASSUME IInv, [Next]_vars PROVE IInv'
  OBVIOUS
<1>1. CASE Start
  BY <1>1 DEF Start, IInv, Fields, StartsAgain, Room, Later
<1>2. CASE Die
  BY <1>2, Exits DEF Die
<1>3. CASE UNCHANGED <<server, pmap>>
  BY <1>3, Elsewhere DEF IInv
<1>4. CASE program \/ clnt \/ Retransmit \/ (\E m \in net : Ignore(m)) \/ Network
  BY <1>3, <1>4 DEF program, Call, Pack, clnt, EncodeArg, Send, Timeout, Unpack, Receive,
    Retransmit, Ignore, Network, Stray, Lose, Garble
<1> QED BY <1>1, <1>2, <1>3, <1>4, Mains, Serves DEF Next, vars

\* svc_register never meets a mapping that an earlier run of the server has
\* left, unless pmap_unset failed: wherever the earlier run was killed
\* (prot_svc.c:105-145).
THEOREM CanRestart == Spec => []StartsAgain
<1>1. IInv => StartsAgain
  BY DEF IInv
<1> QED BY InitIInv, NextIInv, <1>1, PTL DEF Spec
=============================================================================
