------------------------------- MODULE Divmod -------------------------------
(***************************************************************************)
(* divmod_u64 of src/libk/stdio/printf.c: long division in base 2 by       *)
(* shifting the divisor.  The number has LONG bits, the divisor only INT.  *)
(***************************************************************************)
EXTENDS Integers, Sequences, FiniteSetsExt, SequencesExt

CONSTANTS INT, LONG  \* bits of uint32_t and uint64_t

ASSUME DivmodAssumption == INT \in Nat /\ LONG \in Nat /\ INT < LONG

\* Mutant: base may grow up to n itself.
Shifts_PastHalf(n, base) == {k \in 0 .. INT : (base * 2^k) % 2^INT > n}

\* The numbers of shifts after which the first loop may end: it ends after the
\* least one, and never when there is none.
Shifts(n, base) == {k \in 0 .. INT : (base * 2^k) % 2^INT > n \div 2}

\* The second loop, from bit k of the quotient down to bit 0.
Divide(n, base, k) ==
  LET turn[j \in 0 .. k + 1] ==
        IF j = 0 THEN [n |-> n, result |-> 0]
        ELSE LET s       == turn[j - 1]
                 shifted == ((base * 2^k) % 2^INT) \div 2^(j - 1)
             IN  IF s.n >= shifted
                 THEN [n |-> s.n - shifted, result |-> s.result + 2^(k - j + 1)] ELSE s
  IN  turn[k + 1]

\* The remainder n and the quotient result.
divmod_u64(n, base) == Divide(n, base, Min(Shifts(n, base)))
=============================================================================
