------------------------------- MODULE Tokens -------------------------------
(***************************************************************************)
(* A caller of strtok and strtoul, as shell_proc is one: it takes the      *)
(* tokens of a line one by one until strtok answers NULL and converts each *)
(* with strtoul.  Every line over Alphabet of at most MaxLen characters is *)
(* tried; what the calls return is compared with reference definitions.    *)
(***************************************************************************)
EXTENDS Words

CONSTANTS
  Alphabet,  \* the characters of a line
  MaxLen,    \* bound on the length of a line
  Bases,     \* the bases strtoul is called with
  MaxULong   \* ULONG_MAX, the largest unsigned long

ASSUME TokensAssumption ==
  /\ Alphabet \subseteq Nat \ {NUL} /\ MaxLen \in Nat
  /\ MaxULong \in Nat /\ Bases \subseteq {0} \cup 2 .. 36

VARIABLES
  typed, \* the line, as the caller wrote it
  cut,   \* the memory strtok works in
  olds,  \* strtok's static pointer
  toks,  \* the tokens returned so far
  done,  \* strtok has answered NULL
  conv   \* <<base, result>> of strtoul on the last token, or <<>>

tokenVars == <<typed, cut, olds, toks, done, conv>>

Memory(s) == [i \in 0 .. Len(s) |-> IF i < Len(s) THEN s[i + 1] ELSE NUL]

TokensInit ==
  /\ typed \in BoundedSeq(Alphabet, MaxLen)
  /\ cut = Memory(typed)
  /\ olds = 0 /\ toks = <<>> /\ done = FALSE /\ conv = <<>>

\* The first call passes the line, the later ones NULL.
Token ==
  /\ ~done
  /\ LET r == strtok(cut, olds, IF toks = <<>> THEN 0 ELSE NULLPTR, {SPACE})
     IN  /\ cut' = r.m /\ olds' = r.olds
         /\ done' = (r.tok = NULLPTR)
         /\ toks' = IF r.tok = NULLPTR THEN toks ELSE Append(toks, StrAt(r.m, r.tok))
  /\ conv' = <<>>
  /\ UNCHANGED typed

Convert(base) ==
  /\ toks # <<>> /\ conv = <<>>
  /\ conv' = <<base, strtoul(Last(toks), base, MaxULong)>>
  /\ UNCHANGED <<typed, cut, olds, toks, done>>

TokensNext == Token \/ \E base \in Bases : Convert(base)

TokensSpec == TokensInit /\ [][TokensNext]_tokenVars

-----------------------------------------------------------------------------
(* The calls of strtok return the words of the line, in order, none lost,  *)
(* none twice, none empty (strtok.c:12-31 through its static olds).        *)
TokensAreWords ==
  /\ IsPrefix(toks, Words(typed))
  /\ done => toks = Words(typed)

(* strtok's only writes turn the space that ends a returned token into a   *)
(* NUL (strtok.c:28): the rest of the line is as the caller wrote it.      *)
CutsOnlyDelimiters ==
  \A i \in 1 .. Len(typed) :
     cut[i - 1] # typed[i] => /\ cut[i - 1] = NUL /\ typed[i] = SPACE
                              /\ i > 1 /\ typed[i - 1] # SPACE

(* strtoul saturates at MaxULong exactly when the numeral exceeds it, and  *)
(* is the numeral's value, negated modulo 2^32 after a minus, below it     *)
(* (strtoul.c:31-54): overflow never yields a small wrapped address.       *)
StrtoulSaturates ==
  conv # <<>> => conv[2] = Value(Last(toks), conv[1], MaxULong)
=============================================================================
