-------------------------------- MODULE Xdr --------------------------------
(***************************************************************************)
(* The XDR library as the routines of Nfs4Types use it: one routine walks  *)
(* a value to encode, to decode or to free it.                             *)
(*                                                                         *)
(* A handle x has the routines that are still to be called (todo), the     *)
(* value (mem) as the sequence of those parts that steer the walk, namely  *)
(* discriminants, lengths and pointers, the stream (wire) and the memory   *)
(* that decoding has allocated (heap), each object named by the place in   *)
(* mem of the pointer to it.  All other data is DATA.  Storage past the    *)
(* end of mem is zero: the callers clear the value before they decode.     *)
(***************************************************************************)
EXTENDS Nfs4Types

CONSTANT MaxWalk  \* bound on the calls of routines in one walk, in eights

ASSUME WalkAssumption == MaxWalk \in Nat

DATA == 7

Open(op, t, mem, wire, heap) ==
  [op |-> op, todo |-> << <<t, 0>> >>, mem |-> mem, at |-> 1, wire |-> wire, pos |-> 1,
   heap |-> heap, ok |-> TRUE]

Ended(x) == x.todo = <<>>

Return(x) == [x EXCEPT !.todo = Tail(@)]

Continue(x, ts) == [x EXCEPT !.todo = ts \o Tail(@)]

\* return FALSE, through all callers; when freeing, the array or pointer whose
\* element failed is freed all the same.
Fail(x) ==
  [x EXCEPT !.ok = FALSE, !.todo = <<>>,
            !.heap = IF x.op = "FREE" THEN @ \ {x.todo[i][2] : i \in DOMAIN x.todo} ELSE @]

\* A part v of the value is encoded, decoded or passed.
Take(x, v) ==
  CASE x.op = "ENCODE" -> [x EXCEPT !.mem = Append(@, v), !.wire = Append(@, v)]
    [] x.op = "DECODE" -> [x EXCEPT !.mem = Append(@, v), !.pos = @ + 1]
    [] x.op = "FREE"   -> [x EXCEPT !.at = @ + 1]

\* Where the part last taken is.
Slot(x) == IF x.op = "FREE" THEN x.at - 1 ELSE Len(x.mem)

Alloc(x)      == IF x.op = "DECODE" THEN [x EXCEPT !.heap = @ \cup {Slot(x)}] ELSE x
Free(x, slot) == IF x.op = "FREE" THEN [x EXCEPT !.heap = @ \ {slot}] ELSE x

\* The only member of S.  What an operator is to look at more than once is
\* handed to it as an element of a set, so that TLC evaluates it once.
The(S) == CHOOSE y \in S : TRUE

\* xdr_opaque and the scalars.
xdr_units(x, n) ==
  CASE x.op = "ENCODE" -> [Return(x) EXCEPT !.wire = @ \o [i \in 1 .. n |-> DATA]]
    [] x.op = "DECODE" -> IF x.pos + n - 1 > Len(x.wire) THEN Fail(x)
                          ELSE [Return(x) EXCEPT !.pos = @ + n]
    [] x.op = "FREE"   -> Return(x)

\* A routine that calls others, each as an argument of "if (!...)".
xdr_calls(x, ts) == Continue(x, [i \in DOMAIN ts |-> <<ts[i], 0>>])

\* A routine with a switch on the discriminant v.
xdr_switch(x, v, r) ==
  IF v \in DOMAIN r.arms THEN Continue(x, << <<r.arms[v], 0>> >>)
  ELSE IF r.dflt THEN Return(x) ELSE Fail(x)

\* v bytes with their pointer, which is NULL when there is nothing to hold.
xdr_bytes(x, v, max, held) ==
  IF x.op = "FREE" THEN Free(Return(x), Slot(x))
  ELSE IF v > max THEN Fail(x)
  ELSE The({xdr_units(y, (v + 3) \div 4) : y \in {IF held THEN Alloc(x) ELSE x}})

\* v elements in one object, freed after them: xdr_array and xdr_pointer.
xdr_elements(x, v, t) ==
  IF v = 0 THEN Return(x)
  ELSE Continue(Alloc(x), [i \in 1 .. v |-> <<t, 0>>] \o << <<"release", Slot(x)>> >>)

Steers(r) == r.kind \in {"switch", "bytes", "string", "array", "pointer"}

\* The routine r is called, and takes no part of the value itself ...
Call0(x, r) == IF r.kind = "units" THEN xdr_units(x, r.n) ELSE xdr_calls(x, r.of)

\* ... or has taken the part v.
Call1(x, r, v) ==
  CASE r.kind = "switch" -> xdr_switch(x, v, r)
    [] r.kind = "bytes"  -> xdr_bytes(x, v, r.max, v > 0)
    [] r.kind = "string" -> xdr_bytes(x, v, r.max, TRUE)
    [] r.kind \in {"array", "pointer"} -> xdr_elements(x, v, r.of)

Top(x) == Routine[Head(x.todo)[1]]

Step(x, v) == The({Call1(y, Top(x), v) : y \in {Take(x, v)}})

-----------------------------------------------------------------------------
(* Decoding and freeing as a whole, which nobody observes half done, and   *)
(* encoding up to the next part that is to be chosen.                      *)

IsBool(r) == r.kind = "pointer" \/ (r.kind = "switch" /\ r.disc = "bool")

\* xdr_bool makes 1 of every word but 0.
Read(x) ==
  LET w == x.wire[x.pos]
  IN  IF IsBool(Top(x)) /\ w # 0 THEN 1 ELSE w

Stored(x) == IF x.at <= Len(x.mem) THEN x.mem[x.at] ELSE 0

Advance(x) ==
  IF Ended(x) THEN x
  ELSE IF Head(x.todo)[1] = "release" THEN Free(Return(x), Head(x.todo)[2])
  ELSE IF ~Steers(Top(x)) THEN Call0(x, Top(x))
  ELSE CASE x.op = "ENCODE" -> x
         [] x.op = "DECODE" -> IF x.pos > Len(x.wire) THEN Fail(x)
                               ELSE The({Step(x, v) : v \in {Read(x)}})
         [] x.op = "FREE"   -> The({Step(x, v) : v \in {Stored(x)}})

Advance8(x) ==
  LET go[k \in Nat] == IF k = 0 THEN x ELSE The({Advance(y) : y \in {go[k - 1]}})
  IN  IF Ended(x) THEN x ELSE go[8]

\* A walk that is longer than MaxWalk allows comes back before it has ended.
Run(x) ==
  LET run[k \in Nat] == IF k = 0 THEN x ELSE The({Advance8(y) : y \in {run[k - 1]}})
  IN  run[MaxWalk]

\* What x comes to on its way, in order.
Path(x) ==
  LET path[k \in Nat] ==
        IF k = 0 THEN <<x>>
        ELSE The({Append(p, Advance(p[Len(p)])) : p \in {path[k - 1]}})
  IN  path[8 * MaxWalk]

encode(t)          == Run(Open("ENCODE", t, <<>>, <<>>, {}))
decode(t, wire)    == Run(Open("DECODE", t, <<>>, wire, {}))
free(t, mem, heap) == Run(Open("FREE", t, mem, <<>>, heap))

\* A handle that nobody uses.
Unused == encode("void")

-----------------------------------------------------------------------------
(* The values that are encoded: while encoding a value its parts are       *)
(* chosen.  The plain choice is an arm, one byte, one element, the end of  *)
(* a list; among operations it is the one in focus.                        *)

Operations(r) == r.kind = "switch" /\ OP_ILLEGAL \in DOMAIN r.arms

SmallestOf(S) == CHOOSE v \in S : \A w \in S : v <= w

Plain(r, focus) ==
  CASE r.kind = "switch"  -> IF Operations(r) THEN focus ELSE SmallestOf(DOMAIN r.arms)
    [] r.kind = "pointer" -> 0
    [] OTHER -> 1

Values(r, focus) ==
  CASE r.kind = "switch" ->
         (IF Operations(r) THEN {focus} ELSE DOMAIN r.arms) \cup
         {SmallestOf((0 .. 4) \ DOMAIN r.arms)}
    [] r.kind \in {"bytes", "string"} ->
         {0, 1} \cup (IF r.max = NOLIMIT THEN {} ELSE {r.max, r.max + 1})
    [] r.kind = "array"   -> {0, 1, 2}
    [] r.kind = "pointer" -> {0, 1}

\* Encoding has come to a part that is to be chosen.
Asks(x) == ~Ended(x) /\ Head(x.todo)[1] # "release" /\ Steers(Top(x))

Cost(v, plain) == IF v = plain THEN 0 ELSE 1

\* Encoding goes on with any next part, at most odd of them not the plain one:
\* the handles that result, with what is left of odd.
Encodings(x, odd, focus) ==
  LET r == Top(x)
      p == Plain(r, focus)
  IN  {<<Run(Step(x, v)), odd - Cost(v, p)>> :
         v \in {w \in Values(r, focus) : Cost(w, p) <= odd}}
=============================================================================
