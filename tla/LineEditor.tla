----------------------------- MODULE LineEditor -----------------------------
(***************************************************************************)
(* What the shell promises to the person at the keyboard: a line that is   *)
(* typed, erased from its end and entered; entering it runs the command    *)
(* its words spell.  Stated on sequences and words, without buffers,       *)
(* terminators or tokens.  The promise is void (lost) once the line has    *)
(* filled the buffer or an arrow key has been used.                        *)
(***************************************************************************)
EXTENDS Words

CONSTANTS PeekWord, PokeWord, ULONG_MAX, BYTE, Addr, Printable

VARIABLES line, ram, reply, lost

vars == <<line, ram, reply, lost>>

Number(w) == Value(w, 16, ULONG_MAX)

Init ==
  /\ line = <<>> /\ reply = <<>> /\ lost = FALSE
  /\ ram = [a \in Addr |-> 0]

Say(f, arg) == reply' = <<[op |-> f, arg |-> arg]>>

TypeChar ==
  /\ \E c \in Printable : line' = Append(line, c)
  /\ reply' = <<>> /\ UNCHANGED ram

EraseChar ==
  /\ line' = IF line = <<>> THEN <<>> ELSE Front(line)
  /\ reply' = <<>> /\ UNCHANGED ram

\* The words decide: peek reads a byte, poke writes one, a missing argument is
\* answered with the usage, any other word is unknown.  What an empty line is
\* answered with is left open.
EnterLine ==
  LET w == Words(line)
      n == Len(w)
  IN  /\ line' = <<>>
      /\ \/ /\ n = 0
            /\ UNCHANGED ram
            /\ Len(reply') = 1
         \/ /\ n = 1 /\ w[1] = PeekWord
            /\ Say("usage peek", <<>>) /\ UNCHANGED ram
         \/ /\ n > 1 /\ w[1] = PeekWord
            /\ \E b \in 0 .. BYTE - 1 :
                  /\ Number(w[2]) \in Addr => b = ram[Number(w[2])]
                  /\ Say("peek", <<Number(w[2]), b>>)
            /\ UNCHANGED ram
         \/ /\ n \in {1, 2} /\ w[1] = PokeWord
            /\ Say("usage poke", <<>>) /\ UNCHANGED ram
         \/ /\ n > 2 /\ w[1] = PokeWord
            /\ Say("poke", <<Number(w[2]), Number(w[3])>>)
            /\ ram' = [a \in Addr |-> IF a = Number(w[2]) THEN Number(w[3]) % BYTE ELSE ram[a]]
         \/ /\ n > 0 /\ w[1] \notin {PeekWord, PokeWord}
            /\ Say("unknown", w[1]) /\ UNCHANGED ram

Next ==
  \/ ~lost' /\ (TypeChar \/ EraseChar \/ EnterLine)
  \/ lost'

Spec == Init /\ [][Next]_vars
=============================================================================
