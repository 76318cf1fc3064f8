------------------------------ MODULE KernelMC ------------------------------
(***************************************************************************)
(* Values for model checking the kernel: short texts, a letter, Enter and  *)
(* Backspace (pressed and released).                                       *)
(***************************************************************************)
EXTENDS Kernel

MCPeek == <<112>>
MCPoke == <<107>>
MCChar == {0, 32, 97}
MCEnv == {[past |-> <<>>, null |-> <<>>, bus |-> 0, junk |-> [i \in 0 .. N - 1 |-> 0]]}
MCBeyond == [s \in BOOLEAN |-> [sc \in {0} \cup 58 .. 127 |-> 0]]
MCReplyText == [f \in S!Formats |-> <<63, 63>>]
MCBanner == <<73, 73, 73>>
MCHello == <<72, 72, 72, 72, 10>>
=============================================================================
