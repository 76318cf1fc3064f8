------------------------------ MODULE ShellMC ------------------------------
(***************************************************************************)
(* Values for model checking the shell: the command words are one          *)
(* character (1 and k), so that a poke with two arguments fits a buffer    *)
(* of 6.                                                                   *)
(***************************************************************************)
EXTENDS ShellRefines

K == 107
ONE == 49

MCPeek == <<ONE>>
MCPoke == <<K>>

CommandChars == {NUL, SPACE, K, ONE}
CommandStrokes == {<<SPACE, {}>>, <<K, {}>>, <<ONE, {}>>, <<LF, {}>>,
                   <<NUL, {"BCKSP"}>>, <<NUL, {"UP"}>>, <<NUL, {"DOWN"}>>, <<NUL, {}>>}

\* Past an unterminated buffer: a NUL, or one more character; before and after
\* the history: a blank or a full line.
MCEnv == {[past |-> <<>>, null |-> <<>>, bus |-> 0, junk |-> [i \in Idx |-> NUL]],
          [past |-> <<K>>, null |-> <<K>>, bus |-> 1, junk |-> [i \in Idx |-> K]]}
=============================================================================
