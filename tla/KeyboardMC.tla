----------------------------- MODULE KeyboardMC -----------------------------
(***************************************************************************)
(* Keys for model checking: a letter, both Shifts, Caps Lock, Backspace,   *)
(* the Up arrow, keypad 8 (Up's code without 0xE0), right Ctrl (extended,  *)
(* no arrow) and F1, whose code lies past the tables.                      *)
(***************************************************************************)
EXTENDS Keyboard

Key(c, e) == [code |-> c, ext |-> e]

MCKeys == {Key(30, FALSE), Key(42, FALSE), Key(54, FALSE), Key(58, FALSE),
           Key(14, FALSE), Key(72, TRUE), Key(72, FALSE), Key(29, TRUE), Key(59, FALSE)}

\* Plain F1 reads some byte, shifted F1 a NUL.
MCBeyond == [s \in BOOLEAN |-> [sc \in {0} \cup 58 .. 127 |-> IF s THEN 0 ELSE 250]]
=============================================================================
