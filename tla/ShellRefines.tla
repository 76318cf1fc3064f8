---------------------------- MODULE ShellRefines ----------------------------
(***************************************************************************)
(* The shell implements the line editor: the line is the string in         *)
(* shellbuf, the reply is what the callback prints besides the echo.       *)
(***************************************************************************)
EXTENDS Shell

\* The calls of printf among the console calls, in order.
Replies(calls) ==
  LET first[k \in 0 .. Len(calls)] ==
        IF k = 0 THEN <<>>
        ELSE IF calls[k].op \in Formats THEN Append(first[k - 1], calls[k]) ELSE first[k - 1]
  IN  first[Len(calls)]

Editor == INSTANCE LineEditor WITH
  line <- Text(sh.buf, <<>>),
  reply <- Replies(out),
  lost <- overrun \/ arrows,
  Printable <- Char \ {NUL}

(* Typing, erasing and entering through buffers, NULs, strtok and strtoul  *)
(* (shell.c:29-102) is the line editor of LineEditor, command by command:  *)
(* words run as typed, poke changes one byte and nothing else does.        *)
ImplementsLineEditor == Editor!Spec
=============================================================================
