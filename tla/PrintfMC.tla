------------------------------ MODULE PrintfMC ------------------------------
(***************************************************************************)
(* Calls for model checking printf: the formats the kernel uses (%08X,     *)
(* %02X, %u, %X, %s), and directives with other flags, widths, modifiers   *)
(* and conversions, alone and in pairs around a literal.                   *)
(***************************************************************************)
EXTENDS Printf

Directive(flags, width, length, conv, arg) ==
  [flags |-> flags, width |-> width, length |-> length, conv |-> conv, arg |-> arg]

Literals(text) == Directive({}, 0, "", "literal", text)

Char == [n \in 0 .. 9 |-> digits[n + 1]]

\* How an item is written, and its arguments.
Written(it) ==
  CASE it.conv = "literal" -> it.arg
    [] it.conv = "end" -> <<"%">>
    [] OTHER ->
         <<"%">> \o SetToSeq(it.flags)
         \o (IF it.width < 0 THEN <<"*">>
             ELSE IF it.width = 0 THEN <<>>
             ELSE IF it.width < 10 THEN <<Char[it.width]>>
             ELSE <<Char[it.width \div 10], Char[it.width % 10]>>)
         \o (CASE it.length = "ll" -> <<"l", "l">> [] it.length = "hh" -> <<"h", "h">>
               [] it.length = ".2" -> <<".", "2">> [] it.length = ".*" -> <<".", "*">>
               [] it.length = "" -> <<>> [] OTHER -> <<it.length>>)
         \o <<it.conv>>

\* The bits of the C type that a caller passes for a directive.
Type(it) ==
  CASE it.conv \in {"p", "n"} \/ it.length \in {"l", "z", "t"} -> WORD
    [] it.length \in {"ll", "j"} /\ it.conv \notin {"p", "n"} -> LONG
    [] OTHER -> INT

MCTexts == [w \in {99, 200} |-> IF w = 99 THEN <<"c">> ELSE <<"o", "k">>]

\* The words of a number of that many bits.
Words(v, bits) ==
  IF bits > WORD THEN <<v % 2^WORD, (v \div 2^WORD) % 2^(bits - WORD)>> ELSE <<v % 2^WORD>>

\* A negative width is passed as an argument; so is the precision of ".*".
Passed(it) ==
  IF it.conv \in {"literal", "end"} THEN <<>>
  ELSE (IF it.width < 0 THEN <<-it.width>> ELSE <<>>)
       \o (IF it.length = ".*" THEN <<1>> ELSE <<>>)
       \o (IF it.conv \in {"c", "s"} THEN <<CHOOSE w \in DOMAIN MCTexts : MCTexts[w] = it.arg>>
           ELSE Words(it.arg, Type(it)))

CallOn(items, above) ==
  [items  |-> [k \in 1 .. Len(items) |-> [items[k] EXCEPT !.width = IF @ < 0 THEN -@ ELSE @]],
   format |-> FlattenSeq([k \in 1 .. Len(items) |-> Written(items[k])]),
   args   |-> FlattenSeq([k \in 1 .. Len(items) |-> Passed(items[k])]),
   above  |-> above]

Call(items) == CallOn(items, 0)

Edge == {0, 9, 10, 16, 2^(INT - 1) - 1, 2^(INT - 1), 2^INT - 1}

Hex == {Directive({"0"}, w, "", "X", v) : w \in {2, 8}, v \in Edge}

Plain ==
  {Directive(f, w, l, "d", v) :
     f \in {{}, {"-"}, {"0"}, {"+"}}, w \in {0, 5, -4}, l \in {"", "h", "ll"},
     v \in {-(2^(INT - 1)), -1, 0, 10, 2^(INT - 1) - 1}}

Naked == {it \in {Directive(f, 0, l, c, v) :
                    f \in {{}, {"#"}}, l \in {"", "l", "ll", "z"}, c \in {"u", "X", "o", "p"},
                    v \in Edge \cup {2^INT + 1, 2^(INT + 1), 2^(LONG - 1)}} :
            it.arg < 2^Type(it)}

Strings == {Directive({}, 0, "", "s", <<"o", "k">>), Directive({}, 0, "", "c", <<"c">>),
            Literals(<<"a">>), Literals(<<" ", "0">>)}

\* Directives that vprintf takes its own way.
Odd == {Directive(f, w, l, c, v) :
          v \in {16, 2^INT - 1}, f \in {{}, {"#", "0"}}, w \in {0, BUF - 1, BUF}, l \in {"", "hh", ".2", ".*", "L", "t"},
          c \in {"x", "d", "X", "%"}}
       \cup {Directive({}, 0, l, "n", 0) : l \in {"", "h", "ll"}}
       \cup {Directive({}, 0, "", "end", 0)}

Some == Hex \cup Strings \cup {it \in Plain : it.arg \in {-1, 10}}

\* Unsigned longs, which take the next argument, or what is above the last one,
\* for their upper half.
Longs == {Directive({}, 0, "l", c, v) : c \in {"u", "X"}, v \in Edge}

One == Directive({}, 0, "", "u", 1)

MCCalls ==
  {Call(<<it>>) : it \in Plain \cup Naked \cup Odd}
  \cup {Call(<<a, b>>) : a \in Some, b \in Some}
  \cup {CallOn(<<a>>, 2^INT - 1) : a \in Longs} \cup {Call(<<a, b>>) : a \in Longs, b \in Some}
  \cup {Call(<<a, One, b>>) : a \in Longs, b \in Strings}
  \cup {Call(<<a, Literals(<<":", " ">>), b>>) : a \in Hex, b \in Hex \cup Odd}

\* Unsigned longs, where they are longer than an int, around those that have one
\* and two bits more.
LongCalls ==
  {Call(<<Directive({}, 0, "l", "u", v)>>) : v \in (2^INT - 3) .. (2^(INT + 1) + 2)}

MCCharacters == {digits[k] : k \in 1 .. 16} \cup {"%", "-", "+", " ", "#", "*", ".", ":", "a", "c", "d",
                 "h", "k", "l", "L", "n", "o", "p", "s", "t", "u", "x", "X", "z"}
=============================================================================
