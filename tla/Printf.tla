------------------------------- MODULE Printf -------------------------------
(***************************************************************************)
(* vprintf of the kernel library (src/libk/stdio/printf.c): the scanner of *)
(* conversion specifications and __int_str, with the division of Divmod.   *)
(*                                                                         *)
(* A format is a sequence of one-character strings, NUL behind its end;    *)
(* one action is one turn of vprintf's loop.  The widths of the C types    *)
(* are constants, and arithmetic is modulo those widths.  The arguments    *)
(* are machine words, of which a type that is wider than a word takes two. *)
(* The conversions of floating point numbers are left out.                 *)
(***************************************************************************)
EXTENDS Divmod

CONSTANTS
  CHAR, SHORT,  \* bits of the smaller types (8, 16); see Divmod for INT, LONG
  WORD,         \* bits of long, size_t and pointers (32 on i386, 64 on aarch64)
  BUF,          \* size of intStrBuffer and tmp (256)
  Characters,   \* the characters other than the terminator
  Texts,        \* what a character code or a pointer to a string stands for
  Calls         \* the calls of printf that are tried

ASSUME PrintfAssumption ==
  /\ {CHAR, SHORT, BUF} \subseteq Nat \ {0} /\ CHAR <= SHORT /\ SHORT <= INT /\ 17 < 2^INT
  /\ WORD \in {INT, LONG} /\ LONG + 1 < BUF

VARIABLES
  call,    \* the call: format, words of the arguments (args), what is on the
           \* stack above them, and the items the format stands for
  pc,      \* "scan", "returned", or stuck: "hung", "overrun", "overread", "wild"
  i,       \* index into the format
  ap,      \* the next word of the arguments
  out,     \* the characters given to putc
  chars,   \* their count
  stored   \* what %n has stored

vars == <<call, pc, i, ap, out, chars, stored>>

NUL == "NUL"
digits == <<"0", "1", "2", "3", "4", "5", "6", "7", "8", "9",
            "A", "B", "C", "D", "E", "F", NUL>>

Decimal == {digits[k] : k \in 1 .. 10}

ASSUME CharactersAssumption ==
  /\ {digits[k] : k \in 1 .. 16} \cup {"-", "+", " ", "x"} \subseteq Characters
  /\ NUL \notin Characters /\ \A w \in DOMAIN Texts : Texts[w] \in Seq(Characters)
  /\ \A c \in Calls : c.format \in Seq(Characters) /\ c.args \in Seq(Nat) /\ c.above \in Nat

-----------------------------------------------------------------------------
(* __int_str                                                               *)

Signed(v, bits)   == LET u == v % 2^bits IN IF u >= 2^(bits - 1) THEN u - 2^bits ELSE u
Unsigned(v, bits) == v % 2^bits

Magnitude(value) == (IF value < 0 THEN -value ELSE value) % 2^LONG

\* The digits of n, most significant first: left[j] is what is left of n after
\* j turns of the loop, which ends when that is 0.
Numerals(n, base) ==
  LET left[j \in Nat] == IF j = 0 THEN n ELSE divmod_u64(left[j - 1], base).result
      len == Min({j \in 1 .. LONG : left[j] = 0})
  IN  [j \in 1 .. len |-> digits[divmod_u64(left[len - j], base).n + 1]]

Sign(value, flags) ==
  IF value < 0 THEN <<"-">>
  ELSE IF "+" \in flags THEN <<"+">>
  ELSE IF " " \in flags THEN <<" ">> ELSE <<>>

\* A C string: what comes before the first NUL.
CString(s) == LET k == SelectInSeq(s, LAMBDA c : c = NUL)
              IN  IF k = 0 THEN s ELSE SubSeq(s, 1, k - 1)

\* Mutant: the pad is one too long.
Pad_Long(b, flags, width) ==
  [k \in 1 .. width - Len(b) + 1 |-> IF "0" \in flags THEN "0" ELSE " "]

Pad(b, flags, width) ==
  [k \in 1 .. width - Len(b) |-> IF "0" \in flags THEN "0" ELSE " "]

Justified(b, flags, pad) ==
  IF pad = <<>> THEN b
  ELSE IF "-" \in flags THEN b \o pad ELSE pad \o CString(b)

\* The buffer after __int_str; displayString shows it up to the first NUL.
Padded(b, flags, width) == Justified(b, flags, Pad(b, flags, width))

\* buf, reversed; it has LONG + 1 places.
Unpadded(value, base, flags) == Sign(value, flags) \o Numerals(Magnitude(value), base)

int_str(value, base, flags, width) == Padded(Unpadded(value, base, flags), flags, width)

-----------------------------------------------------------------------------
(* The scanner.  A directive being scanned is a record d; d.at is where    *)
(* the scan has come to.                                                   *)

At(f, k) == IF k <= Len(f) THEN f[k] ELSE NUL

\* The first place from k on without a character of S.
Past(f, k, S) == Min({j \in k .. Len(f) + 1 : At(f, j) \notin S})

\* The number that the n characters from a on are.
Number(f, a, n) ==
  LET value[j \in Nat] ==
        IF j = 0 THEN 0
        ELSE 10 * value[j - 1] + SelectInSeq(digits, LAMBDA x : x = f[a + j - 1]) - 1
  IN  value[n]

\* Mutant: the flags of the last directive are kept.
Flags_Kept(f, d) ==
  LET j == Past(f, d.at, {"-", "+", "#", " ", "0"})
  IN  [d EXCEPT !.at = j, !.flags = {f[k] : k \in 1 .. j - 1} \cap {"-", "+", "#", " ", "0"}]

Flags(f, d) ==
  LET j == Past(f, d.at, {"-", "+", "#", " ", "0"})
  IN  [d EXCEPT !.at = j, !.flags = {f[k] : k \in d.at .. j - 1}]

\* The word that va_arg finds; behind the arguments, what happens to be there.
Arg(a) == IF a <= Len(call.args) THEN call.args[a] ELSE call.above

\* A star takes the number from the arguments.
Star(f, d) ==
  IF At(f, d.at) = "*"
  THEN [d EXCEPT !.at = @ + 1, !.width = Signed(Arg(d.ap), INT), !.ap = @ + 1] ELSE d

Width(f, d) ==
  LET j == Past(f, d.at, Decimal)
  IN  Star(f, [d EXCEPT !.at = j, !.width = Number(f, d.at, j - d.at)])

\* The precision is used by the floating point conversions only.
Precision(f, d) ==
  IF At(f, d.at) # "." THEN d
  ELSE LET j == Past(f, d.at + 1, Decimal)
       IN  IF At(f, j) = "*" THEN [d EXCEPT !.at = j + 1, !.ap = @ + 1] ELSE [d EXCEPT !.at = j]

\* "hh" is recognised but its second h is not skipped.
Length(f, d) ==
  IF At(f, d.at) \notin {"h", "l", "j", "z", "t", "L"} THEN d
  ELSE IF At(f, d.at + 1) = "h" THEN [d EXCEPT !.at = @ + 1, !.length = "H"]
  ELSE IF At(f, d.at + 1) = "l" THEN [d EXCEPT !.at = @ + 2, !.length = "q"]
  ELSE [d EXCEPT !.at = @ + 1, !.length = At(f, d.at)]

Specifier(f, d) == [d EXCEPT !.specifier = At(f, d.at)]

\* o and p become u; x without a base yet gets base 17.
Base(d) ==
  CASE d.specifier = "o" -> [d EXCEPT !.base = 8, !.specifier = "u"]
    [] d.specifier = "p" -> [d EXCEPT !.base = 16, !.specifier = "u", !.length = "z"]
    [] d.specifier = "X" -> [d EXCEPT !.base = 16]
    [] d.specifier = "x" -> [d EXCEPT !.base = 17]
    [] OTHER -> d

Prefix(d) ==
  IF "#" \notin d.flags THEN <<>>
  ELSE IF d.specifier \in {"X", "x"} THEN <<"0", "x">>
  ELSE IF d.base = 8 THEN <<"0">> ELSE <<>>

Scan(f, k, a) ==
  Base(Specifier(f, Length(f, Precision(f, Width(f, Flags(f,
    [at |-> k, ap |-> a, flags |-> {}, width |-> 0, length |-> "", specifier |-> "", base |-> 10]))))))

Lengths == {"", "H", "h", "l", "q", "j", "z", "t"}

\* The bits of the variable that takes the argument.  Unsigned longs are read
\* as uint64_t, whatever an unsigned long is; a ptrdiff_t as uint32_t.
Bits(d) ==
  CASE d.length = "H" -> CHAR
    [] d.length = "h" -> SHORT
    [] d.length \in {"", "t"} -> INT
    [] d.length = "z" \/ (d.length = "l" /\ d.specifier \notin {"X", "x", "u"}) -> WORD
    [] OTHER -> LONG

\* The words that va_arg takes: types below an int are passed as ints.
Slots(d) == IF Bits(d) > WORD THEN 2 ELSE 1

Taken(d) == IF Slots(d) = 1 THEN Arg(d.ap) ELSE Arg(d.ap) + 2^WORD * Arg(d.ap + 1)

\* __int_str takes an intmax_t; z and t are unsigned for %d too.
Value(d) ==
  IF d.specifier \in {"d", "i"} /\ d.length \notin {"z", "t"} THEN Signed(Taken(d), Bits(d))
  ELSE Signed(Unsigned(Taken(d), Bits(d)), LONG)

-----------------------------------------------------------------------------

Format == call.format

\* Where the loop goes after the directive d: past the end if the format broke
\* off in it.
NextAt(d) == i' = d.at + 1 /\ pc' = IF d.specifier = NUL THEN "overread" ELSE "scan"

\* displayString and displayCharacter.
Display(s) == out' = out \o s /\ chars' = chars + Len(s)

Literal ==
  /\ pc = "scan" /\ At(Format, i) \notin {"%", NUL}
  /\ Display(<<Format[i]>>) /\ i' = i + 1
  /\ UNCHANGED <<call, pc, ap, stored>>

ReturnChars ==
  /\ pc = "scan" /\ At(Format, i) = NUL /\ pc' = "returned"
  /\ UNCHANGED <<call, i, ap, out, chars, stored>>

IsInteger(d) == d.specifier \in {"X", "x", "u", "d", "i"} /\ d.length \in Lengths

\* __int_str is called; buf overflows when sign and digits do not fit, b when
\* the padded text does not.
Show(d, value) ==
  IF Shifts(Magnitude(value), d.base) = {}
  THEN Display(Prefix(d)) /\ pc' = "hung" /\ UNCHANGED i
  ELSE LET b == int_str(value, d.base, d.flags, d.width)
       IN  IF Len(Unpadded(value, d.base, d.flags)) > LONG + 1 \/ Len(b) >= BUF
           THEN Display(Prefix(d)) /\ pc' = "overrun" /\ UNCHANGED i
           ELSE Display(Prefix(d) \o CString(b)) /\ NextAt(d)

ConvertInteger ==
  /\ pc = "scan" /\ At(Format, i) = "%"
  /\ LET d == Scan(Format, i + 1, ap)
     IN  IsInteger(d) /\ Show(d, Value(d)) /\ ap' = d.ap + Slots(d)
  /\ UNCHANGED <<call, stored>>

\* %c and %s; their width is ignored.  A word that is not among the Texts is
\* some character's code all the same, and followed as a pointer.
ConvertText ==
  /\ pc = "scan" /\ At(Format, i) = "%"
  /\ LET d == Scan(Format, i + 1, ap)
         w == Arg(d.ap)
     IN  /\ d.specifier \in {"c", "s"} /\ ap' = d.ap + 1
         /\ \/ w \in DOMAIN Texts /\ Display(Texts[w]) /\ NextAt(d)
            \/ /\ w \notin DOMAIN Texts /\ d.specifier = "c"
               /\ \E x \in Characters \cup {NUL} : Display(<<x>>)
               /\ NextAt(d)
            \/ /\ w \notin DOMAIN Texts /\ d.specifier = "s" /\ pc' = "wild"
               /\ UNCHANGED <<i, out, chars>>
  /\ UNCHANGED <<call, stored>>

ConvertCount ==
  /\ pc = "scan" /\ At(Format, i) = "%"
  /\ LET d == Scan(Format, i + 1, ap)
     IN  /\ d.specifier = "n" /\ d.length \in Lengths
         /\ stored' = Append(stored, chars % 2^Bits(d)) /\ ap' = d.ap + 1 /\ NextAt(d)
  /\ UNCHANGED <<call, out, chars>>

\* Every other directive, "%%" too, prints nothing but a prefix.
ConvertNothing ==
  /\ pc = "scan" /\ At(Format, i) = "%"
  /\ LET d == Scan(Format, i + 1, ap)
     IN  /\ d.specifier \notin {"c", "s"} /\ ~IsInteger(d)
         /\ ~(d.specifier = "n" /\ d.length \in Lengths)
         /\ Display(Prefix(d)) /\ ap' = d.ap /\ NextAt(d)
  /\ UNCHANGED <<call, stored>>

Init ==
  /\ call \in Calls /\ pc = "scan" /\ i = 1 /\ ap = 1
  /\ out = <<>> /\ chars = 0 /\ stored = <<>>

Next ==
  \/ Literal \/ ConvertInteger \/ ConvertText \/ ConvertCount \/ ConvertNothing
  \/ ReturnChars

Spec == Init /\ [][Next]_vars

-----------------------------------------------------------------------------
(* What a format is meant to print, stated on its items: literals and      *)
(* directives [flags, width, length, conv, arg], in the C standard's sense *)
(* as far as vprintf follows it.                                           *)

\* The digits of v by their places, without a loop; a base is at least 4, so
\* INT bits need no more than INT / 2 of them.
Reference(v, base) ==
  LET len == Min({k \in 1 .. (INT + 1) \div 2 : v < base^k})
  IN  [k \in 1 .. len |-> digits[((v \div base^(len - k)) % base) + 1]]

\* s in a field: blanks in front, or zeroes, or blanks behind.
InField(it, s) ==
  LET fill(c) == [k \in 1 .. it.width - Len(s) |-> c]
  IN  IF "-" \in it.flags THEN s \o fill(" ")
      ELSE IF "0" \in it.flags THEN fill("0") \o s ELSE fill(" ") \o s

Radix(conv) == CASE conv \in {"X", "p"} -> 16 [] conv = "o" -> 8 [] OTHER -> 10

Meant(it) ==
  CASE it.conv = "literal" -> it.arg
    [] it.conv \in {"c", "s"} -> it.arg
    [] it.conv \in {"d", "i", "u", "X", "o", "p"} ->
         (IF "#" \in it.flags /\ it.conv = "X" THEN <<"0", "x">> ELSE <<>>) \o
         InField(it, Sign(it.arg, it.flags) \o
                     Reference(IF it.arg < 0 THEN -it.arg ELSE it.arg, Radix(it.conv)))

\* An argument of the directive's type, whose magnitude fits in an int; flags
\* that make sense together; a field that fits in the buffer.  The type is one
\* that vprintf reads as it is passed, which an unsigned long on i386 is not.
Sound(it) ==
  CASE it.conv = "literal" -> "%" \notin ToSet(it.arg)
    [] it.conv \in {"c", "s"} -> it.width = 0
    [] it.conv \in {"d", "i"} ->
         /\ it.length \in {"", "h", "l", "ll", "j"} /\ "#" \notin it.flags
         /\ it.arg \in -(2^(INT - 1)) .. 2^(INT - 1) - 1
         /\ it.length = "h" => it.arg \in -(2^(SHORT - 1)) .. 2^(SHORT - 1) - 1
         /\ "0" \in it.flags => it.arg >= 0 /\ it.flags \cap {"-", "+", " "} = {}
         /\ it.width < BUF
    [] it.conv \in {"u", "X", "o", "p"} ->
         /\ it.length \in {"", "h", "l", "ll", "j", "z"}
         /\ (it.length = "l" => WORD = LONG) /\ (it.conv = "p" => it.length = "")
         /\ it.flags \cap {"+", " "} = {} /\ ("#" \in it.flags => it.conv = "X")
         /\ it.arg \in 0 .. 2^INT - 1 /\ (it.length = "h" => it.arg < 2^SHORT)
         /\ "0" \in it.flags => "-" \notin it.flags
         /\ it.width < BUF
    [] OTHER -> FALSE

AllSound == \A k \in 1 .. Len(call.items) : Sound(call.items[k])

(* A call with sound directives returns and has printed, for every value   *)
(* of an int, the numerals meant, each in its field: no flag, width or     *)
(* modifier leaks from one directive into the next, and each takes as many *)
(* words as the caller has passed for it, also where a long long is two    *)
(* (printf.c:14-489).                                                      *)
PrintsAsMeant ==
  AllSound =>
    /\ pc \in {"scan", "returned"}
    /\ pc = "returned" =>
         /\ out = FlattenSeq([k \in 1 .. Len(call.items) |-> Meant(call.items[k])])
         /\ ap = Len(call.args) + 1

\* The directive at i, when its argument has just been taken.
Reading == {d \in {Scan(Format, i + 1, a) : a \in 1 .. ap} : d.ap + Slots(d) = ap}

(* __int_str stays within its buffers, the LONG + 1 places of buf and the  *)
(* BUF of b and tmp, sign, pad and terminator included, for every          *)
(* directive whose width is below BUF, whatever words it finds for its     *)
(* arguments (printf.c:43-92).                                             *)
FieldsFit == pc = "overrun" => \E d \in Reading : d.width >= BUF

(* No value of an int, of either sign and in any base the scanner can ask  *)
(* for, sends the division into its endless loop: only a directive that is *)
(* read into more bits can, so on i386 %p and %ld cannot (printf.c:20-23,  *)
(* 55-58).                                                                 *)
NeverHangs == pc = "hung" => \E d \in Reading : Bits(d) > INT

(* The comment at printf.c:19, "Shift b until it is just less than or      *)
(* equal to n": the shifting ends, for every number.                       *)
ShiftEnds == pc # "hung"
=============================================================================
