--------------------------- MODULE KeyboardProofs ---------------------------
(***************************************************************************)
(* Every keystroke reaches the callback, whatever keys are held and        *)
(* however far the interrupt handler lags behind the wire.                 *)
(***************************************************************************)
EXTENDS Keyboard, SequenceTheorems, TLAPS

(***************************************************************************)
(* The tables: a letter's entries differ by 32, the others are no letters. *)
(***************************************************************************)
LEMMA Tables ==
  \A n \in 1 .. 57 :
    /\ keymap[n] \in 0 .. 122 /\ keymap_shift[n] \in 0 .. 126
    /\ IsLower(keymap[n]) => keymap_shift[n] = keymap[n] - 32
    /\ ~IsLower(keymap[n]) => ~IsAlpha(keymap[n]) /\ ~IsAlpha(keymap_shift[n])
  BY SMTT(60) DEF keymap, keymap_shift, IsLower, IsAlpha

LEMMA TableLen == Len(keymap) = 57
  BY DEF keymap

LEMMA Arrows ==
  /\ DOMAIN Arrow = {72, 75, 77, 80}
  /\ Arrow[72] = "UP" /\ Arrow[75] = "LEFT" /\ Arrow[77] = "RIGHT" /\ Arrow[80] = "DOWN"
  BY DEF Arrow

(* What the handler does with the bytes of a key, by kind of key.          *)
LEMMA Handled ==
  ASSUME NEW k, NEW code \in (1 .. 127) \ {96}
  PROVE  /\ keyboard(k, E0) = Silent([k EXCEPT !.extended = TRUE])
         /\ code = BACKSPACE =>
              /\ keyboard(k, code) = Calls(With(k, "BCKSP"), 0)
              /\ keyboard(k, code + BREAK) = Silent(Without(k, "BCKSP"))
         /\ code \in SHIFTS =>
              /\ keyboard(k, code) = Silent(With(k, "SHIFT"))
              /\ keyboard(k, code + BREAK) = Silent(Without(k, "SHIFT"))
         /\ code = CAPSLOCK =>
              /\ keyboard(k, code) = Silent(IF "CAPS" \in k.kstate THEN Without(k, "CAPS")
                                            ELSE With(k, "CAPS"))
              /\ keyboard(k, code + BREAK) = Silent(k)
         /\ code \in DOMAIN Arrow =>
              /\ keyboard(k, code) = ArrowKey(k, Arrow[code], FALSE)
              /\ keyboard(k, code + BREAK) = ArrowKey(k, Arrow[code], TRUE)
         /\ code \notin {BACKSPACE, CAPSLOCK} \cup SHIFTS \cup DOMAIN Arrow =>
              /\ keyboard(k, code) = CharKey(k, code)
              /\ keyboard(k, code + BREAK) = Silent(k)
<1> USE DEF E0, BACKSPACE, BREAK, SHIFTS, CAPSLOCK
<1>1. keyboard(k, E0) = Silent([k EXCEPT !.extended = TRUE])
  BY Arrows DEF keyboard
<1>2. ASSUME code = BACKSPACE
      PROVE  /\ keyboard(k, code) = Calls(With(k, "BCKSP"), 0)
             /\ keyboard(k, code + BREAK) = Silent(Without(k, "BCKSP"))
  BY <1>2, Arrows DEF keyboard
<1>3. ASSUME code \in SHIFTS
      PROVE  /\ keyboard(k, code) = Silent(With(k, "SHIFT"))
             /\ keyboard(k, code + BREAK) = Silent(Without(k, "SHIFT"))
  <2>1. CASE code = 42
    BY <2>1, Arrows DEF keyboard
  <2>2. CASE code = 54
    BY <2>2, Arrows DEF keyboard
  <2> QED BY <1>3, <2>1, <2>2
<1>4. ASSUME code = CAPSLOCK
      PROVE  /\ keyboard(k, code) = Silent(IF "CAPS" \in k.kstate THEN Without(k, "CAPS")
                                           ELSE With(k, "CAPS"))
             /\ keyboard(k, code + BREAK) = Silent(k)
  BY <1>4, Arrows DEF keyboard, CharKey
<1>5. ASSUME code \in DOMAIN Arrow
      PROVE  /\ keyboard(k, code) = ArrowKey(k, Arrow[code], FALSE)
             /\ keyboard(k, code + BREAK) = ArrowKey(k, Arrow[code], TRUE)
  <2>1. keyboard(k, code) = ArrowKey(k, Arrow[code], FALSE)
    <3>1. /\ code # E0 /\ code # BACKSPACE /\ code # BACKSPACE + BREAK /\ code \notin SHIFTS
          /\ code - BREAK \notin SHIFTS /\ code # CAPSLOCK /\ code \in DOMAIN Arrow
          /\ code - BREAK \notin DOMAIN Arrow
      BY <1>5, Arrows
    <3> QED BY <3>1, Zenon DEF keyboard
  <2>2. keyboard(k, code + BREAK) = ArrowKey(k, Arrow[code], TRUE)
    <3> DEFINE sc == code + BREAK
    <3>1. /\ sc # E0 /\ sc # BACKSPACE /\ sc # BACKSPACE + BREAK /\ sc \notin SHIFTS
          /\ sc - BREAK \notin SHIFTS /\ sc # CAPSLOCK /\ sc \notin DOMAIN Arrow
          /\ sc - BREAK \in DOMAIN Arrow
      BY <1>5, Arrows
    <3>2. sc - BREAK = code
      OBVIOUS
    <3> HIDE DEF sc
    <3>3. keyboard(k, sc) = ArrowKey(k, Arrow[sc - BREAK], TRUE)
      BY <3>1, Zenon DEF keyboard
    <3> QED BY <3>2, <3>3 DEF sc
  <2> QED BY <2>1, <2>2
<1>6. ASSUME code \notin {BACKSPACE, CAPSLOCK} \cup SHIFTS \cup DOMAIN Arrow
      PROVE  /\ keyboard(k, code) = CharKey(k, code)
             /\ keyboard(k, code + BREAK) = Silent(k)
  <2>1. keyboard(k, code) = CharKey(k, code)
    <3>1. /\ code # E0 /\ code # BACKSPACE /\ code # BACKSPACE + BREAK /\ code \notin SHIFTS
          /\ code - BREAK \notin SHIFTS /\ code # CAPSLOCK /\ code \notin DOMAIN Arrow
          /\ code - BREAK \notin DOMAIN Arrow
      BY <1>6, Arrows
    <3> QED BY <3>1, Zenon DEF keyboard
  <2>2. keyboard(k, code + BREAK) = CharKey(k, code + BREAK)
    <3> DEFINE sc == code + BREAK
    <3>1. /\ sc # E0 /\ sc # BACKSPACE /\ sc # BACKSPACE + BREAK /\ sc \notin SHIFTS
          /\ sc - BREAK \notin SHIFTS /\ sc # CAPSLOCK /\ sc \notin DOMAIN Arrow
          /\ sc - BREAK \notin DOMAIN Arrow
      BY <1>6, Arrows
    <3> HIDE DEF sc
    <3>2. keyboard(k, sc) = CharKey(k, sc)
      BY <3>1, Zenon DEF keyboard
    <3> QED BY <3>2 DEF sc
  <2>3. code + BREAK >= BREAK
    OBVIOUS
  <2> QED BY <2>1, <2>2, <2>3 DEF CharKey
<1> QED BY <1>1, <1>2, <1>3, <1>4, <1>5, <1>6

-----------------------------------------------------------------------------

DriverState == [kstate : SUBSET Flags, extended : BOOLEAN]

\* The driver after the byte 0xE0 of an extended key.
Prefixed(k, key) == IF key.ext THEN [k EXCEPT !.extended = TRUE] ELSE k

\* The bytes of one event, read one after the other.
Struck(k, key, release) ==
  keyboard(Prefixed(k, key), key.code + (IF release THEN BREAK ELSE 0))

Plain(key) == key.code \notin {BACKSPACE, CAPSLOCK} \cup SHIFTS \cup DOMAIN Arrow

\* A keypad arrow after an extended key that was no arrow.
Confused(k, key) == k.extended = TRUE /\ key.ext # TRUE /\ key.code \in DOMAIN Arrow

LEMMA KeyType ==
  ASSUME NEW key \in Keys
  PROVE  /\ key.code \in (1 .. 127) \ {96} /\ key.ext \in BOOLEAN
         /\ key = [code |-> key.code, ext |-> key.ext]
         /\ key.code = BACKSPACE => key.ext # TRUE
<1>1. key \in [code : (1 .. 127) \ {96}, ext : BOOLEAN]
  <2>1. Keys \subseteq [code : (1 .. 127) \ {E0 - BREAK}, ext : BOOLEAN]
    BY KeyboardAssumption, Zenon
  <2>2. E0 - BREAK = 96
    BY DEF E0, BREAK
  <2> QED BY <2>1, <2>2
<1>2. key.code = BACKSPACE => ~key.ext
  BY KeyboardAssumption, Zenon
<1>3. key.ext \in BOOLEAN
  BY <1>1
<1>4. key.code = BACKSPACE => key.ext # TRUE
  BY <1>2, <1>3, Zenon
<1> QED BY <1>1, <1>3, <1>4

LEMMA PrefixedState ==
  ASSUME NEW k \in DriverState, NEW key \in Keys
  PROVE  /\ Prefixed(k, key) \in DriverState
         /\ Prefixed(k, key).kstate = k.kstate
         /\ Prefixed(k, key).extended = TRUE <=> key.ext = TRUE \/ k.extended = TRUE
BY KeyType DEF Prefixed, DriverState

\* The handler's branches leave a state of the driver.
LEMMA Branches ==
  ASSUME NEW k \in DriverState, NEW f \in Flags
  PROVE  /\ With(k, f) \in DriverState /\ With(k, f).kstate = k.kstate \cup {f}
         /\ With(k, f).extended = k.extended
         /\ Without(k, f) \in DriverState /\ Without(k, f).kstate = k.kstate \ {f}
         /\ Without(k, f).extended = k.extended
BY DEF DriverState, With, Without

\* The flags after an event that the driver reads right.
Flagged(fl, key, release) ==
  IF key.code = CAPSLOCK
  THEN IF release THEN fl ELSE IF "CAPS" \in fl THEN fl \ {"CAPS"} ELSE fl \cup {"CAPS"}
  ELSE IF release THEN fl \ FlagOf(key) ELSE fl \cup FlagOf(key)

\* The calls of such an event, for the flags fl after it.
Called(fl, key, release) ==
  IF key.code \in DOMAIN Arrow
  THEN IF key.ext THEN <<[c |-> 0, st |-> fl]>> ELSE <<>>
  ELSE IF release THEN <<>>
  ELSE IF key.code = BACKSPACE THEN <<[c |-> 0, st |-> fl]>>
  ELSE IF Plain(key) /\ Translate(fl, key.code) # 0
       THEN <<[c |-> Translate(fl, key.code), st |-> fl]>> ELSE <<>>

LEMMA Effect ==
  ASSUME NEW k \in DriverState, NEW key \in Keys, NEW release \in BOOLEAN
  PROVE  LET r == Struck(k, key, release)
         IN  /\ r.kb \in DriverState
             /\ r.kb.extended = TRUE <=>
                  key.code \notin DOMAIN Arrow /\ (key.ext = TRUE \/ k.extended = TRUE)
             /\ ~Confused(k, key) => /\ r.kb.kstate = Flagged(k.kstate, key, release)
                                     /\ r.call = Called(r.kb.kstate, key, release)
             /\ "SHIFT" \in r.kb.kstate <=>
                  IF key.code \in SHIFTS THEN release # TRUE ELSE "SHIFT" \in k.kstate
<1> DEFINE p == Prefixed(k, key)
           r == Struck(k, key, release)
<1>a. /\ p \in DriverState /\ p.kstate = k.kstate
      /\ p.extended = TRUE <=> key.ext = TRUE \/ k.extended = TRUE
  BY PrefixedState
<1>b. r = IF release THEN keyboard(p, key.code + BREAK) ELSE keyboard(p, key.code)
  <2>1. key.code + 0 = key.code
    <3>1. key.code \in 1 .. 127
      BY KeyType
    <3> QED BY <3>1
  <2> QED BY <2>1 DEF Struck
<1>c. key.code \in (1 .. 127) \ {96} /\ key.ext \in BOOLEAN
  BY KeyType
<1>d. ASSUME NEW s, r = Silent(s) PROVE r.kb = s /\ r.call = <<>>
  BY <1>d DEF Silent
<1>e. ASSUME NEW s, NEW ch, r = Calls(s, ch)
      PROVE  r.kb = s /\ r.call = <<[c |-> ch, st |-> s.kstate]>>
  BY <1>e DEF Calls
<1>f. /\ BACKSPACE \notin DOMAIN Arrow /\ BACKSPACE \notin SHIFTS /\ BACKSPACE # CAPSLOCK
      /\ CAPSLOCK \notin DOMAIN Arrow /\ CAPSLOCK \notin SHIFTS
      /\ SHIFTS \cap DOMAIN Arrow = {}
  BY Arrows DEF BACKSPACE, SHIFTS, CAPSLOCK
<1>g. {"SHIFT", "BCKSP", "CAPS"} \subseteq Flags
  BY DEF Flags
<1>h. /\ \A f \in Flags : With(p, f) \in DriverState /\ Without(p, f) \in DriverState
      /\ \A f \in Flags : With(p, f).kstate = k.kstate \cup {f}
      /\ \A f \in Flags : Without(p, f).kstate = k.kstate \ {f}
      /\ \A f \in Flags : With(p, f).extended = p.extended
      /\ \A f \in Flags : Without(p, f).extended = p.extended
  BY <1>a, Branches
<1> HIDE DEF p, r
<1> SUFFICES /\ r.kb \in DriverState
             /\ r.kb.extended = TRUE <=>
                  key.code \notin DOMAIN Arrow /\ (key.ext = TRUE \/ k.extended = TRUE)
             /\ ~Confused(k, key) => /\ r.kb.kstate = Flagged(k.kstate, key, release)
                                     /\ r.call = Called(r.kb.kstate, key, release)
             /\ "SHIFT" \in r.kb.kstate <=>
                  IF key.code \in SHIFTS THEN release # TRUE ELSE "SHIFT" \in k.kstate
  BY DEF r
<1>1. CASE key.code = BACKSPACE
  <2>1. FlagOf(key) = {"BCKSP"}
    BY <1>1, <1>f, Zenon DEF FlagOf
  <2>2. CASE release = TRUE
    <3>1. r = Silent(Without(p, "BCKSP"))
      BY <1>1, <1>b, <1>c, <2>2, Handled
    <3>2. r.kb = Without(p, "BCKSP") /\ r.call = <<>>
      BY <3>1, <1>d
    <3> QED BY <1>1, <1>a, <1>f, <1>g, <2>1, <2>2, <3>2, <1>h DEF Flagged, Called
  <2>3. CASE release # TRUE
    <3>1. r = Calls(With(p, "BCKSP"), 0)
      BY <1>1, <1>b, <1>c, <2>3, Handled
    <3>2. r.kb = With(p, "BCKSP") /\ r.call = <<[c |-> 0, st |-> With(p, "BCKSP").kstate]>>
      BY <3>1, <1>e
    <3>3. /\ Flagged(k.kstate, key, release) = k.kstate \cup {"BCKSP"}
          /\ Called(r.kb.kstate, key, release) = <<[c |-> 0, st |-> r.kb.kstate]>>
      BY <1>1, <1>f, <2>1, <2>3 DEF Flagged, Called
    <3>4. /\ r.kb \in DriverState /\ r.kb.kstate = k.kstate \cup {"BCKSP"}
          /\ r.kb.extended = p.extended
      BY <1>g, <1>h, <3>2
    <3> QED BY <1>1, <1>a, <1>f, <3>2, <3>3, <3>4
  <2> QED BY <2>2, <2>3
<1>2. CASE key.code \in SHIFTS
  <2>1. /\ FlagOf(key) = {"SHIFT"} /\ ~Plain(key)
        /\ key.code \notin DOMAIN Arrow /\ key.code # CAPSLOCK /\ key.code # BACKSPACE
    BY <1>2, <1>f, Zenon DEF FlagOf, Plain
  <2>2. CASE release = TRUE
    <3>1. r = Silent(Without(p, "SHIFT"))
      BY <1>2, <1>b, <1>c, <2>2, Handled
    <3>2. r.kb = Without(p, "SHIFT") /\ r.call = <<>>
      BY <3>1, <1>d
    <3>3. /\ Flagged(k.kstate, key, release) = k.kstate \ {"SHIFT"}
          /\ Called(r.kb.kstate, key, release) = <<>>
      BY <2>1, <2>2 DEF Flagged, Called
    <3>4. r.kb \in DriverState /\ r.kb.kstate = k.kstate \ {"SHIFT"} /\ r.kb.extended = p.extended
      BY <1>g, <1>h, <3>2
    <3> QED BY <1>2, <1>a, <2>1, <2>2, <3>2, <3>3, <3>4
  <2>3. CASE release # TRUE
    <3>1. r = Silent(With(p, "SHIFT"))
      BY <1>2, <1>b, <1>c, <2>3, Handled
    <3>2. r.kb = With(p, "SHIFT") /\ r.call = <<>>
      BY <3>1, <1>d
    <3>3. /\ Flagged(k.kstate, key, release) = k.kstate \cup {"SHIFT"}
          /\ Called(r.kb.kstate, key, release) = <<>>
      BY <2>1, <2>3 DEF Flagged, Called
    <3>4. /\ r.kb \in DriverState /\ r.kb.kstate = k.kstate \cup {"SHIFT"}
          /\ r.kb.extended = p.extended
      BY <1>g, <1>h, <3>2
    <3> QED BY <1>2, <1>a, <2>1, <2>3, <3>2, <3>3, <3>4
  <2> QED BY <2>2, <2>3
<1>3. CASE key.code = CAPSLOCK
  <2>1. ~Plain(key)
    BY <1>3 DEF Plain
  <2>2. CASE release = TRUE
    <3>1. r = Silent(p)
      BY <1>3, <1>b, <1>c, <2>2, Handled
    <3>2. r.kb = p /\ r.call = <<>>
      BY <3>1, <1>d
    <3> QED BY <1>3, <1>a, <1>f, <2>1, <2>2, <3>2 DEF Flagged, Called
  <2>3. CASE release # TRUE
    <3>1. r = Silent(IF "CAPS" \in p.kstate THEN Without(p, "CAPS") ELSE With(p, "CAPS"))
      BY <1>3, <1>b, <1>c, <2>3, Handled
    <3>2. /\ r.kb = IF "CAPS" \in p.kstate THEN Without(p, "CAPS") ELSE With(p, "CAPS")
          /\ r.call = <<>>
      BY <3>1, <1>d
    <3>3. Called(r.kb.kstate, key, release) = <<>>
      BY <1>3, <1>f, <2>1, <2>3 DEF Called
    <3>4. /\ r.kb \in DriverState /\ r.kb.kstate = Flagged(k.kstate, key, release)
          /\ r.kb.extended = p.extended
      <4>1. CASE "CAPS" \in k.kstate
        <5>1. r.kb = Without(p, "CAPS")
          BY <4>1, <1>a, <3>2
        <5> QED BY <5>1, <4>1, <1>3, <1>g, <1>h, <2>3 DEF Flagged
      <4>2. CASE "CAPS" \notin k.kstate
        <5>1. r.kb = With(p, "CAPS")
          BY <4>2, <1>a, <3>2
        <5> QED BY <5>1, <4>2, <1>3, <1>g, <1>h, <2>3 DEF Flagged
      <4> QED BY <4>1, <4>2
    <3>5. "SHIFT" \in r.kb.kstate <=> "SHIFT" \in k.kstate
      BY <1>3, <2>3, <3>4 DEF Flagged
    <3> QED BY <1>3, <1>a, <1>f, <3>2, <3>3, <3>4, <3>5
  <2> QED BY <2>2, <2>3
<1>4. CASE key.code \in DOMAIN Arrow
  <2> DEFINE f == Arrow[key.code]
  <2>1. f \in Flags /\ f # "SHIFT"
    BY <1>4, Arrows DEF Flags
  <2>2. r = ArrowKey(p, f, release)
    <3>1. /\ keyboard(p, key.code) = ArrowKey(p, f, FALSE)
          /\ keyboard(p, key.code + BREAK) = ArrowKey(p, f, TRUE)
      BY <1>4, <1>c, Handled, Zenon
    <3>2. CASE release = TRUE
      BY <1>b, <3>1, <3>2
    <3>3. CASE release # TRUE
      BY <1>b, <3>1, <3>3
    <3> QED BY <3>2, <3>3
  <2>3. key.ext = TRUE => FlagOf(key) = {f}
    BY <1>4 DEF FlagOf
  <2>4. key.ext # TRUE => FlagOf(key) = {}
    BY <1>4, <1>f DEF FlagOf
  <2> HIDE DEF f
  <2>5. /\ r.kb \in DriverState /\ r.kb.extended # TRUE
        /\ p.extended # TRUE => r.kb.kstate = p.kstate /\ r.call = <<>>
        /\ p.extended = TRUE =>
             /\ release = TRUE => r.kb.kstate = p.kstate \ {f}
             /\ release # TRUE => r.kb.kstate = p.kstate \cup {f}
             /\ r.call = <<[c |-> 0, st |-> r.kb.kstate]>>
    <3>1. p \in DriverState /\ f \in Flags
      BY <1>a, <2>1
    <3>2. CASE p.extended # TRUE
      <4>1. r = Silent(p)
        BY <2>2, <3>1, <3>2 DEF ArrowKey, DriverState
      <4>2. r.kb = p /\ r.call = <<>>
        BY <4>1, <1>d
      <4> QED BY <3>1, <3>2, <4>2
    <3>3. CASE p.extended = TRUE
      <4> DEFINE m == IF release THEN Without(p, f) ELSE With(p, f)
                 n == [m EXCEPT !.extended = FALSE]
      <4>1. /\ m \in DriverState
            /\ release = TRUE => m.kstate = p.kstate \ {f}
            /\ release # TRUE => m.kstate = p.kstate \cup {f}
        BY <3>1, <1>a, <1>h
      <4>2. r = Calls(n, 0)
        BY <2>2, <3>3 DEF ArrowKey
      <4> HIDE DEF m
      <4>3. n \in DriverState /\ n.kstate = m.kstate /\ n.extended # TRUE
        BY <4>1 DEF DriverState
      <4> HIDE DEF n
      <4>4. r.kb = n /\ r.call = <<[c |-> 0, st |-> n.kstate]>>
        BY <4>2, <1>e
      <4> QED BY <3>3, <4>1, <4>3, <4>4
    <3> QED BY <3>2, <3>3
  <2>6. p.extended \in BOOLEAN /\ k.extended \in BOOLEAN
    BY <1>a DEF DriverState
  <2>7. "SHIFT" \in r.kb.kstate <=> "SHIFT" \in k.kstate
    BY <1>a, <2>1, <2>5, <2>6
  <2>8. CASE key.ext = TRUE
    BY <2>8, <1>4, <1>a, <1>f, <2>3, <2>5, <2>7 DEF Flagged, Called
  <2>9. CASE key.ext # TRUE
    BY <2>9, <1>4, <1>a, <1>f, <2>4, <2>5, <2>6, <2>7 DEF Flagged, Called, Confused
  <2> QED BY <1>c, <2>8, <2>9
<1>5. CASE Plain(key)
  <2>1. FlagOf(key) = {}
    BY <1>5 DEF FlagOf, Plain
  <2>2. CASE release = TRUE
    <3>1. r = Silent(p)
      BY <1>5, <1>b, <1>c, <2>2, Handled DEF Plain
    <3>2. r.kb = p /\ r.call = <<>>
      BY <3>1, <1>d
    <3> QED BY <1>5, <1>a, <2>1, <2>2, <3>2 DEF Flagged, Called, Plain
  <2>3. CASE release # TRUE
    <3>1. r = CharKey(p, key.code)
      BY <1>5, <1>b, <1>c, <2>3, Handled DEF Plain
    <3>2. /\ r.kb = p
          /\ r.call = IF Translate(p.kstate, key.code) = 0 THEN <<>>
                      ELSE <<[c |-> Translate(p.kstate, key.code), st |-> p.kstate]>>
      <4>1. ~(key.code >= BREAK)
        BY <1>c DEF BREAK
      <4> QED BY <3>1, <4>1, <1>d, <1>e DEF CharKey
    <3> QED BY <1>5, <1>a, <2>1, <2>3, <3>2 DEF Flagged, Called, Plain
  <2> QED BY <2>2, <2>3
<1> QED BY <1>1, <1>2, <1>3, <1>4, <1>5 DEF Plain

-----------------------------------------------------------------------------

\* The driver's tables give a key the character it stands for.
LEMMA Meant ==
  ASSUME NEW key \in Keys, NEW fl
  PROVE  /\ Meaning(key, fl) = Translate(fl, key.code)
         /\ Translate(fl, key.code) \in Nat
<1> DEFINE code == key.code
           shift == "SHIFT" \in fl
<1>1. code \in 1 .. 127
  BY KeyType
<1>2. CASE code \in 1 .. 57
  <2>1. Lookup(code, FALSE) = keymap[code] /\ Lookup(code, TRUE) = keymap_shift[code]
    BY <1>2, TableLen DEF Lookup
  <2>2. Lookup(code, shift) = IF shift THEN keymap_shift[code] ELSE keymap[code]
    BY <1>2, TableLen DEF Lookup
  <2>3. /\ keymap[code] \in 0 .. 122 /\ keymap_shift[code] \in 0 .. 126
        /\ IsLower(keymap[code]) => keymap_shift[code] = keymap[code] - 32
        /\ ~IsLower(keymap[code]) => ~IsAlpha(keymap[code]) /\ ~IsAlpha(keymap_shift[code])
    BY <1>2, Tables
  <2>4. code \in 1 .. Len(keymap)
    BY <1>2, TableLen
  <2> HIDE DEF code
  <2>5. Meaning(key, fl) = IF IsLower(keymap[code])
                           THEN IF shift # ("CAPS" \in fl) THEN keymap[code] - 32 ELSE keymap[code]
                           ELSE IF shift THEN keymap_shift[code] ELSE keymap[code]
    BY <2>1, <2>2, <2>4 DEF Meaning, code
  <2>6. Translate(fl, code) =
          LET ch == IF shift THEN keymap_shift[code] ELSE keymap[code]
          IN  IF IsAlpha(ch) /\ "CAPS" \in fl THEN IF IsLower(ch) THEN ch - 32 ELSE ch + 32 ELSE ch
    BY <2>2 DEF Translate
  <2>7. CASE IsLower(keymap[code])
    <3>1. IsAlpha(keymap[code]) /\ IsAlpha(keymap_shift[code]) /\ ~IsLower(keymap_shift[code])
      BY <2>3, <2>7 DEF IsAlpha, IsLower
    <3>2. CASE shift
      BY <2>3, <2>5, <2>6, <2>7, <3>1, <3>2 DEF code
    <3>3. CASE ~shift
      BY <2>3, <2>5, <2>6, <2>7, <3>1, <3>3 DEF code, IsLower
    <3> QED BY <3>2, <3>3
  <2>8. CASE ~IsLower(keymap[code])
    BY <2>3, <2>5, <2>6, <2>8 DEF code
  <2> QED BY <2>7, <2>8
<1>3. CASE code \notin 1 .. 57
  <2>1. Meaning(key, fl) = Translate(fl, code)
    BY <1>3, TableLen DEF Meaning
  <2>2. Lookup(code, shift) \in 0 .. 255
    <3>1. code \in 58 .. 127
      BY <1>1, <1>3
    <3>2. Lookup(code, shift) = Beyond[shift][code]
      BY <1>3, TableLen DEF Lookup
    <3>3. shift \in BOOLEAN
      OBVIOUS
    <3> HIDE DEF shift, code
    <3>4. \A b \in BOOLEAN : \A sc \in {0} \cup 58 .. 127 : Beyond[b][sc] \in 0 .. 255
      BY KeyboardAssumption, Zenon
    <3>5. Beyond[shift][code] \in 0 .. 255
      BY <3>1, <3>3, <3>4, Zenon
    <3> QED BY <3>2, <3>5
  <2> QED BY <2>1, <2>2 DEF Translate, IsAlpha, IsLower
<1> QED BY <1>2, <1>3

\* The driver that has read everything makes the calls of the ideal one.
LEMMA CallsIdeal ==
  ASSUME NEW key \in Keys, NEW release \in BOOLEAN, NEW down, NEW cl
  PROVE  Called(HeldFlags(down, cl), key, release) = Ideal(key, release, down, cl)
<1> DEFINE fl == HeldFlags(down, cl)
           A == {"UP", "DOWN", "LEFT", "RIGHT"}
<1>1. /\ key.code \notin DOMAIN Arrow \/ key.ext # TRUE => FlagOf(key) \cap A = {}
      /\ key.code \in DOMAIN Arrow /\ key.ext = TRUE => FlagOf(key) \cap A # {}
  <2>1. \A a \in DOMAIN Arrow : Arrow[a] \in A
    BY Arrows
  <2> QED BY <2>1, KeyType DEF FlagOf
<1>2. Meaning(key, fl) = Translate(fl, key.code)
  BY Meant
<1>3. /\ BACKSPACE \notin DOMAIN Arrow /\ BACKSPACE \notin SHIFTS /\ BACKSPACE # CAPSLOCK
  BY Arrows DEF BACKSPACE, SHIFTS, CAPSLOCK
<1>4. Ideal(key, release, down, cl) =
        IF FlagOf(key) \cap A # {} THEN <<[c |-> 0, st |-> fl]>>
        ELSE IF release \/ key.code \in SHIFTS \cup {CAPSLOCK} \cup DOMAIN Arrow THEN <<>>
        ELSE IF key.code = BACKSPACE THEN <<[c |-> 0, st |-> fl]>>
        ELSE IF Translate(fl, key.code) = 0 THEN <<>>
        ELSE <<[c |-> Translate(fl, key.code), st |-> fl]>>
  BY <1>2 DEF Ideal
<1> HIDE DEF fl, A
<1>5. CASE key.code \in DOMAIN Arrow
  <2>1. CASE key.ext = TRUE
    BY <1>1, <1>4, <1>5, <2>1 DEF Called, fl
  <2>2. CASE key.ext # TRUE
    BY <1>1, <1>4, <1>5, <2>2, KeyType DEF Called, fl
  <2> QED BY <2>1, <2>2
<1>6. CASE key.code \notin DOMAIN Arrow
  BY <1>1, <1>3, <1>4, <1>6 DEF Called, fl, Plain
<1> QED BY <1>5, <1>6

LEMMA OneFlag ==
  ASSUME NEW key \in Keys
  PROVE  /\ "CAPS" \notin FlagOf(key) /\ FlagOf(key) \subseteq Flags
         /\ key.code = CAPSLOCK => FlagOf(key) = {}
         /\ "SHIFT" \in FlagOf(key) <=> key.code \in SHIFTS
         /\ \A f \in FlagOf(key) : FlagOf(key) = {f}
<1>1. CASE key.ext = TRUE /\ key.code \in DOMAIN Arrow
  BY <1>1, Arrows DEF FlagOf, Flags, CAPSLOCK, SHIFTS
<1>2. CASE ~(key.ext = TRUE /\ key.code \in DOMAIN Arrow)
  <2>1. FlagOf(key) = IF key.code = BACKSPACE THEN {"BCKSP"}
                      ELSE IF key.code \in SHIFTS THEN {"SHIFT"} ELSE {}
    BY <1>2, KeyType DEF FlagOf
  <2> QED BY <2>1 DEF Flags, CAPSLOCK, SHIFTS, BACKSPACE
<1> QED BY <1>1, <1>2

\* No two keys but the Shifts have the same flag.
LEMMA FlagIsKey ==
  ASSUME NEW a \in Keys, NEW b \in Keys, NEW f \in FlagOf(a), f \in FlagOf(b), f # "SHIFT"
  PROVE  a = b
<1>1. /\ a = [code |-> a.code, ext |-> a.ext] /\ b = [code |-> b.code, ext |-> b.ext]
      /\ a.ext \in BOOLEAN /\ b.ext \in BOOLEAN
      /\ a.code = BACKSPACE => a.ext # TRUE
      /\ b.code = BACKSPACE => b.ext # TRUE
  BY KeyType
<1>2. ASSUME NEW k \in {a, b}
      PROVE  \/ f = "BCKSP" /\ k.code = BACKSPACE
             \/ k.ext = TRUE /\ k.code \in DOMAIN Arrow /\ f = Arrow[k.code]
  BY <1>2 DEF FlagOf
<1>3. \A i \in DOMAIN Arrow : Arrow[i] # "BCKSP" /\ \A j \in DOMAIN Arrow : Arrow[i] = Arrow[j] => i = j
  BY Arrows
<1>4. a.code = b.code /\ (a.ext = TRUE <=> b.ext = TRUE)
  BY <1>1, <1>2, <1>3
<1>5. a.ext = b.ext
  BY <1>1, <1>4, Zenon
<1> QED BY <1>1, <1>4, <1>5, Zenon

\* The flags of the keys that are down, after each event.
LEMMA HeldPressed ==
  ASSUME NEW key \in Keys, NEW down \in SUBSET Keys, NEW cl \in BOOLEAN, NEW cl2 \in BOOLEAN,
         cl2 = IF key.code = CAPSLOCK THEN ~cl ELSE cl
  PROVE  HeldFlags(down \cup {key}, cl2) = Flagged(HeldFlags(down, cl), key, FALSE)
<1> DEFINE U == UNION {FlagOf(k) : k \in down}
<1>1. UNION {FlagOf(k) : k \in down \cup {key}} = U \cup FlagOf(key)
  OBVIOUS
<1>2. "CAPS" \notin U
  BY OneFlag
<1> HIDE DEF U
<1>3. /\ HeldFlags(down \cup {key}, cl2) = U \cup FlagOf(key) \cup (IF cl2 THEN {"CAPS"} ELSE {})
      /\ HeldFlags(down, cl) = U \cup (IF cl THEN {"CAPS"} ELSE {})
  BY <1>1 DEF HeldFlags, U
<1>4. CASE key.code = CAPSLOCK
  <2>1. FlagOf(key) = {} /\ cl2 = ~cl
    BY <1>4, OneFlag
  <2> QED BY <1>2, <1>3, <1>4, <2>1 DEF Flagged
<1>5. CASE key.code # CAPSLOCK
  BY <1>3, <1>5 DEF Flagged
<1> QED BY <1>4, <1>5

LEMMA HeldRepeated ==
  ASSUME NEW down \in SUBSET Keys, NEW key \in down, NEW cl \in BOOLEAN, key.code # CAPSLOCK
  PROVE  HeldFlags(down, cl) = Flagged(HeldFlags(down, cl), key, FALSE)
<1>1. FlagOf(key) \subseteq HeldFlags(down, cl)
  BY DEF HeldFlags
<1> QED BY <1>1 DEF Flagged

LEMMA HeldReleased ==
  ASSUME NEW down \in SUBSET Keys, NEW key \in down, NEW cl \in BOOLEAN,
         key.code \in SHIFTS => \A k \in down \ {key} : k.code \notin SHIFTS
  PROVE  HeldFlags(down \ {key}, cl) = Flagged(HeldFlags(down, cl), key, TRUE)
<1> DEFINE U == UNION {FlagOf(k) : k \in down \ {key}}
<1>1. UNION {FlagOf(k) : k \in down} = U \cup FlagOf(key)
  OBVIOUS
<1>2. U \cap FlagOf(key) = {}
  <2> SUFFICES ASSUME NEW k \in down \ {key}, NEW f \in FlagOf(key), f \in FlagOf(k) PROVE FALSE
    OBVIOUS
  <2>1. CASE f = "SHIFT"
    <3>1. key.code \in SHIFTS /\ k.code \in SHIFTS
      BY <2>1, OneFlag
    <3> QED BY <3>1
  <2>2. CASE f # "SHIFT"
    BY <2>2, FlagIsKey
  <2> QED BY <2>1, <2>2
<1>3. "CAPS" \notin FlagOf(key) /\ (key.code = CAPSLOCK => FlagOf(key) = {})
  BY OneFlag
<1> HIDE DEF U
<1>4. /\ HeldFlags(down, cl) = U \cup FlagOf(key) \cup (IF cl THEN {"CAPS"} ELSE {})
      /\ HeldFlags(down \ {key}, cl) = U \cup (IF cl THEN {"CAPS"} ELSE {})
  BY <1>1 DEF HeldFlags, U
<1> QED BY <1>2, <1>3, <1>4 DEF Flagged

-----------------------------------------------------------------------------
(***************************************************************************)
(* The inductive invariant looks ahead: it follows the driver over the     *)
(* bytes still on the wire, to the state it will have once they are read.  *)
(***************************************************************************)

Call == [c : Nat, st : SUBSET Flags]

\* The driver and its calls so far after one more byte.
Read(s, b) ==
  [kb |-> keyboard(s.kb, b).kb, calls |-> s.calls \o keyboard(s.kb, b).call]

\* t[n] is the driver after the first n bytes of the wire.
IsRun(t, w) == \A n \in 1 .. Len(w) : t[n] = Read(t[n - 1], w[n])

\* Calls that only calls have to be added to.
Begins(a, b) == a \in Seq(Call) /\ \E r \in Seq(Call) : b = a \o r

\* The driver when it has read everything.
AtEnd(e) ==
  /\ e.kb \in DriverState
  /\ "SHIFT" \in e.kb.kstate => \E k \in held : k.code \in SHIFTS
  /\ ~odd => /\ e.calls = due
             /\ e.kb.kstate = HeldFlags(held, caps)
             /\ e.kb.extended = TRUE <=> stale

LooksAhead ==
  \E t : /\ t[0] = [kb |-> kb, calls |-> calls]
         /\ IsRun(t, wire)
         /\ AtEnd(t[Len(wire)])
         /\ ~odd => \A n \in 0 .. Len(wire) : Begins(t[n].calls, due)

Typed ==
  /\ held \subseteq Keys /\ last \subseteq held /\ caps \in BOOLEAN
  /\ odd \in BOOLEAN /\ stale \in BOOLEAN
  /\ wire \in Seq(Nat) /\ due \in Seq(Call)

IInv == Typed /\ LooksAhead

LEMMA ConcatSeq ==
  ASSUME NEW S, NEW a \in Seq(S), NEW b \in Seq(S)
  PROVE  a \o b \in Seq(S)
BY ConcatProperties

LEMMA ConcatAssoc ==
  ASSUME NEW S, NEW a \in Seq(S), NEW b \in Seq(S), NEW c \in Seq(S)
  PROVE  (a \o b) \o c = a \o (b \o c)
OBVIOUS

LEMMA ConcatEmpty ==
  ASSUME NEW S, NEW a \in Seq(S)
  PROVE  a \o <<>> = a /\ <<>> \o a = a /\ <<>> \in Seq(S)
OBVIOUS

LEMMA InitIInv == Init => IInv
<1> SUFFICES ASSUME Init PROVE IInv
  OBVIOUS
<1>1. Typed
  <2>1. caps \in BOOLEAN /\ odd \in BOOLEAN /\ stale \in BOOLEAN
    BY Zenon DEF Init
  <2>2. held \subseteq Keys /\ last \subseteq held /\ wire \in Seq(Nat) /\ due \in Seq(Call)
    BY DEF Init
  <2> QED BY <2>1, <2>2, Zenon DEF Typed
<1>2. LooksAhead
  <2> DEFINE e == [kb |-> kb, calls |-> calls]
             t == [n \in {0} |-> e]
  <2>1. Len(wire) = 0 /\ t[0] = e
    BY DEF Init
  <2>2. e.kb = keyboard_init /\ e.calls = <<>> /\ due = <<>> /\ stale = FALSE
    BY DEF Init
  <2>3. /\ keyboard_init \in DriverState /\ keyboard_init.kstate = {}
        /\ keyboard_init.extended # TRUE
    BY DEF keyboard_init, DriverState
  <2>4. HeldFlags(held, caps) = {}
    BY DEF Init, HeldFlags
  <2>5. AtEnd(e)
    BY <2>2, <2>3, <2>4 DEF AtEnd
  <2>6. Begins(e.calls, due)
    <3>1. <<>> \in Seq(Call) /\ <<>> = <<>> \o <<>>
      OBVIOUS
    <3> QED BY <2>2, <3>1 DEF Begins
  <2>7. IsRun(t, wire)
    BY <2>1 DEF IsRun
  <2> HIDE DEF t, e
  <2>8. \A n \in 0 .. Len(wire) : Begins(t[n].calls, due)
    BY <2>1, <2>6
  <2> QED BY <2>1, <2>5, <2>7, <2>8 DEF LooksAhead, e
<1> QED BY <1>1, <1>2 DEF IInv

\* One interrupt: the run loses its first state.
LEMMA IrqIInv == IInv /\ Irq => IInv'
<1> SUFFICES ASSUME IInv, Irq PROVE IInv'
  OBVIOUS
<1>1. /\ wire \in Seq(Nat) /\ wire # <<>> /\ wire' = Tail(wire)
      /\ UNCHANGED <<held, last, caps, due, odd, stale>>
  BY DEF IInv, Typed, Irq
<1>2. /\ Head(wire) = wire[1] /\ wire' \in Seq(Nat) /\ Len(wire) \in Nat /\ Len(wire) >= 1
      /\ Len(wire') = Len(wire) - 1 /\ \A n \in 1 .. Len(wire') : wire'[n] = wire[n + 1]
  BY <1>1
<1>3. Typed'
  BY <1>1, <1>2 DEF IInv, Typed
<1>4. PICK t : /\ t[0] = [kb |-> kb, calls |-> calls]
               /\ IsRun(t, wire)
               /\ AtEnd(t[Len(wire)])
               /\ ~odd => \A n \in 0 .. Len(wire) : Begins(t[n].calls, due)
  BY Zenon DEF IInv, LooksAhead
<1>5. PICK u : \A n \in 0 .. Len(wire') : u[n] = t[n + 1] /\ n + 1 \in 1 .. Len(wire)
  <2> DEFINE v == [n \in 0 .. Len(wire') |-> t[n + 1]]
  <2>1. \A n \in 0 .. Len(wire') : v[n] = t[n + 1] /\ n + 1 \in 1 .. Len(wire)
    BY <1>2
  <2> HIDE DEF v
  <2> QED BY <2>1
<1>6. u[0] = [kb |-> kb', calls |-> calls']
  <2>1. u[0] = t[1] /\ t[1] = Read(t[0], wire[1])
    BY <1>2, <1>4, <1>5 DEF IsRun
  <2>2. t[0].kb = kb /\ t[0].calls = calls
    BY <1>4
  <2>3. kb' = keyboard(kb, wire[1]).kb /\ calls' = calls \o keyboard(kb, wire[1]).call
    BY <1>2 DEF Irq
  <2> QED BY <2>1, <2>2, <2>3 DEF Read
<1>7. IsRun(u, wire')
  <2> SUFFICES ASSUME NEW n \in 1 .. Len(wire') PROVE u[n] = Read(u[n - 1], wire'[n])
    BY DEF IsRun
  <2>1. /\ u[n] = t[n + 1] /\ n + 1 \in 1 .. Len(wire) /\ wire'[n] = wire[n + 1]
        /\ n - 1 \in 0 .. Len(wire') /\ (n - 1) + 1 = n /\ (n + 1) - 1 = n
    BY <1>2, <1>5
  <2>2. u[n - 1] = t[n]
    BY <1>5, <2>1
  <2>3. t[n + 1] = Read(t[n], wire[n + 1])
    BY <1>4, <2>1 DEF IsRun
  <2> QED BY <2>1, <2>2, <2>3
<1>8. PICK e : e = t[Len(wire)]
  OBVIOUS
<1>9. AtEnd(e)'
  <2>1. AtEnd(e)
    BY <1>4, <1>8
  <2> QED BY <1>1, <2>1 DEF AtEnd
<1>10. ~odd => \A n \in 0 .. Len(wire') : Begins(u[n].calls, due)
  BY <1>2, <1>4, <1>5
<1>11. u[Len(wire')] = e
  BY <1>2, <1>5, <1>8
<1>12. LooksAhead'
  <2>1. due' = due /\ odd' = odd
    BY <1>1
  <2> QED BY <1>6, <1>7, <1>9, <1>10, <1>11, <2>1 DEF LooksAhead
<1> QED BY <1>3, <1>12 DEF IInv

\* The ideal driver's calls are calls.
LEMMA IdealType ==
  ASSUME NEW key \in Keys, NEW release \in BOOLEAN, NEW down \in SUBSET Keys, NEW cl \in BOOLEAN
  PROVE  Ideal(key, release, down, cl) \in Seq(Call)
<1> DEFINE fl == HeldFlags(down, cl)
<1>1. fl \in SUBSET Flags
  <2>1. \A k \in down : FlagOf(k) \subseteq Flags
    BY OneFlag
  <2>2. "CAPS" \in Flags
    BY DEF Flags
  <2> QED BY <2>1, <2>2 DEF HeldFlags
<1>2. Translate(fl, key.code) \in Nat
  BY Meant
<1>3. Ideal(key, release, down, cl) = Called(fl, key, release)
  BY CallsIdeal
<1> HIDE DEF fl
<1>4. \A n \in Nat : <<[c |-> n, st |-> fl]>> \in Seq(Call)
  BY <1>1 DEF Call
<1>5. <<>> \in Seq(Call)
  OBVIOUS
<1>6. \/ Called(fl, key, release) = <<>>
      \/ Called(fl, key, release) = <<[c |-> 0, st |-> fl]>>
      \/ Called(fl, key, release) = <<[c |-> Translate(fl, key.code), st |-> fl]>>
  BY DEF Called
<1> QED BY <1>2, <1>3, <1>4, <1>5, <1>6

LEMMA ByteNat == \A i \in 1 .. 127 : i + BREAK \in Nat /\ i + 0 \in Nat
BY DEF BREAK

\* The run t of the wire w, which ends in e, goes on over the wire v and the
\* bytes of one event: by way of m, if the key is extended, to z.
GoesOn(t, w, v, e, key, release) ==
  \E u, m, z :
    /\ IsRun(u, v) /\ u[0] = t[0] /\ u[Len(v)] = z
    /\ \A n \in 0 .. Len(v) :
         \/ n \in 0 .. Len(w) /\ u[n] = t[n]
         \/ u[n] = m \/ u[n] = z
    /\ m.kb = Prefixed(e.kb, key)
    /\ m.calls = IF key.ext THEN e.calls \o <<>> ELSE e.calls
    /\ z.kb = Struck(e.kb, key, release).kb
    /\ z.calls = m.calls \o Struck(e.kb, key, release).call

LEMMA RunOn ==
  ASSUME NEW w \in Seq(Nat), NEW t, IsRun(t, w), NEW key \in Keys, NEW release \in BOOLEAN,
         NEW e, e = t[Len(w)]
  PROVE  /\ w \o Bytes(key, release) \in Seq(Nat)
         /\ GoesOn(t, w, w \o Bytes(key, release), e, key, release)
<1> DEFINE b == key.code + (IF release THEN BREAK ELSE 0)
           bs == Bytes(key, release)
           v == w \o bs
           L == Len(w)
<1>1. b \in Nat
  <2>1. key.code \in 1 .. 127
    BY KeyType
  <2> QED BY <2>1, ByteNat, Zenon
<1>2. E0 \in Nat /\ key.ext \in BOOLEAN
  BY KeyType DEF E0
<1> HIDE DEF b, E0
<1>3. /\ bs \in Seq(Nat)
      /\ key.ext = TRUE => Len(bs) = 2 /\ bs[1] = E0 /\ bs[2] = b
      /\ key.ext # TRUE => Len(bs) = 1 /\ bs[1] = b
  <2> DEFINE x == <<E0>>
             y == <<b>>
  <2>1. /\ x \in Seq(Nat) /\ Len(x) = 1 /\ x[1] = E0
        /\ y \in Seq(Nat) /\ Len(y) = 1 /\ y[1] = b
    BY <1>1, <1>2
  <2>2. bs = (IF key.ext THEN x ELSE <<>>) \o y
    BY DEF Bytes, b
  <2> HIDE DEF x, y, bs
  <2>3. CASE key.ext = TRUE
    <3>1. bs = x \o y
      BY <2>2, <2>3
    <3>2. /\ bs \in Seq(Nat) /\ Len(bs) = Len(x) + Len(y)
          /\ \A n \in 1 .. Len(x) + Len(y) : bs[n] = IF n <= Len(x) THEN x[n] ELSE y[n - Len(x)]
      BY <2>1, <3>1, ConcatProperties, Zenon
    <3>3. Len(bs) = 2
      BY <2>1, <3>2
    <3>4. bs[1] = x[1]
      BY <2>1, <3>2
    <3>5. bs[2] = y[1]
      BY <2>1, <3>2
    <3> QED BY <2>1, <2>3, <3>2, <3>3, <3>4, <3>5
  <2>4. CASE key.ext # TRUE
    <3>1. bs = <<>> \o y
      BY <1>2, <2>2, <2>4
    <3>2. bs = y
      BY <2>1, <3>1, ConcatEmpty
    <3> QED BY <2>1, <2>4, <3>2
  <2> QED BY <2>3, <2>4
<1> HIDE DEF bs
<1>4. /\ v \in Seq(Nat) /\ Len(v) = Len(w) + Len(bs) /\ Len(w) \in Nat
      /\ \A n \in 1 .. Len(w) + Len(bs) : v[n] = IF n <= Len(w) THEN w[n] ELSE bs[n - Len(w)]
  BY <1>3, ConcatProperties, LenProperties, Zenon
<1> HIDE DEF v
<1>5. /\ \A n \in 1 .. L : v[n] = w[n]
      /\ key.ext = TRUE => Len(v) = L + 2 /\ v[L + 1] = E0 /\ v[L + 2] = b
      /\ key.ext # TRUE => Len(v) = L + 1 /\ v[L + 1] = b
  <2>1. \A n \in 1 .. L : v[n] = w[n]
    BY <1>3, <1>4, LenProperties
  <2>2. CASE key.ext = TRUE
    <3>1. Len(bs) = 2 /\ bs[1] = E0 /\ bs[2] = b
      BY <1>3, <2>2
    <3>2. Len(v) = L + 2 /\ v[L + 1] = bs[1] /\ v[L + 2] = bs[2]
      BY <1>4, <3>1
    <3> QED BY <2>1, <2>2, <3>1, <3>2
  <2>3. CASE key.ext # TRUE
    <3>1. Len(bs) = 1 /\ bs[1] = b
      BY <1>3, <2>3
    <3>2. Len(v) = L + 1 /\ v[L + 1] = bs[1]
      BY <1>4, <3>1
    <3> QED BY <2>1, <2>3, <3>1, <3>2
  <2> QED BY <2>2, <2>3
<1>6. L \in Nat /\ e = t[L]
  BY <1>4
<1>7. \A s : /\ Read(s, b).kb = keyboard(s.kb, b).kb
             /\ Read(s, b).calls = s.calls \o keyboard(s.kb, b).call
  BY DEF Read
<1>8. CASE key.ext = TRUE
  <2> DEFINE m == Read(e, E0)
             z == Read(m, b)
             u == [n \in 0 .. L + 2 |-> IF n <= L THEN t[n] ELSE IF n = L + 1 THEN m ELSE z]
  <2>1. m.kb = Prefixed(e.kb, key) /\ m.calls = e.calls \o <<>>
    <3>1. keyboard(e.kb, E0) = Silent([e.kb EXCEPT !.extended = TRUE])
      <4>1. 1 \in (1 .. 127) \ {96}
        OBVIOUS
      <4> QED BY <4>1, Handled
    <3>2. keyboard(e.kb, E0).kb = [e.kb EXCEPT !.extended = TRUE] /\ keyboard(e.kb, E0).call = <<>>
      BY <3>1 DEF Silent
    <3> QED BY <1>8, <3>2 DEF Read, Prefixed
  <2> HIDE DEF m
  <2>2. z.kb = Struck(e.kb, key, release).kb /\ z.calls = m.calls \o Struck(e.kb, key, release).call
    BY <1>7, <2>1 DEF Struck, b
  <2> HIDE DEF z
  <2>3. /\ \A n \in 0 .. L : u[n] = t[n]
        /\ u[L + 1] = m /\ u[L + 2] = z
    BY <1>6
  <2> HIDE DEF u
  <2>4. IsRun(u, v)
    <3> SUFFICES ASSUME NEW n \in 1 .. L + 2 PROVE u[n] = Read(u[n - 1], v[n])
      BY <1>5, <1>8 DEF IsRun
    <3>1. CASE n \in 1 .. L
      <4>1. n \in 0 .. L /\ n - 1 \in 0 .. L
        BY <1>6, <3>1
      <4>2. u[n] = t[n] /\ u[n - 1] = t[n - 1] /\ v[n] = w[n]
        BY <1>5, <2>3, <3>1, <4>1
      <4>3. t[n] = Read(t[n - 1], w[n])
        BY <3>1 DEF IsRun
      <4> QED BY <4>2, <4>3
    <3>2. CASE n = L + 1
      <4>1. u[n] = m /\ n - 1 = L /\ u[L] = e /\ v[n] = E0
        BY <1>5, <1>6, <1>8, <2>3, <3>2
      <4> QED BY <4>1 DEF m
    <3>3. CASE n = L + 2
      <4>1. u[n] = z /\ n - 1 = L + 1 /\ v[n] = b
        BY <1>5, <1>6, <1>8, <2>3, <3>3
      <4>2. u[n - 1] = m
        BY <4>1, <2>3
      <4> QED BY <4>1, <4>2 DEF z
    <3> QED BY <1>6, <3>1, <3>2, <3>3
  <2>5. u[0] = t[0] /\ u[Len(v)] = z
    BY <1>5, <1>6, <1>8, <2>3
  <2>6. ASSUME NEW n \in 0 .. Len(v)
        PROVE  (n \in 0 .. L /\ u[n] = t[n]) \/ u[n] = m \/ u[n] = z
    <3>1. n \in 0 .. L \/ n = L + 1 \/ n = L + 2
      BY <1>5, <1>6, <1>8
    <3> QED BY <2>3, <3>1
  <2>7. m.calls = IF key.ext THEN e.calls \o <<>> ELSE e.calls
    BY <1>8, <2>1
  <2> QED BY <1>4, <2>1, <2>2, <2>4, <2>5, <2>6, <2>7 DEF v, bs, GoesOn
<1>9. CASE key.ext # TRUE
  <2> DEFINE z == Read(e, b)
             u == [n \in 0 .. L + 1 |-> IF n <= L THEN t[n] ELSE z]
  <2>1. e.kb = Prefixed(e.kb, key)
    BY <1>9, KeyType DEF Prefixed
  <2>2. z.kb = Struck(e.kb, key, release).kb /\ z.calls = e.calls \o Struck(e.kb, key, release).call
    BY <1>7, <2>1 DEF Struck, b
  <2> HIDE DEF z
  <2>3. (\A n \in 0 .. L : u[n] = t[n]) /\ u[L + 1] = z
    BY <1>6
  <2> HIDE DEF u
  <2>4. IsRun(u, v)
    <3> SUFFICES ASSUME NEW n \in 1 .. L + 1 PROVE u[n] = Read(u[n - 1], v[n])
      BY <1>5, <1>9 DEF IsRun
    <3>1. CASE n \in 1 .. L
      <4>1. n \in 0 .. L /\ n - 1 \in 0 .. L
        BY <1>6, <3>1
      <4>2. u[n] = t[n] /\ u[n - 1] = t[n - 1] /\ v[n] = w[n]
        BY <1>5, <2>3, <3>1, <4>1
      <4>3. t[n] = Read(t[n - 1], w[n])
        BY <3>1 DEF IsRun
      <4> QED BY <4>2, <4>3
    <3>2. CASE n = L + 1
      <4>1. u[n] = z /\ n - 1 = L /\ u[L] = e /\ v[n] = b
        BY <1>5, <1>6, <1>9, <2>3, <3>2
      <4> QED BY <4>1 DEF z
    <3> QED BY <1>6, <3>1, <3>2
  <2>5. u[0] = t[0] /\ u[Len(v)] = z
    BY <1>5, <1>6, <1>9, <2>3
  <2>6. ASSUME NEW n \in 0 .. Len(v)
        PROVE  (n \in 0 .. L /\ u[n] = t[n]) \/ u[n] = e \/ u[n] = z
    <3>1. n \in 0 .. L \/ n = L + 1
      BY <1>5, <1>6, <1>9
    <3> QED BY <2>3, <3>1
  <2>7. e.calls = IF key.ext THEN e.calls \o <<>> ELSE e.calls
    BY <1>9, KeyType
  <2> QED BY <1>4, <2>1, <2>2, <2>4, <2>5, <2>6, <2>7 DEF v, bs, GoesOn
<1> QED BY <1>8, <1>9

\* An event: the run goes on over its bytes.
LEMMA EventIInv ==
  ASSUME IInv, NEW key \in Keys, NEW release \in BOOLEAN, NEW repeat \in BOOLEAN,
         Event(key, release, repeat),
         held' \subseteq Keys, last' \subseteq held', caps' \in BOOLEAN,
         ~Misread(key, release, repeat) =>
           HeldFlags(held', caps') = Flagged(HeldFlags(held, caps), key, release),
         release # TRUE => key \in held',
         held \ {key} \subseteq held'
  PROVE  IInv'
<1> DEFINE ideal == Ideal(key, release, held', caps')
<1>1. /\ wire' = wire \o Bytes(key, release) /\ due' = due \o ideal
      /\ odd' = (odd \/ Misread(key, release, repeat))
      /\ stale' = IF key.ext THEN key.code \notin DOMAIN Arrow
                  ELSE stale /\ key.code \notin DOMAIN Arrow
      /\ kb' = kb /\ calls' = calls
  BY DEF Event
<1>2. Typed /\ LooksAhead
  BY DEF IInv
<1>3. ideal \in Seq(Call)
  BY IdealType
<1> HIDE DEF ideal
<1>4. PICK t : /\ t[0] = [kb |-> kb, calls |-> calls]
               /\ IsRun(t, wire)
               /\ AtEnd(t[Len(wire)])
               /\ ~odd => \A n \in 0 .. Len(wire) : Begins(t[n].calls, due)
  BY <1>2, Zenon DEF LooksAhead
<1>5. PICK e : e = t[Len(wire)]
  OBVIOUS
<1>6. wire' \in Seq(Nat) /\ GoesOn(t, wire, wire', e, key, release)
  <2>1. wire \in Seq(Nat)
    BY <1>2 DEF Typed
  <2>2. /\ wire \o Bytes(key, release) \in Seq(Nat)
        /\ GoesOn(t, wire, wire \o Bytes(key, release), e, key, release)
    BY <1>4, <1>5, <2>1, RunOn
  <2> QED BY <1>1, <2>2
<1>7. PICK u, m, z :
           /\ IsRun(u, wire') /\ u[0] = t[0] /\ u[Len(wire')] = z
           /\ \A n \in 0 .. Len(wire') :
                \/ n \in 0 .. Len(wire) /\ u[n] = t[n]
                \/ u[n] = m \/ u[n] = z
           /\ m.kb = Prefixed(e.kb, key)
           /\ m.calls = IF key.ext THEN e.calls \o <<>> ELSE e.calls
           /\ z.kb = Struck(e.kb, key, release).kb
           /\ z.calls = m.calls \o Struck(e.kb, key, release).call
  BY <1>6, Zenon DEF GoesOn
<1>8. AtEnd(e)
  BY <1>4, <1>5
<1>9. e.kb \in DriverState
  BY <1>8 DEF AtEnd
<1> DEFINE r == Struck(e.kb, key, release)
<1>10. /\ r.kb \in DriverState
       /\ r.kb.extended = TRUE <=>
            key.code \notin DOMAIN Arrow /\ (key.ext = TRUE \/ e.kb.extended = TRUE)
       /\ ~Confused(e.kb, key) => /\ r.kb.kstate = Flagged(e.kb.kstate, key, release)
                                  /\ r.call = Called(r.kb.kstate, key, release)
       /\ "SHIFT" \in r.kb.kstate <=>
            IF key.code \in SHIFTS THEN release # TRUE ELSE "SHIFT" \in e.kb.kstate
  BY <1>9, Effect
<1> HIDE DEF r
<1>11. z.kb = r.kb /\ z.calls = m.calls \o r.call
  BY <1>7 DEF r
<1>12. "SHIFT" \in z.kb.kstate => \E k \in held' : k.code \in SHIFTS
  <2> SUFFICES ASSUME "SHIFT" \in z.kb.kstate PROVE \E k \in held' : k.code \in SHIFTS
    OBVIOUS
  <2>1. CASE key.code \in SHIFTS
    BY <1>10, <1>11, <2>1
  <2>2. CASE key.code \notin SHIFTS
    <3>1. "SHIFT" \in e.kb.kstate
      BY <1>10, <1>11, <2>2
    <3>2. PICK k \in held : k.code \in SHIFTS
      BY <1>8, <3>1 DEF AtEnd
    <3> QED BY <2>2, <3>2
  <2> QED BY <2>1, <2>2
<1>13. ASSUME ~odd'
       PROVE  /\ e.calls = due /\ due \in Seq(Call) /\ m.calls = due
              /\ ~odd /\ z.calls = due' /\ due' \in Seq(Call)
              /\ z.kb.kstate = HeldFlags(held', caps')
              /\ z.kb.extended = TRUE <=> stale'
  <2>1. ~odd /\ ~Misread(key, release, repeat)
    BY <1>1, <1>13
  <2>2. /\ e.calls = due /\ e.kb.kstate = HeldFlags(held, caps)
        /\ e.kb.extended = TRUE <=> stale
    BY <1>8, <2>1 DEF AtEnd
  <2>3. due \in Seq(Call) /\ stale \in BOOLEAN
    BY <1>2 DEF Typed
  <2>4. due \o <<>> = due
    BY <2>3, ConcatEmpty
  <2>5. m.calls = due
    BY <1>7, <2>2, <2>4
  <2>6. ~Confused(e.kb, key)
    BY <2>1, <2>2 DEF Misread, Confused
  <2>7. z.kb.kstate = HeldFlags(held', caps')
    BY <1>10, <1>11, <2>1, <2>2, <2>6
  <2>8. r.call = ideal
    <3>1. Called(HeldFlags(held', caps'), key, release) = ideal
      BY CallsIdeal DEF ideal
    <3> QED BY <1>10, <1>11, <2>6, <2>7, <3>1
  <2>9. z.calls = due' /\ due' \in Seq(Call)
    BY <1>1, <1>3, <1>11, <2>3, <2>5, <2>8, ConcatSeq
  <2>10. z.kb.extended = TRUE <=> stale'
    BY <1>1, <1>10, <1>11, <2>2, <2>3, KeyType
  <2> QED BY <2>1, <2>2, <2>3, <2>5, <2>7, <2>9, <2>10
<1>14. AtEnd(z)'
  BY <1>10, <1>11, <1>12, <1>13 DEF AtEnd
<1>15. ASSUME ~odd', NEW n \in 0 .. Len(wire') PROVE Begins(u[n].calls, due)'
  <2>1. \A a \in Seq(Call) : Begins(a, due) => Begins(a, due')
    <3> SUFFICES ASSUME NEW a \in Seq(Call), NEW x \in Seq(Call), due = a \o x
                 PROVE  Begins(a, due')
      BY DEF Begins
    <3>1. due' = a \o (x \o ideal)
      BY <1>1, <1>3, ConcatAssoc
    <3>2. x \o ideal \in Seq(Call)
      BY <1>3, ConcatSeq
    <3> QED BY <3>1, <3>2 DEF Begins
  <2>2. CASE n \in 0 .. Len(wire) /\ u[n] = t[n]
    <3>1. Begins(t[n].calls, due)
      BY <1>4, <1>13, <1>15, <2>2
    <3>2. t[n].calls \in Seq(Call)
      BY <3>1 DEF Begins
    <3> QED BY <2>1, <2>2, <3>1, <3>2
  <2>3. CASE u[n] = m
    <3>1. due \in Seq(Call) /\ due' = due \o ideal
      BY <1>1, <1>13, <1>15
    <3> QED BY <1>3, <1>13, <1>15, <2>3, <3>1 DEF Begins
  <2>4. CASE u[n] = z
    <3>1. due' = due' \o <<>> /\ <<>> \in Seq(Call)
      BY <1>13, <1>15, ConcatEmpty
    <3> QED BY <1>13, <1>15, <2>4, <3>1 DEF Begins
  <2> QED BY <1>7, <1>15, <2>2, <2>3, <2>4
<1>16. LooksAhead'
  BY <1>1, <1>4, <1>7, <1>14, <1>15 DEF LooksAhead
<1>17. Typed'
  <2>1. due' \in Seq(Call)
    BY <1>1, <1>2, <1>3, ConcatSeq DEF Typed
  <2>2. odd' \in BOOLEAN /\ stale' \in BOOLEAN
    BY <1>1, <1>2 DEF Typed
  <2> QED BY <1>6, <2>1, <2>2 DEF Typed
<1> QED BY <1>16, <1>17 DEF IInv

LEMMA NextIInv == IInv /\ [Next]_vars => IInv'
<1> SUFFICES ASSUME IInv, [Next]_vars PROVE IInv'
  OBVIOUS
<1>a. held \in SUBSET Keys /\ last \subseteq held /\ caps \in BOOLEAN
  BY DEF IInv, Typed
<1>1. ASSUME NEW key \in Keys, Press(key) PROVE IInv'
  <2>1. /\ held' = held \cup {key} /\ last' = {key} /\ Event(key, FALSE, FALSE)
        /\ caps' = IF key.code = CAPSLOCK THEN ~caps ELSE caps
    BY <1>1 DEF Press
  <2>2. caps' \in BOOLEAN
    BY <1>a, <2>1
  <2>3. HeldFlags(held', caps') = Flagged(HeldFlags(held, caps), key, FALSE)
    BY <1>a, <2>1, <2>2, HeldPressed
  <2>4. /\ held' \subseteq Keys /\ last' \subseteq held' /\ key \in held'
        /\ held \ {key} \subseteq held'
    BY <1>a, <2>1
  <2> QED BY <2>1, <2>2, <2>3, <2>4, EventIInv
<1>2. ASSUME NEW key \in Keys, Repeat(key) PROVE IInv'
  <2>1. key \in last /\ UNCHANGED <<held, last, caps>> /\ Event(key, FALSE, TRUE)
    BY <1>2 DEF Repeat
  <2>2. key \in held
    BY <1>a, <2>1
  <2>3. ~Misread(key, FALSE, TRUE) =>
          HeldFlags(held', caps') = Flagged(HeldFlags(held, caps), key, FALSE)
    <3>1. ~Misread(key, FALSE, TRUE) => key.code # CAPSLOCK
      BY DEF Misread
    <3> QED BY <1>a, <2>1, <2>2, <3>1, HeldRepeated
  <2>4. /\ held' \subseteq Keys /\ last' \subseteq held' /\ key \in held' /\ caps' \in BOOLEAN
        /\ held \ {key} \subseteq held'
    BY <1>a, <2>1, <2>2
  <2> QED BY <2>1, <2>3, <2>4, EventIInv
<1>3. ASSUME NEW key \in Keys, Release(key) PROVE IInv'
  <2>1. /\ key \in held /\ held' = held \ {key} /\ last' = last \ {key} /\ UNCHANGED caps
        /\ Event(key, TRUE, FALSE)
    BY <1>3 DEF Release
  <2>2. ~Misread(key, TRUE, FALSE) =>
          HeldFlags(held', caps') = Flagged(HeldFlags(held, caps), key, TRUE)
    <3>1. ~Misread(key, TRUE, FALSE) =>
            (key.code \in SHIFTS => \A k \in held \ {key} : k.code \notin SHIFTS)
      BY DEF Misread
    <3> QED BY <1>a, <2>1, <3>1, HeldReleased
  <2>3. /\ held' \subseteq Keys /\ last' \subseteq held' /\ caps' \in BOOLEAN
        /\ held \ {key} \subseteq held'
    BY <1>a, <2>1
  <2> QED BY <2>1, <2>2, <2>3, EventIInv
<1>4. CASE UNCHANGED vars
  <2>1. Typed'
    BY <1>4 DEF IInv, Typed, vars
  <2>2. LooksAhead'
    BY <1>4 DEF IInv, LooksAhead, AtEnd, vars
  <2> QED BY <2>1, <2>2 DEF IInv
<1> QED BY <1>1, <1>2, <1>3, <1>4, IrqIInv DEF Next

LEMMA Drained ==
  ASSUME IInv, wire = <<>>
  PROVE  AtEnd([kb |-> kb, calls |-> calls])
<1>1. PICK t : t[0] = [kb |-> kb, calls |-> calls] /\ AtEnd(t[Len(wire)])
  BY Zenon DEF IInv, LooksAhead
<1>2. Len(wire) = 0
  OBVIOUS
<1> QED BY <1>1, <1>2

LEMMA BeginsIsPrefix ==
  ASSUME NEW a, NEW b, Begins(a, b)
  PROVE  IsPrefix(a, b)
<1>1. PICK r \in Seq(Call) : b = a \o r
  BY DEF Begins
<1>2. a \in Seq(Call)
  BY DEF Begins
<1>3. /\ b \in Seq(Call) /\ Len(b) = Len(a) + Len(r)
      /\ \A n \in 1 .. Len(a) + Len(r) : b[n] = IF n <= Len(a) THEN a[n] ELSE r[n - Len(a)]
  BY <1>1, <1>2, ConcatProperties, Zenon
<1>4. Len(a) \in Nat /\ Len(r) \in Nat
  BY <1>1, <1>2, LenProperties
<1>5. SubSeq(a, 1, Len(a)) = SubSeq(b, 1, Len(a))
  BY <1>2, <1>3, <1>4
<1> QED BY <1>3, <1>4, <1>5 DEF IsPrefix

(* Once every byte of the wire is read, Shift is set only while a Shift    *)
(* key is down (kbd.c:43-51), for every keyboard and every order of        *)
(* presses, repeats and releases.                                          *)
THEOREM ShiftComesBack == Spec => []ShiftNeverStuck
<1>1. IInv => ShiftNeverStuck
  BY Drained DEF AtEnd, ShiftNeverStuck
<1> QED BY InitIInv, NextIInv, <1>1, PTL DEF Spec

(* The flags are those of the keys that are down (kbd.c:33-117), for every *)
(* keyboard and every order of events but the three kinds in Misread.      *)
THEOREM FlagsAreKeys == Spec => []FlagsFollowKeys
<1>1. IInv => FlagsFollowKeys
  BY Drained DEF AtEnd, FlagsFollowKeys
<1> QED BY InitIInv, NextIInv, <1>1, PTL DEF Spec

(* The callback is called for every keystroke, once, in order and with the *)
(* character and the modifiers of the moment it was struck (kbd.c:24-142), *)
(* however many bytes the handler is behind.                               *)
THEOREM EveryKeystrokeDelivered == Spec => []KeystrokesDelivered
<1>1. IInv => KeystrokesDelivered
  <2> SUFFICES ASSUME IInv, ~odd PROVE IsPrefix(calls, due) /\ (wire = <<>> => calls = due)
    BY DEF KeystrokesDelivered
  <2>1. PICK t : /\ t[0] = [kb |-> kb, calls |-> calls]
                 /\ \A n \in 0 .. Len(wire) : Begins(t[n].calls, due)
    BY Zenon DEF IInv, LooksAhead
  <2>2. 0 \in 0 .. Len(wire)
    BY LenProperties DEF IInv, Typed
  <2>3. Begins(calls, due)
    BY <2>1, <2>2
  <2>4. wire = <<>> => calls = due
    BY Drained DEF AtEnd
  <2> QED BY <2>3, <2>4, BeginsIsPrefix
<1> QED BY InitIInv, NextIInv, <1>1, PTL DEF Spec
=============================================================================
