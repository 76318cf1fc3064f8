------------------------------ MODULE Keyboard ------------------------------
(***************************************************************************)
(* The i386 PS/2 keyboard driver, src/kernel/arch/i386/kbd.c: the IRQ 1    *)
(* handler turns scancode bytes (set 1, numbers as in the source) into     *)
(* calls of kcallback(char, kstate).                                       *)
(*                                                                         *)
(* The driver's state is the record kb; keyboard(k, sc) is the handler as  *)
(* a function that gives the new state and the calls made (none or one).   *)
(* Around it stand the keys a person presses, holds and releases and the   *)
(* bytes on the wire, which the handler takes one per interrupt, in order. *)
(***************************************************************************)
EXTENDS Integers, Sequences, SequencesExt

CONSTANTS
  Keys,      \* the physical keys: records [code, ext]; ext keys send 0xE0 first
  Beyond,    \* what an index past the two tables reads: [shift -> [sc -> char]]
  WireMax,   \* bound on the bytes waiting in the keyboard controller
  MaxEvents  \* bound on the presses, repeats and releases

VARIABLES
  kb,      \* the driver's static kstate and extended
  wire,    \* bytes sent by the keyboard and not yet read from port 0x60
  calls,   \* the calls of kcallback so far
  held,    \* keys that are down
  last,    \* the key that repeats: the last one pressed, none once released
  caps,    \* Caps Lock as the person sees it
  due,     \* the calls an ideal driver makes for the events so far
  odd,     \* some event was one this driver is known to misread, see Misread
  stale,   \* the last extended key was not an arrow
  events   \* number of events

vars == <<kb, wire, calls, held, last, caps, due, odd, stale, events>>

Flags == {"SHIFT", "CAPS", "BCKSP", "UP", "DOWN", "LEFT", "RIGHT"}

BREAK == 128   \* the bit that marks a release
E0    == 224
SHIFTS == {42, 54}
CAPSLOCK == 58
BACKSPACE == 14
Arrow == [sc \in {72, 75, 77, 80} |->
            CASE sc = 72 -> "UP" [] sc = 80 -> "DOWN" [] sc = 75 -> "LEFT" [] sc = 77 -> "RIGHT"]

\* Entry sc of the sequences is entry sc - 1 of the arrays.
keymap ==
  << 0, 49, 50, 51, 52, 53, 54, 55, 56, 57, 48, 45, 61, 0,
     0, 113, 119, 101, 114, 116, 121, 117, 105, 111, 112, 91, 93, 10,
     0, 97, 115, 100, 102, 103, 104, 106, 107, 108, 59, 39, 96,
     0, 92, 122, 120, 99, 118, 98, 110, 109, 44, 46, 47, 0,
     42, 0, 32 >>

keymap_shift ==
  << 0, 33, 64, 35, 36, 37, 94, 38, 42, 40, 41, 95, 43, 0,
     0, 81, 87, 69, 82, 84, 89, 85, 73, 79, 80, 123, 125, 10,
     0, 65, 83, 68, 70, 71, 72, 74, 75, 76, 58, 34, 126,
     0, 124, 90, 88, 67, 86, 66, 78, 77, 60, 62, 63, 0,
     42, 0, 32 >>

\* Set 1 has no key 96, whose release would be the byte 0xE0, and one Backspace.
ASSUME KeyboardAssumption ==
  /\ Keys \subseteq [code : (1 .. 127) \ {E0 - BREAK}, ext : BOOLEAN]
  /\ \A k \in Keys : k.code = BACKSPACE => ~k.ext
  /\ \A s \in BOOLEAN : \A sc \in {0} \cup 58 .. 127 : Beyond[s][sc] \in 0 .. 255
  /\ WireMax \in Nat /\ MaxEvents \in Nat

-----------------------------------------------------------------------------
(* The handler.                                                            *)

keyboard_init == [kstate |-> {}, extended |-> FALSE]

With(k, f)    == [k EXCEPT !.kstate = @ \cup {f}]
Without(k, f) == [k EXCEPT !.kstate = @ \ {f}]

Silent(k)  == [kb |-> k, call |-> <<>>]
Calls(k, c) == [kb |-> k, call |-> <<[c |-> c, st |-> k.kstate]>>]

\* An index below 0 or past the end of the table reads what lies there.
Lookup(sc, shift) ==
  IF sc \in 1 .. Len(keymap)
  THEN (IF shift THEN keymap_shift ELSE keymap)[sc]
  ELSE Beyond[shift][sc]

IsLower(c) == c \in 97 .. 122
IsAlpha(c) == IsLower(c) \/ c \in 65 .. 90

Translate(kstate, sc) ==
  LET ch == Lookup(sc, "SHIFT" \in kstate)
  IN  IF IsAlpha(ch) /\ "CAPS" \in kstate
      THEN IF IsLower(ch) THEN ch - 32 ELSE ch + 32
      ELSE ch

\* Mutant: releasing an arrow leaves its flag set.
ArrowKey_Sticky(k, f, release) ==
  IF k.extended THEN Calls([With(k, f) EXCEPT !.extended = FALSE], 0) ELSE Silent(k)

\* Arrow codes count only after 0xE0; a release calls back as well.
ArrowKey(k, f, release) ==
  IF k.extended
  THEN Calls([(IF release THEN Without(k, f) ELSE With(k, f)) EXCEPT !.extended = FALSE], 0)
  ELSE Silent(k)

\* Mutant: a letter pressed with Shift ignores Caps Lock.
CharKey_NoSwap(k, sc) ==
  LET ch == IF "SHIFT" \in k.kstate THEN Lookup(sc, TRUE) ELSE Translate(k.kstate, sc)
  IN  IF sc >= BREAK \/ ch = 0 THEN Silent(k) ELSE Calls(k, ch)

CharKey(k, sc) ==
  LET ch == Translate(k.kstate, sc)
  IN  IF sc >= BREAK \/ ch = 0 THEN Silent(k) ELSE Calls(k, ch)

\* Mutant: the release of the right Shift is not handled.
keyboard_RightShift(k, sc) ==
  CASE sc = E0                       -> Silent([k EXCEPT !.extended = TRUE])
    [] sc = BACKSPACE                -> Calls(With(k, "BCKSP"), 0)
    [] sc = BACKSPACE + BREAK        -> Silent(Without(k, "BCKSP"))
    [] sc \in SHIFTS                 -> Silent(With(k, "SHIFT"))
    [] sc = 42 + BREAK               -> Silent(Without(k, "SHIFT"))
    [] sc = CAPSLOCK                 -> Silent(IF "CAPS" \in k.kstate THEN Without(k, "CAPS")
                                               ELSE With(k, "CAPS"))
    [] sc \in DOMAIN Arrow           -> ArrowKey(k, Arrow[sc], FALSE)
    [] sc - BREAK \in DOMAIN Arrow   -> ArrowKey(k, Arrow[sc - BREAK], TRUE)
    [] OTHER                         -> CharKey(k, sc)

keyboard(k, sc) ==
  CASE sc = E0                       -> Silent([k EXCEPT !.extended = TRUE])
    [] sc = BACKSPACE                -> Calls(With(k, "BCKSP"), 0)
    [] sc = BACKSPACE + BREAK        -> Silent(Without(k, "BCKSP"))
    [] sc \in SHIFTS                 -> Silent(With(k, "SHIFT"))
    [] sc - BREAK \in SHIFTS         -> Silent(Without(k, "SHIFT"))
    [] sc = CAPSLOCK                 -> Silent(IF "CAPS" \in k.kstate THEN Without(k, "CAPS")
                                               ELSE With(k, "CAPS"))
    [] sc \in DOMAIN Arrow           -> ArrowKey(k, Arrow[sc], FALSE)
    [] sc - BREAK \in DOMAIN Arrow   -> ArrowKey(k, Arrow[sc - BREAK], TRUE)
    [] OTHER                         -> CharKey(k, sc)

-----------------------------------------------------------------------------
(* The keyboard and the person at it (external).                           *)

Bytes(key, release) ==
  (IF key.ext THEN <<E0>> ELSE <<>>) \o <<key.code + (IF release THEN BREAK ELSE 0)>>

\* The flag that stands for a held key, if there is one.
FlagOf(key) ==
  IF key.ext /\ key.code \in DOMAIN Arrow THEN {Arrow[key.code]}
  ELSE IF key.code = BACKSPACE THEN {"BCKSP"}
  ELSE IF key.code \in SHIFTS THEN {"SHIFT"} ELSE {}

HeldFlags(down, cl) ==
  (UNION {FlagOf(k) : k \in down}) \cup (IF cl THEN {"CAPS"} ELSE {})

\* The character a key stands for: letters are upper case when exactly one of
\* Shift and Caps Lock applies, other keys follow Shift alone.  A key past the
\* tables stands for whatever the driver reads there.
Meaning(key, fl) ==
  LET plain == Lookup(key.code, FALSE)
  IN  IF key.code \notin 1 .. Len(keymap) THEN Translate(fl, key.code)
      ELSE IF IsLower(plain)
      THEN IF ("SHIFT" \in fl) # ("CAPS" \in fl) THEN plain - 32 ELSE plain
      ELSE Lookup(key.code, "SHIFT" \in fl)

\* The calls an ideal driver makes for an event on key that leaves the keys
\* in down held and Caps Lock at cl.
Ideal(key, release, down, cl) ==
  LET fl == HeldFlags(down, cl)
      c  == Meaning(key, fl)
  IN  IF FlagOf(key) \cap {"UP", "DOWN", "LEFT", "RIGHT"} # {} THEN <<[c |-> 0, st |-> fl]>>
      ELSE IF release \/ key.code \in SHIFTS \cup {CAPSLOCK} \cup DOMAIN Arrow THEN <<>>
      ELSE IF key.code = BACKSPACE THEN <<[c |-> 0, st |-> fl]>>
      ELSE IF c = 0 THEN <<>> ELSE <<[c |-> c, st |-> fl]>>

\* The events the driver misreads: one Shift released while the other is
\* held, Caps Lock repeating, a keypad arrow after an extended key that is no
\* arrow (extended is still set).
Misread(key, release, repeat) ==
  \/ release /\ key.code \in SHIFTS /\ \E k \in held \ {key} : k.code \in SHIFTS
  \/ repeat /\ key.code = CAPSLOCK
  \/ stale /\ ~key.ext /\ key.code \in DOMAIN Arrow

Event(key, release, repeat) ==
  /\ events < MaxEvents
  /\ Len(wire) + 2 <= WireMax
  /\ events' = events + 1
  /\ wire' = wire \o Bytes(key, release)
  /\ due' = due \o Ideal(key, release, held', caps')
  /\ odd' = (odd \/ Misread(key, release, repeat))
  /\ stale' = IF key.ext THEN key.code \notin DOMAIN Arrow
              ELSE stale /\ key.code \notin DOMAIN Arrow
  /\ UNCHANGED <<kb, calls>>

Press(key) ==
  /\ key \notin held
  /\ held' = held \cup {key} /\ last' = {key}
  /\ caps' = IF key.code = CAPSLOCK THEN ~caps ELSE caps
  /\ Event(key, FALSE, FALSE)

Repeat(key) ==
  /\ key \in last
  /\ UNCHANGED <<held, last, caps>>
  /\ Event(key, FALSE, TRUE)

Release(key) ==
  /\ key \in held
  /\ held' = held \ {key} /\ last' = last \ {key}
  /\ UNCHANGED caps
  /\ Event(key, TRUE, FALSE)

\* One interrupt: inb(0x60), the handler, end of interrupt.
Irq ==
  /\ wire # <<>>
  /\ LET r == keyboard(kb, Head(wire))
     IN  kb' = r.kb /\ calls' = calls \o r.call
  /\ wire' = Tail(wire)
  /\ UNCHANGED <<held, last, caps, due, odd, stale, events>>

Init ==
  /\ kb = keyboard_init
  /\ wire = <<>> /\ calls = <<>> /\ due = <<>>
  /\ held = {} /\ last = {} /\ caps = FALSE
  /\ odd = FALSE /\ stale = FALSE /\ events = 0

Next ==
  \/ \E key \in Keys : Press(key)
  \/ \E key \in Keys : Repeat(key)
  \/ \E key \in Keys : Release(key)
  \/ Irq

Spec == Init /\ [][Next]_vars

-----------------------------------------------------------------------------

(* Whatever keys are held together, however far the handler lags behind    *)
(* the wire, the callback gets every keystroke once, in order, with the    *)
(* character and the modifiers that were held when the key was struck      *)
(* (kbd.c:24-142), unless an event was one of those in Misread.            *)
KeystrokesDelivered ==
  ~odd => /\ IsPrefix(calls, due)
          /\ wire = <<>> => calls = due

(* When the wire is drained the flags the callback sees are those of the   *)
(* keys that are down: none sticks and none is lost (kbd.c:33-117).        *)
FlagsFollowKeys ==
  wire = <<>> /\ ~odd => kb.kstate = HeldFlags(held, caps)

(* A flag of a key that is up never survives the drained wire, not even    *)
(* after the two Shift keys overlap: the driver then loses Shift early     *)
(* (kbd.c:48-51) but does not leave it stuck.                              *)
ShiftNeverStuck ==
  wire = <<>> /\ "SHIFT" \in kb.kstate => \E k \in held : k.code \in SHIFTS
=============================================================================
