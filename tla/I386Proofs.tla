----------------------------- MODULE I386Proofs -----------------------------
(***************************************************************************)
(* The i386 port.  Every interrupt that arch_init lets through has a gate, *)
(* whatever lines the devices raise and when (I386Init).  kmain's console  *)
(* and the shell's line survive the keyboard handler, and the screen shows *)
(* the line, whichever two accesses of kmain it strikes between (Kernel).  *)
(***************************************************************************)
EXTENDS I386Init, Kernel, SequenceTheorems, WellFoundedInduction, TLAPS

-----------------------------------------------------------------------------
(* arch_init.                                                              *)

Ops == [op : {"outb", "gate", "lidt", "sti"}, a : Nat, b : Nat]

\* The program by position: 32 gates, lidt, pic_remap, the masks, the
\* keyboard's gate, sti.
LEMMA Program ==
  /\ Len(arch_init) = 45
  /\ \A n \in 1 .. 32 : arch_init[n] = Gate(n - 1)
  /\ arch_init[33] = Lidt
  /\ arch_init[34] = Outb(M_CMD, 17) /\ arch_init[35] = Outb(S_CMD, 17)
  /\ arch_init[36] = Outb(M_DATA, 32) /\ arch_init[37] = Outb(S_DATA, 40)
  /\ arch_init[38] = Outb(M_DATA, 2) /\ arch_init[39] = Outb(S_DATA, 2)
  /\ arch_init[40] = Outb(M_DATA, 1) /\ arch_init[41] = Outb(M_DATA, 1)
  /\ arch_init[42] = Outb(M_DATA, 253) /\ arch_init[43] = Outb(S_DATA, 255)
  /\ arch_init[44] = Gate(33) /\ arch_init[45] = Sti
<1> DEFINE gates == [n \in 1 .. 32 |-> Gate(n - 1)]
           one   == << Lidt >>
           remap == pic_remap(32, 40)
           masks == << Outb(M_DATA, 253), Outb(S_DATA, 255), Gate(33), Sti >>
<1>a. /\ \A n \in Nat : Gate(n) \in Ops
      /\ \A p \in {M_CMD, S_CMD, M_DATA, S_DATA}, d \in Nat : Outb(p, d) \in Ops
      /\ Lidt \in Ops /\ Sti \in Ops
  BY DEF Ops, Gate, Outb, Lidt, Sti, M_CMD, S_CMD, M_DATA, S_DATA
<1> HIDE DEF Ops
<1>1. gates \in Seq(Ops) /\ Len(gates) = 32
  <2>1. gates \in [1 .. 32 -> Ops]
    BY <1>a
  <2>2. gates \in Seq(Ops)
    BY <2>1, SeqDef
  <2>3. DOMAIN gates = 1 .. 32
    OBVIOUS
  <2>4. DOMAIN gates = 1 .. Len(gates) /\ Len(gates) \in Nat
    BY <2>2, LenProperties
  <2> QED BY <2>2, <2>3, <2>4
<1>2. remap \in Seq(Ops) /\ Len(remap) = 8
  BY <1>a DEF pic_remap
<1>3. masks \in Seq(Ops) /\ Len(masks) = 4
  BY <1>a
<1>4. one \in Seq(Ops) /\ Len(one) = 1 /\ one[1] = Lidt
  BY <1>a
<1>5. arch_init = ((gates \o one) \o remap) \o masks
  BY DEF arch_init
<1>6. /\ remap[1] = Outb(M_CMD, 17) /\ remap[2] = Outb(S_CMD, 17)
      /\ remap[3] = Outb(M_DATA, 32) /\ remap[4] = Outb(S_DATA, 40)
      /\ remap[5] = Outb(M_DATA, 2) /\ remap[6] = Outb(S_DATA, 2)
      /\ remap[7] = Outb(M_DATA, 1) /\ remap[8] = Outb(M_DATA, 1)
  BY DEF pic_remap
<1>7. /\ masks[1] = Outb(M_DATA, 253) /\ masks[2] = Outb(S_DATA, 255)
      /\ masks[3] = Gate(33) /\ masks[4] = Sti
  OBVIOUS
<1>b. \A n \in 1 .. 32 : gates[n] = Gate(n - 1)
  OBVIOUS
<1> HIDE DEF gates, one, remap, masks
<1> DEFINE ab == gates \o one
           abc == ab \o remap
           all == abc \o masks
<1>8. /\ ab \in Seq(Ops) /\ Len(ab) = 33
      /\ \A n \in 1 .. 33 : ab[n] = IF n <= 32 THEN gates[n] ELSE one[n - 32]
  <2>1. /\ ab \in Seq(Ops) /\ Len(ab) = Len(gates) + Len(one)
        /\ \A n \in 1 .. Len(gates) + Len(one) :
             ab[n] = IF n <= Len(gates) THEN gates[n] ELSE one[n - Len(gates)]
    <3>1. gates \in Seq(Ops) /\ one \in Seq(Ops)
      BY <1>1, <1>4
    <3> QED BY <3>1, ConcatProperties, Zenon
  <2> HIDE DEF ab
  <2> QED BY <1>1, <1>4, <2>1
<1> HIDE DEF ab
<1>9. /\ abc \in Seq(Ops) /\ Len(abc) = 41
      /\ \A n \in 1 .. 41 : abc[n] = IF n <= 33 THEN ab[n] ELSE remap[n - 33]
  <2>1. /\ abc \in Seq(Ops) /\ Len(abc) = Len(ab) + Len(remap)
        /\ \A n \in 1 .. Len(ab) + Len(remap) :
             abc[n] = IF n <= Len(ab) THEN ab[n] ELSE remap[n - Len(ab)]
    <3>1. ab \in Seq(Ops) /\ remap \in Seq(Ops)
      BY <1>2, <1>8
    <3> QED BY <3>1, ConcatProperties, Zenon
  <2> HIDE DEF abc
  <2> QED BY <1>2, <1>8, <2>1
<1> HIDE DEF abc
<1>10. /\ all \in Seq(Ops) /\ Len(all) = 45
      /\ \A n \in 1 .. 45 : all[n] = IF n <= 41 THEN abc[n] ELSE masks[n - 41]
  <2>1. /\ all \in Seq(Ops) /\ Len(all) = Len(abc) + Len(masks)
        /\ \A n \in 1 .. Len(abc) + Len(masks) :
             all[n] = IF n <= Len(abc) THEN abc[n] ELSE masks[n - Len(abc)]
    <3>1. abc \in Seq(Ops) /\ masks \in Seq(Ops)
      BY <1>3, <1>9
    <3> QED BY <3>1, ConcatProperties, Zenon
  <2> HIDE DEF all
  <2> QED BY <1>3, <1>9, <2>1
<1> HIDE DEF all
<1>11. arch_init = all
  BY <1>5 DEF all, abc, ab
<1>12. \A n \in 1 .. 32 : all[n] = gates[n]
  <2> TAKE n \in 1 .. 32
  <2>1. n \in 1 .. 33 /\ n \in 1 .. 41 /\ n \in 1 .. 45 /\ n <= 32 /\ n <= 33 /\ n <= 41
    OBVIOUS
  <2>2. all[n] = abc[n] /\ abc[n] = ab[n] /\ ab[n] = gates[n]
    BY <2>1, <1>8, <1>9, <1>10
  <2> QED BY <2>2
<1>13. all[33] = one[1]
  BY <1>8, <1>9, <1>10
<1>14. /\ all[34] = remap[1] /\ all[35] = remap[2] /\ all[36] = remap[3] /\ all[37] = remap[4]
       /\ all[38] = remap[5] /\ all[39] = remap[6] /\ all[40] = remap[7] /\ all[41] = remap[8]
  BY <1>9, <1>10
<1>15. all[42] = masks[1] /\ all[43] = masks[2] /\ all[44] = masks[3] /\ all[45] = masks[4]
  BY <1>10
<1>16. \A n \in 1 .. 32 : all[n] = Gate(n - 1)
  BY <1>b, <1>12, Zenon
<1>17. Len(all) = 45
  BY <1>10
<1>18. all[33] = Lidt
  BY <1>4, <1>13
<1> QED BY <1>6, <1>7, <1>11, <1>14, <1>15, <1>16, <1>17, <1>18

-----------------------------------------------------------------------------

Pic == [stage : {"icw2", "icw3", "icw4", "ready"}, icw4 : BOOLEAN, off : Nat,
        mask : SUBSET (0 .. 7), irr : SUBSET (0 .. 7), isr : SUBSET (0 .. 7)]

\* Where the master's initialisation has got to when arch_init is at n.
Programmed(n) ==
  /\ n \in {35, 36} => master.stage = "icw2" /\ master.icw4 = TRUE
  /\ n \in {37, 38} => master.stage = "icw3" /\ master.icw4 = TRUE /\ master.off = 32
  /\ n \in {39, 40} => master.stage = "icw4" /\ master.off = 32
  /\ n \in 41 .. 46 => master.stage = "ready" /\ master.off = 32
  /\ n \in 43 .. 46 => master.mask = {0, 2, 3, 4, 5, 6, 7}

IInv ==
  /\ pc \in 1 .. 46
  /\ master \in Pic /\ Programmed(pc)
  /\ pc \in 34 .. 46 => loaded
  /\ pc \in 45 .. 46 => 33 \in idt
  /\ iflag => pc = 46
  /\ running # NoVector => running = 33 /\ pc = 46

\* The words that arch_init writes.
LEMMA Words ==
  /\ 4 \in Bits(17) /\ 0 \in Bits(17) /\ 4 \notin Bits(32)
  /\ Bits(253) = {0, 2, 3, 4, 5, 6, 7}
  /\ \A d : Bits(d) \subseteq 0 .. 7
<1>1. 4 \in Bits(17) /\ 0 \in Bits(17)
  BY DEF Bits
<1>2. 4 \notin Bits(32)
  BY DEF Bits
<1>3. Bits(253) = {0, 2, 3, 4, 5, 6, 7}
  <2>1. 0 \in Bits(253) /\ 2 \in Bits(253) /\ 3 \in Bits(253) /\ 4 \in Bits(253)
    BY DEF Bits
  <2>2. 5 \in Bits(253) /\ 6 \in Bits(253) /\ 7 \in Bits(253)
    BY DEF Bits
  <2>3. 1 \notin Bits(253)
    BY DEF Bits
  <2>4. Bits(253) \subseteq 0 .. 7
    BY Zenon DEF Bits
  <2> QED BY <2>1, <2>2, <2>3, <2>4
<1>4. \A d : Bits(d) \subseteq 0 .. 7
  BY Zenon DEF Bits
<1> QED BY <1>1, <1>2, <1>3, <1>4

\* A controller after a command and after a data word.
LEMMA CommandPic ==
  ASSUME NEW p \in Pic
  PROVE  /\ Command(p, 17) \in Pic
         /\ Command(p, 17).stage = "icw2" /\ Command(p, 17).icw4 = TRUE
         /\ Command(p, 32) \in Pic
         /\ Command(p, 32).stage = p.stage /\ Command(p, 32).off = p.off
         /\ Command(p, 32).mask = p.mask
<1>1. Command(p, 17) = [p EXCEPT !.stage = "icw2", !.icw4 = TRUE, !.mask = {}, !.irr = {},
                                 !.isr = {}]
  BY Words DEF Command
<1>2. /\ Command(p, 17) \in Pic
      /\ Command(p, 17).stage = "icw2" /\ Command(p, 17).icw4 = TRUE
  BY <1>1 DEF Pic
<1>3. \E s \in SUBSET (0 .. 7) : Command(p, 32) = [p EXCEPT !.isr = s]
  <2>1. CASE p.isr = {}
    BY <2>1, Words DEF Command, Pic
  <2>2. CASE p.isr # {}
    <3>1. Command(p, 32) = [p EXCEPT !.isr = @ \ {CHOOSE l \in @ : \A j \in @ : l <= j}]
      BY <2>2, Words DEF Command
    <3> QED BY <3>1 DEF Pic
  <2> QED BY <2>1, <2>2
<1> QED BY <1>2, <1>3 DEF Pic

\* A data write, by the stage that the controller is in.
LEMMA DataPic ==
  ASSUME NEW p \in Pic, NEW d \in Nat
  PROVE  /\ Data(p, d) \in Pic
         /\ p.stage = "icw2" => /\ Data(p, d).stage = "icw3" /\ Data(p, d).icw4 = p.icw4
                                /\ Data(p, d).off = d
         /\ p.stage = "icw3" /\ p.icw4 = TRUE =>
              Data(p, d).stage = "icw4" /\ Data(p, d).off = p.off
         /\ p.stage = "icw4" => Data(p, d).stage = "ready" /\ Data(p, d).off = p.off
         /\ p.stage = "ready" => /\ Data(p, d).stage = "ready" /\ Data(p, d).off = p.off
                                 /\ Data(p, d).mask = Bits(d)
<1>1. CASE p.stage = "icw2"
  <2>1. Data(p, d) = [p EXCEPT !.stage = "icw3", !.off = d]
    BY <1>1 DEF Data
  <2> QED BY <1>1, <2>1 DEF Pic
<1>2. CASE p.stage = "icw3"
  <2>1. Data(p, d) = [p EXCEPT !.stage = IF p.icw4 THEN "icw4" ELSE "ready"]
    BY <1>2 DEF Data
  <2> QED BY <1>2, <2>1 DEF Pic
<1>3. CASE p.stage = "icw4"
  <2>1. Data(p, d) = [p EXCEPT !.stage = "ready"]
    BY <1>3 DEF Data
  <2> QED BY <1>3, <2>1 DEF Pic
<1>4. CASE p.stage = "ready"
  <2>1. Data(p, d) = [p EXCEPT !.mask = Bits(d)]
    BY <1>4 DEF Data
  <2> QED BY <1>4, <2>1, Words DEF Pic
<1> QED BY <1>1, <1>2, <1>3, <1>4 DEF Pic

\* At reset.
LEMMA StartInitIInv == StartInit => IInv
BY DEF StartInit, IInv, BiosPic, Pic, Programmed, NoVector

\* One operation of arch_init.
LEMMA StepIInv == IInv /\ Step => IInv'
<1> SUFFICES ASSUME IInv, Step PROVE IInv'
  OBVIOUS
<1>a. pc \in 1 .. 45 /\ pc' = pc + 1 /\ UNCHANGED running /\ running = NoVector
  BY Program DEF Step, IInv
<1> DEFINE o == arch_init[pc]
<1>b. /\ idt \subseteq idt' /\ (o.op = "gate" => o.a \in idt')
      /\ (loaded => loaded') /\ (o.op = "lidt" => loaded')
      /\ (iflag' => iflag \/ o.op = "sti") /\ master' = WriteMaster(o)
  BY DEF Step
<1>1. CASE pc \in 1 .. 32
  <2>1. o = Gate(pc - 1)
    BY <1>1, Program
  <2>2. master' = master /\ (iflag' => iflag)
    BY <1>b, <2>1 DEF WriteMaster, Gate
  <2> QED BY <1>1, <1>a, <1>b, <2>2 DEF IInv, Programmed
<1>2. CASE pc = 33
  <2>1. master' = master /\ (iflag' => iflag) /\ loaded'
    BY <1>2, <1>b, Program DEF WriteMaster, Lidt
  <2> QED BY <1>2, <1>a, <1>b, <2>1 DEF IInv, Programmed
<1>3. ASSUME pc \in 34 .. 43, o.op = "outb", master' \in Pic, Programmed(pc)' PROVE IInv'
  BY <1>3, <1>a, <1>b DEF IInv
<1> USE DEF Outb, M_CMD, S_CMD, M_DATA, S_DATA
<1>4. CASE pc = 34
  <2>1. o.op = "outb" /\ master' = Command(master, 17)
    BY <1>4, <1>b, Program DEF WriteMaster
  <2>2. master' \in Pic /\ master'.stage = "icw2" /\ master'.icw4 = TRUE /\ pc' = 35
    <3>1. master \in Pic
      BY DEF IInv
    <3>2. master' \in Pic /\ master'.stage = "icw2" /\ master'.icw4 = TRUE
      BY <2>1, <3>1, CommandPic
    <3> QED BY <1>4, <1>a, <3>2
  <2>3. Programmed(pc)'
    BY <2>2 DEF Programmed
  <2> QED BY <1>4, <1>3, <2>1, <2>2, <2>3
<1>5. ASSUME pc \in {35, 37, 39, 43}, o.op = "outb", o.a \in {S_CMD, S_DATA} PROVE IInv'
  <2>1. master' = master
    BY <1>5, <1>b DEF WriteMaster
  <2>2. Programmed(pc)'
    BY <1>5, <1>a, <2>1 DEF IInv, Programmed
  <2> QED BY <1>5, <1>3, <2>1, <2>2 DEF IInv
<1>6. ASSUME pc \in {36, 38, 40, 41, 42}, NEW d \in Nat, o = Outb(M_DATA, d),
             pc = 36 => d = 32, pc = 42 => d = 253
      PROVE  IInv'
  <2>1. o.op = "outb" /\ master' = Data(master, d)
    BY <1>6, <1>b DEF WriteMaster
  <2>2. master \in Pic /\ Programmed(pc)
    BY DEF IInv
  <2>3. /\ master' \in Pic
        /\ master.stage = "icw2" => /\ master'.stage = "icw3" /\ master'.icw4 = master.icw4
                                   /\ master'.off = d
        /\ master.stage = "icw3" /\ master.icw4 = TRUE =>
             master'.stage = "icw4" /\ master'.off = master.off
        /\ master.stage = "icw4" => master'.stage = "ready" /\ master'.off = master.off
        /\ master.stage = "ready" => /\ master'.stage = "ready" /\ master'.off = master.off
                                    /\ master'.mask = Bits(d)
    <3>1. /\ Data(master, d) \in Pic
          /\ master.stage = "icw2" => /\ Data(master, d).stage = "icw3" /\ Data(master, d).icw4 = master.icw4
                                     /\ Data(master, d).off = d
          /\ master.stage = "icw3" /\ master.icw4 = TRUE =>
               Data(master, d).stage = "icw4" /\ Data(master, d).off = master.off
          /\ master.stage = "icw4" => Data(master, d).stage = "ready" /\ Data(master, d).off = master.off
          /\ master.stage = "ready" => /\ Data(master, d).stage = "ready" /\ Data(master, d).off = master.off
                                      /\ Data(master, d).mask = Bits(d)
      BY <2>2, DataPic, Zenon
    <3> QED BY <2>1, <3>1, Zenon
  <2>4. Programmed(pc)'
    <3>1. CASE pc = 36
      BY <3>1, <1>6, <1>a, <2>2, <2>3 DEF Programmed
    <3>2. CASE pc = 38
      BY <3>2, <1>6, <1>a, <2>2, <2>3 DEF Programmed
    <3>3. CASE pc = 40
      BY <3>3, <1>6, <1>a, <2>2, <2>3 DEF Programmed
    <3>4. CASE pc = 41
      BY <3>4, <1>6, <1>a, <2>2, <2>3 DEF Programmed
    <3>5. CASE pc = 42
      BY <3>5, <1>6, <1>a, <2>2, <2>3, Words DEF Programmed
    <3> QED BY <1>6, <3>1, <3>2, <3>3, <3>4, <3>5
  <2> QED BY <1>6, <1>3, <2>1, <2>3, <2>4
<1>7. CASE pc \in {35, 37, 39, 43}
  BY <1>5, <1>7, Program
<1>8. CASE pc \in {36, 38, 40, 41, 42}
  BY <1>6, <1>8, Program
<1>9. CASE pc = 44
  <2>1. master' = master /\ (iflag' => iflag) /\ 33 \in idt'
    BY <1>9, <1>b, Program DEF WriteMaster, Gate
  <2> QED BY <1>9, <1>a, <1>b, <2>1 DEF IInv, Programmed
<1>10. CASE pc = 45
  <2>1. master' = master
    BY <1>10, <1>b, Program DEF WriteMaster, Sti
  <2> QED BY <1>10, <1>a, <1>b, <2>1 DEF IInv, Programmed
<1> QED BY <1>a, <1>1, <1>2, <1>4, <1>7, <1>8, <1>9, <1>10

\* The only line that asks is the keyboard's.
LEMMA AcceptIInv == IInv /\ Accept => IInv'
<1> SUFFICES ASSUME IInv, Accept PROVE IInv'
  OBVIOUS
<1>1. pc = 46 /\ pc' = 46 /\ UNCHANGED <<idt, loaded>> /\ ~iflag'
  BY DEF Accept, IInv
<1>2. MasterView.irr \subseteq 0 .. 7 /\ MasterView.mask = master.mask
  BY DEF MasterView, IInv, Pic, CASCADE
<1>3. Asking(MasterView) = {KBD}
  <2>1. Asking(MasterView) \subseteq (0 .. 7) \ {0, 2, 3, 4, 5, 6, 7}
    BY <1>1, <1>2 DEF Asking, IInv, Programmed
  <2> QED BY <2>1 DEF Accept, KBD
<1>4. First(Asking(MasterView)) = KBD
  BY <1>3 DEF First, KBD
<1>5. running' = 33 /\ master' = [master EXCEPT !.irr = @ \ {KBD}, !.isr = @ \cup {KBD}]
  BY <1>1, <1>4 DEF Accept, IInv, Programmed, KBD, CASCADE
<1>6. /\ master' \in Pic /\ master'.stage = master.stage /\ master'.off = master.off
      /\ master'.mask = master.mask
  <2>1. master.irr \ {KBD} \in SUBSET (0 .. 7) /\ master.isr \cup {KBD} \in SUBSET (0 .. 7)
    BY DEF IInv, Pic, KBD
  <2> QED BY <1>5, <2>1 DEF IInv, Pic
<1> QED BY <1>1, <1>5, <1>6 DEF IInv, Programmed, NoVector

\* One step of arch_init or a line that is raised.
LEMMA StartNextIInv == IInv /\ [StartNext]_startVars => IInv'
<1> SUFFICES ASSUME IInv, [StartNext]_startVars PROVE IInv'
  OBVIOUS
<1>1. CASE Keyboard
  <2>1. pc = 46 /\ pc' = 46 /\ running' = NoVector /\ UNCHANGED <<idt, loaded>>
    BY <1>1 DEF Keyboard, IInv, NoVector
  <2>2. /\ master' \in Pic /\ master'.stage = master.stage /\ master'.off = master.off
        /\ master'.mask = master.mask
    BY <1>1, CommandPic DEF Keyboard, IInv
  <2> QED BY <2>1, <2>2 DEF IInv, Programmed
<1>2. ASSUME NEW l \in MasterLines, RaiseMaster(l) PROVE IInv'
  <2>1. /\ master' \in Pic /\ master'.stage = master.stage /\ master'.off = master.off
        /\ master'.icw4 = master.icw4 /\ master'.mask = master.mask
    BY <1>2, I386InitAssumption DEF RaiseMaster, IInv, Pic
  <2> QED BY <1>2, <2>1 DEF RaiseMaster, IInv, Programmed
<1>3. ASSUME NEW l \in SlaveLines, RaiseSlave(l) PROVE IInv'
  BY <1>3 DEF RaiseSlave, IInv, Programmed
<1>4. CASE UNCHANGED startVars
  BY <1>4 DEF startVars, IInv, Programmed
<1> QED BY <1>1, <1>2, <1>3, <1>4, StepIInv, AcceptIInv DEF StartNext

(* Whatever lines are raised, and when, the interrupts that the processor  *)
(* takes have an entry in the loaded table, which is not that of an        *)
(* exception (arch.c:63-85).                                               *)
THEOREM EveryInterruptHasGate == StartSpec => []DeliveredHasGate
<1>1. IInv => DeliveredHasGate
  BY DEF IInv, DeliveredHasGate
<1> QED BY StartInitIInv, StartNextIInv, <1>1, PTL DEF StartSpec

-----------------------------------------------------------------------------
(* The console between any two steps of kmain and the handler.             *)

\* The first cell after the row below the page.
Bottom == V!Page + WIDTH

Loose(k) ==
  /\ DOMAIN k = {"tx", "ty", "mem", "crtc"} /\ DOMAIN k.mem = V!Cells
  /\ k.tx \in 0 .. WIDTH + 1 /\ k.ty \in 0 .. HEIGHT
  /\ \A i \in V!Cells : i >= Bottom => k.mem[i] = V!NUL

(* The page is blank below the row of the position, but for the first cell *)
(* of the next row, and after the first cell of a row just begun.          *)
Clean(k) ==
  \A i \in V!Cells : i < V!Page /\ i > k.ty * WIDTH + WIDTH => k.mem[i] = V!NUL

Fresh(k) ==
  k.tx = 0 /\ \A i \in V!Cells : i < V!Page /\ i > k.ty * WIDTH => k.mem[i] = V!NUL

(* What the handler's calls make of a console: the row returns to the page *)
(* at once, the column at the next character, and both stay there; the row *)
(* does not go up, but from the one below the page; what is below stays    *)
(* clean.                                                                  *)
Kept(k, z) ==
  /\ Loose(z)
  /\ k.tx <= WIDTH => z.tx <= WIDTH
  /\ k.ty < HEIGHT => z.ty < HEIGHT
  /\ z.ty >= k.ty \/ z.ty = HEIGHT - 1
  /\ Clean(k) => Clean(z)

\* The page, the row below it and the window, from the assumptions.
LEMMA Sizes ==
  /\ WIDTH \in Nat /\ WIDTH >= 2 /\ HEIGHT \in Nat /\ HEIGHT >= 2 /\ WINDOW \in Nat
  /\ V!Page \in Nat /\ V!Page = WIDTH * HEIGHT
  /\ Bottom \in Nat /\ WIDTH <= V!Page /\ Bottom + WIDTH <= WINDOW
<1>1. WIDTH \in Nat /\ WIDTH >= 2 /\ HEIGHT \in Nat /\ HEIGHT >= 2
  BY KernelAssumption
<1>2. WINDOW \in Nat /\ WINDOW >= WIDTH * (HEIGHT + 2)
  BY KernelAssumption
<1>3. WIDTH * (HEIGHT + 2) = WIDTH * HEIGHT + WIDTH + WIDTH
  BY <1>1
<1>4. PICK d \in Nat : HEIGHT = 1 + d
  <2>1. HEIGHT - 1 \in Nat /\ HEIGHT = 1 + (HEIGHT - 1)
    BY <1>1
  <2> QED BY <2>1
<1>5. WIDTH * HEIGHT = WIDTH + WIDTH * d /\ WIDTH * d \in Nat
  BY <1>1, <1>4
<1>6. V!Page = WIDTH * HEIGHT
  BY DEF V!Page
<1> DEFINE p == WIDTH * HEIGHT
           q == WIDTH * d
<1> HIDE DEF p, q
<1>7. p = WIDTH + q /\ q \in Nat /\ WINDOW >= p + WIDTH + WIDTH /\ V!Page = p
  BY <1>2, <1>3, <1>5, <1>6 DEF p, q
<1>8. p \in Nat /\ WIDTH <= p /\ p + WIDTH \in Nat /\ (p + WIDTH) + WIDTH <= WINDOW
  BY <1>1, <1>2, <1>7
<1> QED BY <1>1, <1>2, <1>6, <1>7, <1>8 DEF Bottom

\* The cells of a row that is not below the row below the page.
LEMMA RowCells ==
  ASSUME NEW y \in 0 .. HEIGHT
  PROVE  /\ y * WIDTH \in Nat /\ y * WIDTH + WIDTH <= Bottom
         /\ y < HEIGHT => y * WIDTH + WIDTH <= V!Page
<1>1. PICK d \in Nat : HEIGHT = y + d
  <2>1. HEIGHT - y \in Nat /\ HEIGHT = y + (HEIGHT - y)
    BY Sizes
  <2> QED BY <2>1
<1>2. WIDTH * HEIGHT = y * WIDTH + d * WIDTH /\ y * WIDTH \in Nat /\ d * WIDTH \in Nat
  BY <1>1, Sizes
<1>3. ASSUME y < HEIGHT PROVE d * WIDTH >= WIDTH
  <2>1. d - 1 \in Nat /\ d = 1 + (d - 1)
    BY <1>1, <1>3, Sizes
  <2> DEFINE f == d - 1
  <2> HIDE DEF f
  <2>2. d * WIDTH = WIDTH + f * WIDTH /\ f * WIDTH \in Nat
    BY <2>1, Sizes DEF f
  <2> QED BY <2>2, Sizes
<1> DEFINE p == WIDTH * HEIGHT
           r == y * WIDTH
           q == d * WIDTH
<1> HIDE DEF p, q, r
<1>4. p = r + q /\ r \in Nat /\ q \in Nat /\ V!Page = p /\ p \in Nat
      /\ (y < HEIGHT => q >= WIDTH)
  BY <1>2, <1>3, Sizes DEF p, q, r
<1>5. r + WIDTH <= p + WIDTH /\ (y < HEIGHT => r + WIDTH <= p)
  BY <1>4, Sizes
<1> QED BY <1>4, <1>5 DEF Bottom, r

\* Calls compose.
LEMMA KeptTwice ==
  ASSUME NEW k, Loose(k), NEW z, NEW u, Kept(k, z), Kept(z, u)
  PROVE  Kept(k, u)
<1>1. k.ty \in 0 .. HEIGHT /\ z.ty \in 0 .. HEIGHT /\ u.ty \in 0 .. HEIGHT
  BY DEF Loose, Kept
<1>2. u.ty >= k.ty \/ u.ty = HEIGHT - 1
  BY <1>1, Sizes DEF Kept
<1> QED BY <1>2 DEF Kept

\* The same row and the same cells.
LEMMA KeptSame ==
  ASSUME NEW k, Loose(k), NEW z, Loose(z), z.ty = k.ty, z.mem = k.mem,
         k.tx <= WIDTH => z.tx <= WIDTH
  PROVE  Kept(k, z)
<1>1. k.ty \in Nat /\ z.ty >= k.ty
  BY DEF Loose
<1>2. Clean(k) => Clean(z)
  BY DEF Clean
<1> QED BY <1>1, <1>2 DEF Kept

\* A row just begun is clean.
LEMMA FreshClean ==
  ASSUME NEW k, Loose(k), Fresh(k)
  PROVE  Clean(k)
<1>1. k.ty * WIDTH \in Nat /\ WIDTH \in Nat
  <2>1. k.ty \in 0 .. HEIGHT
    BY DEF Loose
  <2> QED BY <2>1, RowCells, Sizes
<1> DEFINE b == k.ty * WIDTH
<1> HIDE DEF b
<1>2. \A i \in V!Cells : i > b + WIDTH => i > b
  BY <1>1, Sizes DEF V!Cells, b
<1> QED BY <1>2 DEF Clean, Fresh, b

\* The pieces that the console's operations are made of.
LEMMA AtLoose ==
  ASSUME NEW k, Loose(k), NEW x \in 0 .. WIDTH + 1, NEW y \in 0 .. HEIGHT
  PROVE  /\ Loose(V!At(k, x, y))
         /\ V!At(k, x, y).tx = x /\ V!At(k, x, y).ty = y /\ V!At(k, x, y).mem = k.mem
BY DEF Loose, V!At

\* Other cells.
LEMMA PaintLoose ==
  ASSUME NEW k, Loose(k), NEW m, DOMAIN m = V!Cells,
         \A i \in V!Cells : i >= Bottom => m[i] = V!NUL
  PROVE  /\ Loose(V!Paint(k, m))
         /\ V!Paint(k, m).tx = k.tx /\ V!Paint(k, m).ty = k.ty /\ V!Paint(k, m).mem = m
BY DEF Loose, V!Paint

\* The cursor registers.
LEMMA CursorLoose ==
  ASSUME NEW k, Loose(k), NEW x, NEW y
  PROVE  /\ Loose(V!cursor(k, x, y))
         /\ V!cursor(k, x, y).tx = k.tx /\ V!cursor(k, x, y).ty = k.ty
         /\ V!cursor(k, x, y).mem = k.mem
BY DEF Loose, V!cursor

\* A new line, from whatever row, ends on the page; what is below it is blank.
LEMMA NewLineLoose ==
  ASSUME NEW k, Loose(k)
  PROVE  /\ Loose(V!NewLine(k)) /\ V!NewLine(k).tx = 0 /\ V!NewLine(k).ty < HEIGHT
         /\ V!NewLine(k).ty >= k.ty \/ V!NewLine(k).ty = HEIGHT - 1
         /\ Clean(k) => Fresh(V!NewLine(k))
<1> DEFINE a == V!At(k, 0, k.ty + 1)
           m == V!ShiftUp(k.mem)
<1>1. k.ty \in 0 .. HEIGHT
  BY DEF Loose
<1>2. DOMAIN m = V!Cells /\ \A i \in V!Cells : i >= Bottom => m[i] = V!NUL
  <2>1. \A i \in V!Cells : i >= Bottom => i \in Int /\ ~(i < V!Page) /\ ~(i < V!Page - WIDTH)
    BY Sizes DEF V!Cells, Bottom
  <2> QED BY <2>1 DEF V!ShiftUp, Loose
<1>3. /\ DOMAIN a = {"tx", "ty", "mem", "crtc"} /\ a.mem = k.mem /\ a.tx = 0 /\ a.ty = k.ty + 1
  BY DEF Loose, V!At
<1>4. CASE k.ty + 1 >= HEIGHT
  <2> DEFINE b == V!Paint(a, m)
             z == V!At(b, a.tx, HEIGHT - 1)
  <2>1. DOMAIN b = {"tx", "ty", "mem", "crtc"} /\ b.mem = m
    BY <1>3 DEF V!Paint
  <2>2. DOMAIN z = {"tx", "ty", "mem", "crtc"} /\ z.mem = m /\ z.tx = 0 /\ z.ty = HEIGHT - 1
    BY <1>3, <2>1 DEF V!At
  <2>3. V!NewLine(k) = z
    BY <1>3, <1>4 DEF V!NewLine, V!vga_scroll
  <2>4. 0 \in 0 .. WIDTH + 1 /\ HEIGHT - 1 \in 0 .. HEIGHT /\ HEIGHT - 1 < HEIGHT
    BY Sizes
  <2>5. \A i \in V!Cells : i < V!Page /\ i > (HEIGHT - 1) * WIDTH => m[i] = V!NUL
    <3> DEFINE q == (HEIGHT - 1) * WIDTH
    <3>1. q = V!Page - WIDTH
      BY Sizes
    <3> HIDE DEF q
    <3>2. \A i \in V!Cells : i < V!Page /\ i > q => i \in Int /\ ~(i < V!Page - WIDTH)
      BY <3>1, Sizes DEF V!Cells
    <3>3. \A i \in V!Cells : i < V!Page /\ i > q => m[i] = V!NUL
      BY <3>2 DEF V!ShiftUp
    <3> QED BY <3>3 DEF q
  <2> HIDE DEF z, b, m
  <2>6. Fresh(z)
    BY <2>2, <2>5 DEF Fresh
  <2> QED BY <1>2, <2>2, <2>3, <2>4, <2>6 DEF Loose
<1>5. CASE ~(k.ty + 1 >= HEIGHT)
  <2>1. V!NewLine(k) = a
    BY <1>3, <1>5 DEF V!NewLine, V!vga_scroll
  <2>2. 0 \in 0 .. WIDTH + 1 /\ k.ty + 1 \in 0 .. HEIGHT /\ k.ty + 1 < HEIGHT /\ k.ty + 1 >= k.ty
    BY <1>1, <1>5, Sizes
  <2>3. (k.ty + 1) * WIDTH = k.ty * WIDTH + WIDTH
    BY <1>1, Sizes
  <2>4. Clean(k) => Fresh(a)
    BY <1>3, <2>3 DEF Clean, Fresh
  <2> QED BY <1>3, <2>1, <2>2, <2>4 DEF Loose
<1> QED BY <1>4, <1>5

\* putc after its wrap test.
Wrapped(k) == IF k.tx >= WIDTH THEN V!NewLine(k) ELSE k

\* The wrap leaves a column of the page.
LEMMA WrappedKept ==
  ASSUME NEW k, Loose(k)
  PROVE  Kept(k, Wrapped(k)) /\ Wrapped(k).tx < WIDTH
<1>1. k.tx \in 0 .. WIDTH + 1 /\ k.ty \in 0 .. HEIGHT
  BY DEF Loose
<1>2. CASE k.tx >= WIDTH
  <2>1. Wrapped(k) = V!NewLine(k)
    BY <1>2 DEF Wrapped
  <2>2. Clean(k) => Clean(V!NewLine(k))
    BY NewLineLoose, FreshClean
  <2> QED BY <2>1, <2>2, NewLineLoose, Sizes DEF Kept
<1>3. CASE ~(k.tx >= WIDTH)
  <2>1. Wrapped(k) = k /\ k.tx < WIDTH
    BY <1>1, <1>3, Sizes DEF Wrapped
  <2> QED BY <2>1, KeptSame
<1> QED BY <1>2, <1>3

\* A line end.
LEMMA PutcEnd ==
  ASSUME NEW k, Loose(k), NEW x, x \in {V!LF, V!CR}
  PROVE  Kept(k, V!putc(k, x)) /\ (Clean(k) => Fresh(V!putc(k, x))) /\ V!putc(k, x).tx = 0
         /\ V!putc(k, x).ty < HEIGHT
<1> DEFINE w == Wrapped(k)
           n == V!NewLine(w)
           z == V!cursor(n, n.tx, n.ty)
<1>1. Kept(k, w) /\ Loose(w)
  BY WrappedKept DEF Kept
<1>2. V!putc(k, x) = z
  BY DEF V!putc, V!NUL, V!LF, V!CR, Wrapped
<1> HIDE DEF w
<1>3. /\ Loose(n) /\ n.tx = 0 /\ n.ty < HEIGHT /\ (n.ty >= w.ty \/ n.ty = HEIGHT - 1)
      /\ (Clean(w) => Fresh(n))
  BY <1>1, NewLineLoose
<1>4. Kept(w, n)
  <2>1. Clean(w) => Clean(n)
    BY <1>3, FreshClean
  <2> QED BY <1>3, <2>1, Sizes DEF Kept
<1> HIDE DEF n
<1>5. Loose(z) /\ z.tx = n.tx /\ z.ty = n.ty /\ z.mem = n.mem
  BY <1>3, CursorLoose
<1> HIDE DEF z
<1>6. Kept(n, z)
  BY <1>3, <1>5, KeptSame
<1>7. Kept(k, z)
  BY <1>1, <1>3, <1>4, <1>6, KeptTwice
<1>8. Clean(k) => Fresh(z)
  BY <1>1, <1>3, <1>5 DEF Kept, Fresh
<1> QED BY <1>2, <1>3, <1>5, <1>7, <1>8

\* A character that is stored.
LEMMA StoreKept ==
  ASSUME NEW w, Loose(w), w.tx < WIDTH, NEW x,
         NEW u, u = V!Store(V!cursor(w, w.tx + 1, w.ty), x)
  PROVE  /\ Kept(w, u) /\ u.tx = w.tx + 1 /\ u.ty = w.ty
         /\ \A i \in V!Cells :
              u.mem[i] = IF i = w.ty * WIDTH + w.tx THEN x ELSE w.mem[i]
<1> DEFINE d == V!cursor(w, w.tx + 1, w.ty)
           off == w.ty * WIDTH + w.tx
           m == [w.mem EXCEPT ![off] = x]
           b == V!Paint(d, m)
           z == V!At(b, w.tx + 1, w.ty)
<1>2. Loose(d) /\ d.tx = w.tx /\ d.ty = w.ty /\ d.mem = w.mem
  BY CursorLoose
<1> HIDE DEF d
<1>1. u = z
  BY <1>2 DEF V!Store, d
<1>3. w.tx \in Nat /\ w.tx < WIDTH /\ w.ty \in 0 .. HEIGHT
  BY DEF Loose
<1>4. off < Bottom /\ off \in Nat /\ off < w.ty * WIDTH + WIDTH /\ w.ty * WIDTH \in Nat
  <2> DEFINE r == w.ty * WIDTH
  <2>1. r \in Nat /\ r + WIDTH <= Bottom
    BY <1>3, RowCells
  <2>2. off = r + w.tx
    OBVIOUS
  <2> HIDE DEF r, off
  <2>3. off < Bottom /\ off \in Nat /\ off < r + WIDTH
    BY <1>3, <2>1, <2>2, Sizes
  <2> QED BY <2>1, <2>3 DEF r
<1> DEFINE c0 == w.ty * WIDTH
<1> HIDE DEF off, c0
<1>5. DOMAIN m = V!Cells /\ \A i \in V!Cells : i >= Bottom => m[i] = V!NUL
  <2>1. \A i \in V!Cells : i >= Bottom => i # off
    BY <1>4, Sizes DEF V!Cells
  <2> QED BY <2>1 DEF Loose
<1>6. Clean(w) => \A i \in V!Cells : i < V!Page /\ i > c0 + WIDTH => m[i] = V!NUL
  <2>1. \A i \in V!Cells : i > c0 + WIDTH => i # off
    BY <1>4, Sizes DEF V!Cells, c0
  <2> QED BY <2>1 DEF Clean, Loose, c0
<1>a. \A i \in V!Cells : m[i] = IF i = off THEN x ELSE w.mem[i]
  BY DEF Loose
<1> HIDE DEF m
<1>7. Loose(b) /\ b.mem = m
  BY <1>2, <1>5, PaintLoose
<1>8. w.tx + 1 \in 0 .. WIDTH + 1 /\ w.tx + 1 <= WIDTH
  BY <1>3, Sizes
<1> HIDE DEF b
<1>9. Loose(z) /\ z.tx = w.tx + 1 /\ z.ty = w.ty /\ z.mem = m
  BY <1>3, <1>7, <1>8, AtLoose
<1> HIDE DEF z
<1>10. Clean(w) => Clean(z)
  BY <1>6, <1>9 DEF Clean, c0
<1>11. Kept(w, z)
  BY <1>3, <1>8, <1>9, <1>10 DEF Kept
<1>12. \A i \in V!Cells : z.mem[i] = IF i = off THEN x ELSE w.mem[i]
  BY <1>9, <1>a
<1> QED BY <1>1, <1>9, <1>11, <1>12 DEF d, off

\* One character.
LEMMA PutcKept ==
  ASSUME NEW k, Loose(k), NEW x
  PROVE  Kept(k, V!putc(k, x))
<1> DEFINE w == Wrapped(k)
           z == V!Store(V!cursor(w, w.tx + 1, w.ty), x)
<1>1. CASE x = V!NUL
  <2>1. V!putc(k, x) = k
    BY <1>1 DEF V!putc
  <2> QED BY <2>1, KeptSame
<1>2. CASE x # V!NUL /\ x \in {V!LF, V!CR}
  BY <1>2, PutcEnd
<1>3. CASE x # V!NUL /\ x \notin {V!LF, V!CR}
  <2>1. V!putc(k, x) = z
    BY <1>3 DEF V!putc, Wrapped
  <2>2. Kept(k, w) /\ Loose(w) /\ w.tx < WIDTH
    BY WrappedKept DEF Kept
  <2> HIDE DEF w
  <2>3. Kept(w, z)
    BY <2>2, StoreKept
  <2> QED BY <2>1, <2>2, <2>3, KeptTwice
<1> QED BY <1>1, <1>2, <1>3

\* The other calls of the handler.
LEMMA ClrlineKept ==
  ASSUME NEW k, Loose(k)
  PROVE  /\ Kept(k, V!clrline(k)) /\ V!clrline(k).tx = k.tx /\ V!clrline(k).ty = k.ty
         /\ V!clrline(k).mem = [i \in V!Cells |->
              IF k.ty * WIDTH <= i /\ i < k.ty * WIDTH + (WIDTH \div 2) THEN V!NUL
              ELSE k.mem[i]]
<1> DEFINE m == [i \in V!Cells |->
                   IF k.ty * WIDTH <= i /\ i < k.ty * WIDTH + (WIDTH \div 2) THEN V!NUL
                   ELSE k.mem[i]]
           z == V!Paint(k, m)
<1>1. V!clrline(k) = z
  BY DEF V!clrline, V!clrline_y
<1>2. DOMAIN m = V!Cells /\ \A i \in V!Cells : i >= Bottom => m[i] = V!NUL
  BY DEF Loose
<1>3. \A i \in V!Cells : k.mem[i] = V!NUL => m[i] = V!NUL
  OBVIOUS
<1>m. m = [i \in V!Cells |->
              IF k.ty * WIDTH <= i /\ i < k.ty * WIDTH + (WIDTH \div 2) THEN V!NUL
              ELSE k.mem[i]]
  OBVIOUS
<1> HIDE DEF m
<1>4. Loose(z) /\ z.tx = k.tx /\ z.ty = k.ty /\ z.mem = m
  BY <1>2, PaintLoose
<1> HIDE DEF z
<1>5. Clean(k) => Clean(z)
  BY <1>3, <1>4 DEF Clean
<1>6. k.ty \in Nat
  BY DEF Loose
<1>7. Kept(k, z)
  BY <1>4, <1>5, <1>6 DEF Kept
<1> QED BY <1>1, <1>4, <1>7, <1>m

\* setpos_x, as the shell calls it.
LEMMA SetposKept ==
  ASSUME NEW k, Loose(k), NEW x \in 0 .. 1
  PROVE  /\ Kept(k, V!setpos_x(k, x)) /\ V!setpos_x(k, x).tx = x
         /\ V!setpos_x(k, x).ty = k.ty /\ V!setpos_x(k, x).mem = k.mem
<1>1. x \in 0 .. WIDTH + 1 /\ x <= WIDTH /\ ~(x > WIDTH)
  BY Sizes
<1>2. k.ty \in 0 .. HEIGHT
  BY DEF Loose
<1> DEFINE z == V!At(k, x, k.ty)
<1>3. V!setpos_x(k, x) = z
  BY <1>1 DEF V!setpos_x
<1>4. Loose(z) /\ z.tx = x /\ z.ty = k.ty /\ z.mem = k.mem
  BY <1>1, <1>2, AtLoose
<1> HIDE DEF z
<1> QED BY <1>1, <1>3, <1>4, KeptSame

-----------------------------------------------------------------------------
(* A handler's calls, one after the other.                                 *)

\* A set of numbers has a least element.
LEMMA Least ==
  ASSUME NEW T \in SUBSET Nat, T # {}
  PROVE  \E x \in T : \A y \in T : x <= y
<1> DEFINE R == {ss \in Nat \X Nat : ss[1] < ss[2]}
<1>1. R = OpToRel(<, Nat)
  BY DEF OpToRel
<1>2. IsWellFoundedOn(R, Nat)
  BY <1>1, NatLessThanWellFounded
<1>3. PICK x \in T : \A y \in T : <<y, x>> \notin R
  BY <1>2, WFMin
<1>4. ASSUME NEW y \in T PROVE x <= y
  <2>1. x \in Nat /\ y \in Nat /\ (y < x => <<y, x>> \in R)
    OBVIOUS
  <2>2. ~(y < x)
    BY <1>3, <2>1
  <2> HIDE DEF R
  <2> QED BY <2>1, <2>2
<1> QED BY <1>4

\* Induction, for a set.
LEMMA Induct ==
  ASSUME NEW T, 0 \in T, \A n \in Nat : n \in T => n + 1 \in T
  PROVE  Nat \subseteq T
<1> SUFFICES ASSUME Nat \ T # {} PROVE FALSE
  OBVIOUS
<1>1. PICK x \in Nat \ T : \A y \in Nat \ T : x <= y
  BY Least
<1>2. x # 0 /\ x - 1 \in Nat /\ (x - 1) + 1 = x /\ ~(x <= x - 1)
  BY <1>1
<1> QED BY <1>1, <1>2

\* g is the console after 0, 1, ... n characters of the string s.
IsPuts(k, s, n, g) ==
  g = [j \in 0 .. n |-> IF j = 0 THEN k ELSE V!putc(g[j - 1], s[j])]

\* The recursion of puts has a solution, a kept console, and only one.
LEMMA PutsExist ==
  ASSUME NEW k, Loose(k), NEW s, NEW n \in Nat
  PROVE  \E g : IsPuts(k, s, n, g) /\ Kept(k, g[n])
<1> DEFINE T == {x \in Nat : \E g : IsPuts(k, s, x, g) /\ Kept(k, g[x])}
<1>1. 0 \in T
  <2> DEFINE g == [j \in 0 .. 0 |-> k]
  <2>1. IsPuts(k, s, 0, g) /\ g[0] = k
    BY DEF IsPuts
  <2> HIDE DEF g
  <2> QED BY <2>1, KeptSame
<1>2. ASSUME NEW x \in Nat, x \in T PROVE x + 1 \in T
  <2>1. PICK f : IsPuts(k, s, x, f) /\ Kept(k, f[x])
    BY <1>2
  <2> DEFINE last == V!putc(f[x], s[x + 1])
             g == [j \in 0 .. x + 1 |-> IF j = x + 1 THEN last ELSE f[j]]
  <2>2. \A j \in 0 .. x : f[j] = IF j = 0 THEN k ELSE V!putc(f[j - 1], s[j])
    BY <2>1 DEF IsPuts
  <2>3. \A j \in 0 .. x + 1 : j # x + 1 => j \in 0 .. x /\ g[j] = f[j]
    OBVIOUS
  <2>4. g[x + 1] = last /\ x + 1 # 0 /\ (x + 1) - 1 = x /\ x \in 0 .. x + 1 /\ x # x + 1
    OBVIOUS
  <2>5. g[x] = f[x]
    BY <2>3, <2>4
  <2>6. ASSUME NEW j \in 0 .. x + 1
        PROVE  g[j] = IF j = 0 THEN k ELSE V!putc(g[j - 1], s[j])
    <3> HIDE DEF g
    <3>1. CASE j = x + 1
      BY <2>4, <2>5, <3>1
    <3>2. CASE j # x + 1
      <4>1. j \in 0 .. x /\ g[j] = f[j]
        BY <2>3, <3>2
      <4>2. j # 0 => j - 1 \in 0 .. x + 1 /\ j - 1 # x + 1
        BY <4>1
      <4>3. j # 0 => g[j - 1] = f[j - 1]
        BY <2>3, <4>2
      <4> QED BY <2>2, <4>1, <4>3
    <3> QED BY <3>1, <3>2
  <2>7. g = [j \in 0 .. x + 1 |-> g[j]]
    OBVIOUS
  <2> HIDE DEF g
  <2>8. IsPuts(k, s, x + 1, g)
    BY <2>6, <2>7 DEF IsPuts
  <2>9. Kept(k, g[x + 1])
    <3>1. Loose(f[x])
      BY <2>1 DEF Kept
    <3>2. Kept(f[x], last)
      BY <3>1, PutcKept
    <3> QED BY <2>1, <2>4, <3>2, KeptTwice
  <2> QED BY <2>8, <2>9
<1> HIDE DEF T
<1>3. Nat \subseteq T
  BY <1>1, <1>2, Induct
<1> QED BY <1>3 DEF T

\* There is one such sequence of consoles.
LEMMA PutsUnique ==
  ASSUME NEW k, NEW s, NEW n \in Nat, NEW f, NEW g, IsPuts(k, s, n, f), IsPuts(k, s, n, g)
  PROVE  f[n] = g[n]
<1> DEFINE T == {x \in Nat : x <= n => f[x] = g[x]}
<1>1. \A j \in 0 .. n : /\ f[j] = IF j = 0 THEN k ELSE V!putc(f[j - 1], s[j])
                        /\ g[j] = IF j = 0 THEN k ELSE V!putc(g[j - 1], s[j])
  BY DEF IsPuts
<1>2. 0 \in T
  BY <1>1
<1>3. ASSUME NEW x \in Nat, x \in T PROVE x + 1 \in T
  <2>1. CASE x + 1 <= n
    <3>1. x + 1 \in 0 .. n /\ x + 1 # 0 /\ (x + 1) - 1 = x /\ x <= n
      BY <2>1
    <3>2. f[x] = g[x]
      BY <1>3, <3>1
    <3>3. f[x + 1] = g[x + 1]
      BY <1>1, <3>1, <3>2
    <3> QED BY <3>3
  <2>2. CASE ~(x + 1 <= n)
    BY <2>2
  <2> QED BY <2>1, <2>2
<1> HIDE DEF T
<1>4. Nat \subseteq T
  BY <1>2, <1>3, Induct
<1> QED BY <1>4 DEF T

\* So that is what puts returns.
LEMMA PutsKept ==
  ASSUME NEW k, Loose(k), NEW s, Len(s) \in Nat
  PROVE  Kept(k, V!puts(k, s))
<1> DEFINE f == CHOOSE g : IsPuts(k, s, Len(s), g)
<1>1. PICK g : IsPuts(k, s, Len(s), g) /\ Kept(k, g[Len(s)])
  BY PutsExist
<1>2. IsPuts(k, s, Len(s), f)
  BY <1>1
<1>3. V!puts(k, s) = f[Len(s)]
  BY DEF V!puts, IsPuts
<1> HIDE DEF f
<1>4. f[Len(s)] = g[Len(s)]
  BY <1>1, <1>2, PutsUnique
<1> QED BY <1>1, <1>3, <1>4

\* A string of one character.
LEMMA PutsOne ==
  ASSUME NEW k, Loose(k), NEW x
  PROVE  V!puts(k, <<x>>) = V!putc(k, x)
<1> DEFINE s == <<x>>
           f == CHOOSE g : IsPuts(k, s, Len(s), g)
<1>1. Len(s) = 1 /\ s[1] = x
  OBVIOUS
<1> HIDE DEF s
<1>2. PICK g : IsPuts(k, s, Len(s), g)
  BY <1>1, PutsExist
<1>3. IsPuts(k, s, Len(s), f)
  BY <1>2
<1>4. V!puts(k, s) = f[Len(s)]
  BY DEF V!puts, IsPuts
<1> HIDE DEF f
<1>5. f[1] = V!putc(f[1 - 1], s[1]) /\ f[0] = k
  BY <1>1, <1>3 DEF IsPuts
<1>6. f[1] = V!putc(k, x)
  BY <1>1, <1>5
<1> QED BY <1>1, <1>4, <1>6 DEF s

\* A string that stays in its row.
InRow(k, s, n, z) ==
  /\ Loose(z) /\ z.tx = k.tx + n /\ z.ty = k.ty
  /\ \A i \in V!Cells :
       z.mem[i] = IF k.ty * WIDTH + k.tx <= i /\ i < k.ty * WIDTH + k.tx + n
                  THEN s[i - (k.ty * WIDTH + k.tx) + 1] ELSE k.mem[i]

\* A character that is stored.
LEMMA PutcStored ==
  ASSUME NEW z, Loose(z), z.tx < WIDTH, NEW x, x \notin {V!NUL, V!LF, V!CR},
         NEW u, u = V!putc(z, x)
  PROVE  /\ Kept(z, u) /\ u.tx = z.tx + 1 /\ u.ty = z.ty
         /\ \A i \in V!Cells :
              u.mem[i] = IF i = z.ty * WIDTH + z.tx THEN x ELSE z.mem[i]
<1>1. ~(z.tx >= WIDTH)
  <2>1. z.tx \in Int
    BY DEF Loose
  <2> QED BY <2>1, Sizes
<1>2. u = V!Store(V!cursor(z, z.tx + 1, z.ty), x)
  BY <1>1 DEF V!putc
<1> QED BY <1>2, StoreKept

\* One more character of it.
LEMMA PutcInRow ==
  ASSUME NEW k, Loose(k), NEW s, NEW n \in Nat, NEW z, InRow(k, s, n, z),
         k.tx + n < WIDTH, s[n + 1] \notin {V!NUL, V!LF, V!CR}
  PROVE  InRow(k, s, n + 1, V!putc(z, s[n + 1]))
<1> DEFINE u == V!putc(z, s[n + 1])
           b == k.ty * WIDTH + k.tx
<1>1. k.tx \in Nat /\ k.ty \in 0 .. HEIGHT /\ z.tx = k.tx + n /\ z.ty = k.ty /\ z.tx < WIDTH
      /\ DOMAIN z.mem = V!Cells
  BY DEF Loose, InRow
<1> DEFINE x == s[n + 1]
<1>2. Loose(z) /\ x \notin {V!NUL, V!LF, V!CR} /\ u = V!putc(z, x)
  BY DEF InRow
<1> HIDE DEF u, x
<1>3. /\ Kept(z, u) /\ u.tx = z.tx + 1 /\ u.ty = z.ty
      /\ \A i \in V!Cells : u.mem[i] = IF i = z.ty * WIDTH + z.tx THEN x ELSE z.mem[i]
  BY <1>1, <1>2, PutcStored
<1>4. /\ Loose(u) /\ u.tx = z.tx + 1 /\ u.ty = z.ty
      /\ \A i \in V!Cells :
           u.mem[i] = IF i = z.ty * WIDTH + z.tx THEN s[n + 1] ELSE z.mem[i]
  BY <1>3 DEF Kept, x
<1>5. b \in Nat /\ z.ty * WIDTH + z.tx = b + n
  <2> DEFINE r == k.ty * WIDTH
  <2>1. r \in Nat
    BY <1>1, RowCells
  <2> HIDE DEF r
  <2>2. r + k.tx \in Nat /\ r + (k.tx + n) = (r + k.tx) + n
    BY <1>1, <2>1
  <2> QED BY <1>1, <2>2 DEF r
<1>6. \A i \in V!Cells : u.mem[i] = IF i = b + n THEN s[n + 1] ELSE z.mem[i]
  BY <1>4, <1>5
<1>7. \A i \in V!Cells : z.mem[i] = IF b <= i /\ i < b + n THEN s[i - b + 1] ELSE k.mem[i]
  BY DEF InRow
<1> HIDE DEF b
<1>8. ASSUME NEW i \in V!Cells
      PROVE  u.mem[i] = IF b <= i /\ i < b + (n + 1) THEN s[i - b + 1] ELSE k.mem[i]
  <2>1. i \in Int
    BY DEF V!Cells
  <2>2. CASE i = b + n
    <3>1. u.mem[i] = s[n + 1] /\ i - b + 1 = n + 1 /\ b <= i /\ i < b + (n + 1)
      BY <1>5, <1>6, <2>2
    <3> QED BY <3>1
  <2>3. CASE i # b + n
    <3>1. u.mem[i] = z.mem[i] /\ (i < b + (n + 1) <=> i < b + n)
      BY <1>5, <1>6, <2>1, <2>3
    <3> QED BY <1>7, <3>1
  <2> QED BY <2>2, <2>3
<1>9. u.tx = k.tx + (n + 1)
  BY <1>1, <1>4
<1> QED BY <1>1, <1>4, <1>8, <1>9 DEF InRow, u, b

\* All of it.
LEMMA PutsInRow ==
  ASSUME NEW k, Loose(k), NEW s, Len(s) \in Nat, k.tx + Len(s) <= WIDTH,
         \A j \in 1 .. Len(s) : s[j] \notin {V!NUL, V!LF, V!CR}
  PROVE  InRow(k, s, Len(s), V!puts(k, s))
<1> DEFINE f == CHOOSE g : IsPuts(k, s, Len(s), g)
           n == Len(s)
           T == {x \in Nat : x <= n => InRow(k, s, x, f[x])}
<1>1. PICK g : IsPuts(k, s, Len(s), g)
  BY PutsExist
<1>2. IsPuts(k, s, n, f)
  BY <1>1
<1>3. V!puts(k, s) = f[n]
  BY DEF V!puts, IsPuts
<1>4. k.tx \in Nat /\ k.ty \in 0 .. HEIGHT
  BY DEF Loose
<1> HIDE DEF f
<1>5. \A j \in 0 .. n : f[j] = IF j = 0 THEN k ELSE V!putc(f[j - 1], s[j])
  BY <1>2 DEF IsPuts
<1>6. 0 \in T
  <2>1. f[0] = k
    BY <1>5
  <2>2. InRow(k, s, 0, k)
    <3> DEFINE b == k.ty * WIDTH + k.tx
    <3>1. b \in Int
      <4>1. k.ty * WIDTH \in Nat
        BY <1>4, RowCells
      <4> QED BY <1>4, <4>1
    <3> HIDE DEF b
    <3>2. \A i \in V!Cells : ~(b <= i /\ i < b + 0)
      BY <3>1 DEF V!Cells
    <3>3. \A i \in V!Cells : k.mem[i] = IF b <= i /\ i < b + 0 THEN s[i - b + 1] ELSE k.mem[i]
      BY <3>2
    <3> QED BY <1>4, <3>3 DEF InRow, b
  <2> QED BY <2>1, <2>2
<1>7. ASSUME NEW x \in Nat, x \in T PROVE x + 1 \in T
  <2> SUFFICES ASSUME x + 1 <= n PROVE InRow(k, s, x + 1, f[x + 1])
    OBVIOUS
  <2>1. x + 1 \in 0 .. n /\ x + 1 \in 1 .. n /\ x + 1 # 0 /\ (x + 1) - 1 = x /\ x <= n
    OBVIOUS
  <2>2. InRow(k, s, x, f[x])
    BY <1>7, <2>1
  <2>3. f[x + 1] = V!putc(f[x], s[x + 1])
    BY <1>5, <2>1
  <2>4. s[x + 1] \notin {V!NUL, V!LF, V!CR}
    BY <2>1
  <2>5. k.tx + x < WIDTH
    BY <1>4, <2>1, Sizes
  <2> QED BY <2>2, <2>3, <2>4, <2>5, PutcInRow
<1> HIDE DEF T
<1>8. Nat \subseteq T
  BY <1>6, <1>7, Induct
<1> QED BY <1>3, <1>8 DEF T

\* The calls that the shell makes.
Calls ==
  {"puts", "setpos_x", "clrline"} \cup S!Formats

CallOK(o) ==
  /\ o.op \in Calls
  /\ o.op = "puts" => Len(o.arg) \in Nat
  /\ o.op = "setpos_x" => o.arg \in 0 .. 1

\* One call.
LEMMA ShowKept ==
  ASSUME NEW k, Loose(k), NEW o, CallOK(o)
  PROVE  Kept(k, Show(k, o))
<1>1. CASE o.op = "puts"
  <2>1. Show(k, o) = V!puts(k, o.arg)
    BY <1>1 DEF Show
  <2> QED BY <1>1, <2>1, PutsKept DEF CallOK
<1>2. CASE o.op = "setpos_x"
  <2>1. Show(k, o) = V!setpos_x(k, o.arg)
    BY <1>2 DEF Show
  <2> QED BY <1>2, <2>1, SetposKept DEF CallOK
<1>3. CASE o.op = "clrline"
  <2>1. Show(k, o) = V!clrline(k)
    BY <1>3 DEF Show
  <2> QED BY <2>1, ClrlineKept
<1>4. CASE o.op \notin {"puts", "setpos_x", "clrline"}
  <2>1. Show(k, o) = V!puts(k, ReplyText[o.op])
    BY <1>4 DEF Show
  <2>2. ReplyText[o.op] \in Seq(Nat)
    BY <1>4, KernelAssumption DEF CallOK, Calls
  <2>3. Len(ReplyText[o.op]) \in Nat
    BY <2>2
  <2> QED BY <2>1, <2>3, PutsKept
<1> QED BY <1>1, <1>2, <1>3, <1>4

\* g is the console after 0, 1, ... n calls of s.
IsShown(k, s, n, g) ==
  g = [j \in 0 .. n |-> IF j = 0 THEN k ELSE Show(g[j - 1], s[j])]

\* The same for a sequence of calls.
LEMMA ShownExist ==
  ASSUME NEW k, Loose(k), NEW s, NEW n \in Nat, \A j \in 1 .. n : CallOK(s[j])
  PROVE  \E g : IsShown(k, s, n, g) /\ \A m \in 0 .. n : Kept(k, g[m])
<1> DEFINE T == {x \in Nat : x <= n => \E g : IsShown(k, s, x, g) /\ \A m \in 0 .. x : Kept(k, g[m])}
<1>1. 0 \in T
  <2> DEFINE g == [j \in 0 .. 0 |-> k]
  <2>1. IsShown(k, s, 0, g) /\ g[0] = k
    BY DEF IsShown
  <2> HIDE DEF g
  <2> QED BY <2>1, KeptSame
<1>2. ASSUME NEW x \in Nat, x \in T PROVE x + 1 \in T
  <2> SUFFICES ASSUME x + 1 <= n 
               PROVE \E g : IsShown(k, s, x + 1, g) /\ \A m \in 0 .. x + 1 : Kept(k, g[m])
    OBVIOUS
  <2>0. x <= n /\ x + 1 \in 1 .. n
    OBVIOUS
  <2>1. PICK f : IsShown(k, s, x, f) /\ \A m \in 0 .. x : Kept(k, f[m])
    BY <1>2, <2>0
  <2> DEFINE last == Show(f[x], s[x + 1])
             g == [j \in 0 .. x + 1 |-> IF j = x + 1 THEN last ELSE f[j]]
  <2>2. \A j \in 0 .. x : f[j] = IF j = 0 THEN k ELSE Show(f[j - 1], s[j])
    BY <2>1 DEF IsShown
  <2>3. \A j \in 0 .. x + 1 : j # x + 1 => j \in 0 .. x /\ g[j] = f[j]
    OBVIOUS
  <2>4. g[x + 1] = last /\ x + 1 # 0 /\ (x + 1) - 1 = x /\ x \in 0 .. x + 1 /\ x # x + 1
    OBVIOUS
  <2>5. g[x] = f[x]
    BY <2>3, <2>4
  <2>6. ASSUME NEW j \in 0 .. x + 1
        PROVE  g[j] = IF j = 0 THEN k ELSE Show(g[j - 1], s[j])
    <3> HIDE DEF g
    <3>1. CASE j = x + 1
      BY <2>4, <2>5, <3>1
    <3>2. CASE j # x + 1
      <4>1. j \in 0 .. x /\ g[j] = f[j]
        BY <2>3, <3>2
      <4>2. j # 0 => j - 1 \in 0 .. x + 1 /\ j - 1 # x + 1
        BY <4>1
      <4>3. j # 0 => g[j - 1] = f[j - 1]
        BY <2>3, <4>2
      <4> QED BY <2>2, <4>1, <4>3
    <3> QED BY <3>1, <3>2
  <2>7. g = [j \in 0 .. x + 1 |-> g[j]]
    OBVIOUS
  <2> HIDE DEF g
  <2>8. IsShown(k, s, x + 1, g)
    BY <2>6, <2>7 DEF IsShown
  <2>9. ASSUME NEW m \in 0 .. x + 1 PROVE Kept(k, g[m])
    <3>1. Kept(k, f[x]) /\ Loose(f[x])
      BY <2>1 DEF Kept
    <3>2. Kept(f[x], last)
      BY <2>0, <3>1, ShowKept
    <3>3. Kept(k, last)
      BY <3>1, <3>2, KeptTwice
    <3>4. CASE m = x + 1
      BY <2>4, <3>3, <3>4
    <3>5. CASE m # x + 1
      BY <2>1, <2>3, <3>5
    <3> QED BY <3>4, <3>5
  <2> QED BY <2>8, <2>9
<1> HIDE DEF T
<1>3. Nat \subseteq T
  BY <1>1, <1>2, Induct
<1> QED BY <1>3 DEF T

\* There is one such sequence of consoles.
LEMMA ShownUnique ==
  ASSUME NEW k, NEW s, NEW n \in Nat, NEW f, NEW g, IsShown(k, s, n, f), IsShown(k, s, n, g)
  PROVE  f[n] = g[n]
<1> DEFINE T == {x \in Nat : x <= n => f[x] = g[x]}
<1>1. \A j \in 0 .. n : /\ f[j] = IF j = 0 THEN k ELSE Show(f[j - 1], s[j])
                        /\ g[j] = IF j = 0 THEN k ELSE Show(g[j - 1], s[j])
  BY DEF IsShown
<1>2. 0 \in T
  BY <1>1
<1>3. ASSUME NEW x \in Nat, x \in T PROVE x + 1 \in T
  <2>1. CASE x + 1 <= n
    <3>1. x + 1 \in 0 .. n /\ x + 1 # 0 /\ (x + 1) - 1 = x /\ x <= n
      BY <2>1
    <3>2. f[x] = g[x]
      BY <1>3, <3>1
    <3>3. f[x + 1] = g[x + 1]
      BY <1>1, <3>1, <3>2
    <3> QED BY <3>3
  <2>2. CASE ~(x + 1 <= n)
    BY <2>2
  <2> QED BY <2>1, <2>2
<1> HIDE DEF T
<1>4. Nat \subseteq T
  BY <1>2, <1>3, Induct
<1> QED BY <1>4 DEF T

\* The consoles between the calls, the first call's and the last one's.
LEMMA ShownKept ==
  ASSUME NEW k, Loose(k), NEW s, Len(s) \in Nat, \A j \in 1 .. Len(s) : CallOK(s[j])
  PROVE  \E g : /\ g[0] = k /\ g[Len(s)] = Shown(k, s)
                /\ \A j \in 1 .. Len(s) : g[j] = Show(g[j - 1], s[j])
                /\ \A j \in 0 .. Len(s) : Kept(k, g[j])
<1> DEFINE f == CHOOSE g : IsShown(k, s, Len(s), g)
<1>1. PICK g : IsShown(k, s, Len(s), g) /\ \A m \in 0 .. Len(s) : Kept(k, g[m])
  BY ShownExist
<1>2. IsShown(k, s, Len(s), f)
  BY <1>1
<1>3. Shown(k, s) = f[Len(s)]
  BY DEF Shown, IsShown
<1> HIDE DEF f
<1>4. f[Len(s)] = g[Len(s)]
  BY <1>1, <1>2, ShownUnique
<1>5. g[0] = k /\ \A j \in 1 .. Len(s) : g[j] = Show(g[j - 1], s[j])
  BY <1>1 DEF IsShown
<1> QED BY <1>1, <1>3, <1>4, <1>5

\* Concatenations of short tuples, as the handler makes them.
LEMMA Tuple2 == ASSUME NEW A, NEW z \in Seq(A), Len(z) = 2 PROVE z = <<z[1], z[2]>>
OBVIOUS
\* Of four.
LEMMA Tuple4 == ASSUME NEW A, NEW z \in Seq(A), Len(z) = 4 PROVE z = <<z[1], z[2], z[3], z[4]>>
OBVIOUS
\* Of five.
LEMMA Tuple5 ==
  ASSUME NEW A, NEW z \in Seq(A), Len(z) = 5 PROVE z = <<z[1], z[2], z[3], z[4], z[5]>>
OBVIOUS

\* The joins that kcallback makes.
LEMMA JoinTwo == ASSUME NEW a, NEW b PROVE <<a>> \o <<b>> = <<a, b>>
<1> DEFINE A == {a, b}
           z == <<a>> \o <<b>>
<1>1. <<a>> \in Seq(A) /\ <<b>> \in Seq(A)
  OBVIOUS
<1>2. z \in Seq(A) /\ Len(z) = 2 /\ z[1] = a /\ z[2] = b
  BY <1>1
<1> HIDE DEF A, z
<1>3. z = <<a, b>>
  BY <1>2, Tuple2
<1> QED BY <1>3 DEF z

\* Three calls and one.
LEMMA Join ==
  ASSUME NEW a, NEW b, NEW d, NEW e
  PROVE  <<a, b, d>> \o <<e>> = <<a, b, d, e>>
<1> DEFINE A == {a, b, d, e}
           z == <<a, b, d>> \o <<e>>
<1>1. <<a, b, d>> \in Seq(A) /\ <<e>> \in Seq(A)
  OBVIOUS
<1>2. z \in Seq(A) /\ Len(z) = 4 /\ z[1] = a /\ z[2] = b /\ z[3] = d /\ z[4] = e
  BY <1>1
<1> HIDE DEF A, z
<1>3. z = <<a, b, d, e>>
  BY <1>2, Tuple4
<1> QED BY <1>3 DEF z

\* Four calls and one.
LEMMA JoinLast ==
  ASSUME NEW A, NEW y \in Seq(A), NEW w \in Seq(A)
  PROVE  Len(y) = 4 /\ Len(w) = 1 => y \o w = <<y[1], y[2], y[3], y[4], w[1]>>
<1> DEFINE z == y \o w
<1>1. z \in Seq(A) /\ Len(z) = Len(y) + Len(w)
  OBVIOUS
<1>2. \A k \in 1 .. Len(y) : z[k] = y[k]
  OBVIOUS
<1>3. \A k \in 1 .. Len(w) : z[Len(y) + k] = w[k]
  OBVIOUS
<1> HIDE DEF z
<1>4. SUFFICES ASSUME Len(y) = 4, Len(w) = 1 PROVE z = <<y[1], y[2], y[3], y[4], w[1]>>
  BY DEF z
<1>5. Len(z) = 5 /\ z[1] = y[1] /\ z[2] = y[2] /\ z[3] = y[3] /\ z[4] = y[4]
  BY <1>1, <1>2, <1>4
<1>6. z[4 + 1] = w[1]
  BY <1>3, <1>4
<1>7. z = <<z[1], z[2], z[3], z[4], z[5]>>
  BY <1>1, <1>5, Tuple5
<1>8. z[5] = w[1]
  BY <1>6
<1> QED BY <1>5, <1>7, <1>8

\* The frame of Enter around the two calls of shell_proc.
LEMMA JoinFrame ==
  ASSUME NEW a, NEW b, NEW f, NEW d, NEW e
  PROVE  <<a, b>> \o <<f, d>> \o <<e>> = <<a, b, f, d, e>>
<1> DEFINE A == {a, b, f, d, e}
           y == <<a, b>> \o <<f, d>>
           w == <<e>>
<1>1. <<a, b>> \in Seq(A) /\ <<f, d>> \in Seq(A)
  OBVIOUS
<1>2. w \in Seq(A) /\ Len(w) = 1 /\ w[1] = e
  OBVIOUS
<1>3. y \in Seq(A) /\ Len(y) = 4 /\ y[1] = a /\ y[2] = b /\ y[3] = f /\ y[4] = d
  BY <1>1
<1> HIDE DEF A, y, w
<1>4. y \o w = <<y[1], y[2], y[3], y[4], w[1]>>
  BY <1>2, <1>3, JoinLast
<1> QED BY <1>2, <1>3, <1>4 DEF y, w

\* The string shown from a buffer is one, whatever the buffer holds.
LEMMA TextLen ==
  ASSUME NEW buf, NEW past, Len(past) \in Nat
  PROVE  Len(S!Text(buf, past)) \in Nat
<1> DEFINE m == S!View(buf, past)
           J == {j \in DOMAIN m : j >= 0 /\ m[j] = S!NUL}
           n == S!strlen(m, 0)
<1>1. N \in Nat
  BY KernelAssumption
<1>2. DOMAIN m = 0 .. N + Len(past) /\ m[N + Len(past)] = S!NUL
  BY <1>1 DEF S!View
<1> HIDE DEF m
<1>3. N + Len(past) \in J /\ J \subseteq Nat
  BY <1>1, <1>2
<1>4. n = S!Min(J) - 0
  BY DEF S!strlen, S!FirstAt
<1>5. S!Min(J) \in J
  <2>1. \E x \in J : \A y \in J : x <= y
    BY <1>3, Least
  <2> HIDE DEF J
  <2> QED BY <2>1 DEF S!Min
<1>6. n \in Nat
  <2> HIDE DEF n
  <2>1. S!Min(J) \in Nat
    BY <1>3, <1>5
  <2> QED BY <1>4, <2>1
<1> HIDE DEF n, J
<1>7. S!Text(buf, past) = [k \in 1 .. n |-> m[0 + k - 1]]
  BY DEF S!Text, S!StrAt, m, n
<1> QED BY <1>6, <1>7

\* A command prints by one of the shell's formats.
LEMMA CommandPrints ==
  ASSUME NEW v, NEW r, NEW e
  PROVE  S!Command(v, r, e).print.op \in S!Formats
<1>1. ASSUME NEW t PROVE S!peek(t, r, e).print.op \in S!Formats
  BY DEF S!peek, S!Result, S!Printf, S!Formats
<1>2. ASSUME NEW t PROVE S!poke(t, r).print.op \in S!Formats
  BY DEF S!poke, S!poke_value, S!Result, S!Printf, S!Formats
<1>3. ASSUME NEW w PROVE S!Dispatch(w, r, e).print.op \in S!Formats
  <2> DEFINE word == IF w.tok = S!NULLPTR THEN e.null ELSE S!StrAt(w.m, w.tok)
  <2>1. S!Result(w, S!Printf("unknown", word), r).print.op \in S!Formats
    BY DEF S!Result, S!Printf, S!Formats
  <2> DEFINE h == S!shell_hash(word)
  <2>2. S!Dispatch(w, r, e) = CASE h = "peek" -> S!peek(S!NextToken(w), r, e)
                                [] h = "poke" -> S!poke(S!NextToken(w), r)
                                [] OTHER -> S!Result(w, S!Printf("unknown", word), r)
    BY DEF S!Dispatch
  <2> HIDE DEF h, word
  <2>3. CASE h = "peek"
    BY <1>1, <2>2, <2>3
  <2>4. CASE h = "poke"
    BY <1>2, <2>2, <2>4
  <2>5. CASE h # "peek" /\ h # "poke"
    BY <2>1, <2>2, <2>5
  <2> QED BY <2>3, <2>4, <2>5
<1> QED BY <1>3 DEF S!Command

\* The calls of the three branches of kcallback.
LEMMA EnterCalls ==
  ASSUME NEW s, NEW r, NEW e, NEW o, o = S!enter(s, r, e).out
  PROVE  /\ Len(o) = 5 /\ o[1] = S!SetposX(0) /\ o[2] = S!Puts(<<S!LF>>)
         /\ CallOK(o[3]) /\ o[4] = S!Puts(<<S!LF>>) /\ o[5] = S!Puts(S!PROMPT)
<1> DEFINE cmd == S!Command(S!View(s.buf, e.past), r, e)
           p == cmd.print
           z == <<S!SetposX(0), S!Puts(<<S!LF>>), p, S!Puts(<<S!LF>>), S!Puts(S!PROMPT)>>
<1>1. S!shell_proc(s, r, e).out = <<p, S!Puts(<<S!LF>>)>>
  BY DEF S!shell_proc, S!Finish
<1>2. S!enter(s, r, e).out
        = <<S!SetposX(0), S!Puts(<<S!LF>>)>> \o S!shell_proc(s, r, e).out \o <<S!Puts(S!PROMPT)>>
  BY DEF S!enter, S!Framed, S!shell_proc, S!Finish
<1>3. p.op \in S!Formats
  BY CommandPrints
<1> HIDE DEF p, cmd
<1>4. CallOK(p)
  BY <1>3 DEF CallOK, Calls, S!Formats
<1>5. o = z
  BY <1>1, <1>2, JoinFrame
<1>6. Len(z) = 5 /\ z[1] = S!SetposX(0) /\ z[2] = S!Puts(<<S!LF>>) /\ z[3] = p
      /\ z[4] = S!Puts(<<S!LF>>) /\ z[5] = S!Puts(S!PROMPT)
  OBVIOUS
<1> HIDE DEF z
<1> QED BY <1>4, <1>5, <1>6

\* Backspace.
LEMMA EraseCalls ==
  ASSUME NEW t, NEW r, NEW st, "BCKSP" \in st, NEW e, NEW o, o = S!Echo(t, r, st, e).out
  PROVE  /\ Len(o) = 4 /\ o[1] = S!Clrline /\ o[2] = S!SetposX(0)
         /\ o[3] = S!Puts(S!PROMPT) /\ o[4] = S!Puts(S!Text(t.buf, e.past))
<1> DEFINE last == S!Puts(S!Text(t.buf, e.past))
           z == <<S!Clrline, S!SetposX(0), S!Puts(S!PROMPT), last>>
<1>1. o = <<S!Clrline, S!SetposX(0), S!Puts(S!PROMPT)>> \o <<last>>
  BY DEF S!Echo
<1> HIDE DEF last
<1>2. o = z
  BY <1>1, Join
<1>3. Len(z) = 4 /\ z[1] = S!Clrline /\ z[2] = S!SetposX(0) /\ z[3] = S!Puts(S!PROMPT)
      /\ z[4] = last
  OBVIOUS
<1> HIDE DEF z
<1> QED BY <1>2, <1>3 DEF last

\* Any other key.
LEMMA TypeCalls ==
  ASSUME NEW t, NEW r, NEW st, "BCKSP" \notin st, NEW e, NEW o, o = S!Echo(t, r, st, e).out
  PROVE  Len(o) = 2 /\ o[1] = S!SetposX(1) /\ o[2] = S!Puts(S!Text(t.buf, e.past))
<1> DEFINE last == S!Puts(S!Text(t.buf, e.past))
           z == <<S!SetposX(1), last>>
<1>1. o = <<S!SetposX(1)>> \o <<last>>
  BY DEF S!Echo
<1> HIDE DEF last
<1>2. o = z
  BY <1>1, JoinTwo
<1>3. Len(z) = 2 /\ z[1] = S!SetposX(1) /\ z[2] = last
  OBVIOUS
<1> HIDE DEF z
<1> QED BY <1>2, <1>3 DEF last

\* Every call of the handler is one that the console keeps.
LEMMA CallbackCalls ==
  ASSUME NEW s, NEW r, NEW x, NEW st, NEW e \in Env
  PROVE  LET o == S!kcallback(s, r, x, st, e).out
         IN  Len(o) \in Nat /\ \A j \in 1 .. Len(o) : CallOK(o[j])
<1> DEFINE o == S!kcallback(s, r, x, st, e).out
<1>1. e.past \in Seq(Nat \ {V!NUL})
  BY KernelAssumption
<1>2. Len(e.past) \in Nat
  BY <1>1
<1>3. /\ CallOK(S!SetposX(0)) /\ CallOK(S!SetposX(1)) /\ CallOK(S!Clrline)
      /\ CallOK(S!Puts(<<S!LF>>)) /\ CallOK(S!Puts(S!PROMPT))
  BY DEF CallOK, Calls, S!SetposX, S!Puts, S!Clrline, S!PROMPT, S!Formats
<1>4. CASE x = S!LF
  <2>1. o = S!enter(s, r, e).out
    BY <1>4 DEF S!kcallback
  <2> HIDE DEF o
  <2>2. Len(o) = 5 /\ CallOK(o[1]) /\ CallOK(o[2]) /\ CallOK(o[3]) /\ CallOK(o[4]) /\ CallOK(o[5])
    BY <1>3, <2>1, EnterCalls
  <2>3. ASSUME NEW j \in 1 .. 5 PROVE CallOK(o[j])
    <3>1. j = 1 \/ j = 2 \/ j = 3 \/ j = 4 \/ j = 5
      OBVIOUS
    <3> QED BY <2>2, <3>1
  <2> QED BY <2>2, <2>3 DEF o
<1>5. CASE x # S!LF
  <2> DEFINE t == S!edit(s, x, st, e)
             last == S!Puts(S!Text(t.buf, e.past))
  <2>1. o = S!Echo(t, r, st, e).out
    BY <1>5 DEF S!kcallback
  <2>2. CallOK(last)
    BY <1>2, TextLen DEF CallOK, Calls, S!Puts, S!Formats
  <2> HIDE DEF o, t
  <2>3. CASE "BCKSP" \in st
    <3>1. Len(o) = 4 /\ CallOK(o[1]) /\ CallOK(o[2]) /\ CallOK(o[3]) /\ CallOK(o[4])
      BY <1>3, <2>1, <2>2, <2>3, EraseCalls
    <3>2. ASSUME NEW j \in 1 .. 4 PROVE CallOK(o[j])
      <4>1. j = 1 \/ j = 2 \/ j = 3 \/ j = 4
        OBVIOUS
      <4> QED BY <3>1, <4>1
    <3> QED BY <3>1, <3>2 DEF o
  <2>4. CASE "BCKSP" \notin st
    <3>1. Len(o) = 2 /\ CallOK(o[1]) /\ CallOK(o[2])
      BY <1>3, <2>1, <2>2, <2>4, TypeCalls
    <3>2. ASSUME NEW j \in 1 .. 2 PROVE CallOK(o[j])
      <4>1. j = 1 \/ j = 2
        OBVIOUS
      <4> QED BY <3>1, <4>1
    <3> QED BY <3>1, <3>2 DEF o
  <2> QED BY <2>3, <2>4
<1> QED BY <1>4, <1>5

\* What an interrupt makes of the console.
LEMMA HandlerKept ==
  ASSUME NEW k, Loose(k), NEW s, NEW r, NEW x, NEW st, NEW e \in Env
  PROVE  Kept(k, Shown(k, S!kcallback(s, r, x, st, e).out))
<1> DEFINE o == S!kcallback(s, r, x, st, e).out
<1>1. Len(o) \in Nat /\ \A j \in 1 .. Len(o) : CallOK(o[j])
  BY CallbackCalls
<1> HIDE DEF o
<1>2. Kept(k, Shown(k, o))
  <2>1. PICK g : g[Len(o)] = Shown(k, o) /\ \A j \in 0 .. Len(o) : Kept(k, g[j])
    BY <1>1, ShownKept
  <2>2. Len(o) \in 0 .. Len(o)
    BY <1>1
  <2> QED BY <2>1, <2>2
<1> QED BY <1>2 DEF o

-----------------------------------------------------------------------------
(* kmain between two accesses.                                             *)

Fields == {"phase", "todo", "at", "nl", "i", "row", "col", "off", "cell"}

Scrolling == {"over", "move", "put", "bottom"}

(* The row is below the page only from ty += 1 to the end of vga_scroll,   *)
(* the column past the end only until the next test; what kmain has read   *)
(* of either obeys the same bounds when it is used.                        *)
Bounded ==
  /\ DOMAIN main = Fields
  /\ main.at \notin Scrolling => con.ty < HEIGHT
  /\ main.at \notin {"test", "load", "home"} => con.tx <= WIDTH
  /\ main.at \in {"home", "down"} => main.row \in 0 .. HEIGHT - 1
  /\ main.at \in {"off", "store", "step"} => main.col \in 0 .. WIDTH
  /\ main.at = "store" => main.off \in 0 .. V!Page
  /\ main.at \in {"move", "put"} => main.i \in 0 .. V!Page - 1
  /\ main.at \notin {"move", "put"} /\ main.phase # "memset" => main.i = 0
  /\ main.todo = <<>> \/ main.phase \in {"memset", "idle"} => main.at = "test"

BInv == Loose(con) /\ Bounded

\* Initially: what arch_init has printed.
LEMMA InitBInv == Init => BInv
<1> SUFFICES ASSUME Init PROVE BInv
  OBVIOUS
<1> DEFINE k == V!vga_init
<1>1. /\ DOMAIN k = {"tx", "ty", "mem", "crtc"} /\ DOMAIN k.mem = V!Cells
      /\ k.tx = 0 /\ k.ty = 0 /\ \A i \in V!Cells : k.mem[i] = V!NUL
  BY DEF V!vga_init
<1> HIDE DEF k
<1>2. Loose(k)
  BY <1>1, Sizes DEF Loose
<1>3. Len(Banner) \in Nat
  <2>1. Banner \in Seq(Nat)
    BY KernelAssumption
  <2> QED BY <2>1
<1>4. Kept(k, con)
  BY <1>2, <1>3, PutsKept DEF Init, k
<1>5. Loose(con) /\ con.tx <= WIDTH /\ con.ty < HEIGHT
  BY <1>1, <1>4, Sizes DEF Kept
<1>6. Bounded
  BY <1>5 DEF Init, Bounded, Fields, Scrolling
<1> QED BY <1>5, <1>6 DEF BInv

\* The handler leaves kmain where it is.
LEMMA IrqBInv ==
  ASSUME BInv, NEW sc, Irq(sc)
  PROVE  BInv'
<1>1. Loose(con) /\ Bounded /\ main' = main
  BY DEF BInv, Irq
<1>2. Kept(con, con')
  <2> DEFINE r == K!keyboard(kb, sc)
             x == r.call[1].c
             st == r.call[1].st
  <2>1. \/ con' = con
        \/ \E e \in Env : con' = Shown(con, S!kcallback(sh, ram, x, st, e).out)
    BY DEF Irq
  <2> HIDE DEF x, st
  <2>2. CASE con' = con
    BY <1>1, <2>2, KeptSame
  <2>3. CASE \E e \in Env : con' = Shown(con, S!kcallback(sh, ram, x, st, e).out)
    BY <1>1, <2>3, HandlerKept
  <2> QED BY <2>1, <2>2, <2>3
<1>3. Bounded'
  BY <1>1, <1>2 DEF Bounded, Kept
<1> QED BY <1>2, <1>3 DEF BInv, Kept

\* One access of kmain, in each phase.
LEMMA MainBInv ==
  ASSUME BInv, Main
  PROVE  BInv'
<1> USE DEF At, Goto, Fields, Scrolling, Bounded
<1>0. Loose(con) /\ Bounded /\ DOMAIN main = Fields
      /\ con.tx \in 0 .. WIDTH + 1 /\ con.ty \in 0 .. HEIGHT
  BY DEF BInv, Loose
<1>00. WIDTH \in Nat /\ WIDTH >= 2 /\ HEIGHT \in Nat /\ HEIGHT >= 2
       /\ V!Page \in Nat /\ V!Page > 0 /\ Bottom = V!Page + WIDTH
  BY Sizes DEF Bottom
<1>000. DOMAIN con = {"tx", "ty", "mem", "crtc"}
  BY <1>0 DEF Loose
<1>1. ASSUME PutcTest PROVE BInv'
  BY <1>0, <1>00, <1>1 DEF PutcTest, Kind, BInv
<1>2. ASSUME PutcLoad PROVE BInv'
  BY <1>0, <1>00, <1>2 DEF PutcLoad, BInv
<1>3. ASSUME PutcHome PROVE BInv'
  <2>1. Loose(con') /\ con'.tx = 0 /\ con'.ty = con.ty
    BY <1>0, <1>00, <1>3 DEF PutcHome, Loose
  <2> QED BY <1>0, <1>00, <1>3, <2>1 DEF PutcHome, BInv
<1>4. ASSUME PutcDown PROVE BInv'
  <2>1. Loose(con') /\ con'.tx = con.tx
    BY <1>0, <1>00, <1>4 DEF PutcDown, Loose
  <2> QED BY <1>0, <1>00, <1>4, <2>1 DEF PutcDown, BInv
<1>5. ASSUME ScrollTest PROVE BInv'
  BY <1>0, <1>00, <1>5 DEF ScrollTest, Scrolled, Kind, BInv
<1>6. ASSUME ScrollLoad PROVE BInv'
  BY <1>0, <1>00, <1>6 DEF ScrollLoad, BInv
<1>7. ASSUME ScrollStore PROVE BInv'
  <2>1. Loose(con') /\ con'.tx = con.tx /\ con'.ty = con.ty
    BY <1>0, <1>00, <1>7 DEF ScrollStore, Loose, V!Cells
  <2> QED BY <1>0, <1>00, <1>7, <2>1 DEF ScrollStore, BInv
<1>8. ASSUME ScrollBottom PROVE BInv'
  <2>1. Loose(con') /\ con'.tx = con.tx /\ con'.ty = HEIGHT - 1
    BY <1>0, <1>00, <1>8 DEF ScrollBottom, Loose
  <2> QED BY <1>0, <1>00, <1>8, <2>1 DEF ScrollBottom, Scrolled, Kind, BInv
<1>9. ASSUME PutcCursor PROVE BInv'
  <2>1. Loose(con') /\ con'.tx = con.tx /\ con'.ty = con.ty
    BY <1>0, <1>9, CursorLoose DEF PutcCursor
  <2> QED BY <1>0, <1>00, <1>9, <2>1 DEF PutcCursor, BInv
<1>10. ASSUME PutcColumn PROVE BInv'
  BY <1>0, <1>00, <1>10 DEF PutcColumn, BInv
<1>11. ASSUME PutcRow PROVE BInv'
  <2> DEFINE r == con.ty * WIDTH
  <2>1. r \in Nat /\ r + WIDTH <= V!Page
    BY <1>0, <1>11, RowCells DEF PutcRow
  <2>2. main.col \in 0 .. WIDTH
    BY <1>0, <1>11 DEF PutcRow
  <2>3. main'.off = r + main.col /\ main' = [Goto("store") EXCEPT !.off = r + main.col]
    BY <1>0, <1>11 DEF PutcRow
  <2> HIDE DEF r
  <2>4. main'.off \in 0 .. V!Page
    BY <1>00, <2>1, <2>2, <2>3
  <2> QED BY <1>0, <1>00, <1>11, <2>3, <2>4 DEF PutcRow, BInv
<1>12. ASSUME PutcStore PROVE BInv'
  <2>1. Loose(con') /\ con'.tx = con.tx /\ con'.ty = con.ty
    BY <1>0, <1>00, <1>12 DEF PutcStore, Loose, V!Cells
  <2> QED BY <1>0, <1>00, <1>12, <2>1 DEF PutcStore, BInv
<1>13. ASSUME PutcStep PROVE BInv'
  <2>1. Loose(con') /\ con'.ty = con.ty
    BY <1>0, <1>00, <1>13 DEF PutcStep, Loose
  <2> QED BY <1>0, <1>00, <1>13, <2>1 DEF PutcStep, BInv
<1>14. ASSUME HelloDone PROVE BInv'
  BY <1>0, <1>00, <1>14 DEF HelloDone, BInv
<1>15. ASSUME Memset PROVE BInv'
  BY <1>0, <1>00, <1>15 DEF Memset, BInv
<1>16. ASSUME PromptDone PROVE BInv'
  BY <1>0, <1>00, <1>16 DEF PromptDone, BInv
<1> QED BY <1>1, <1>2, <1>3, <1>4, <1>5, <1>6, <1>7, <1>8, <1>9, <1>10, <1>11, <1>12,
           <1>13, <1>14, <1>15, <1>16 DEF Main

\* Any step.
LEMMA NextBInv == BInv /\ [Next]_vars => BInv'
<1> SUFFICES ASSUME BInv, [Next]_vars PROVE BInv'
  OBVIOUS
<1>1. CASE UNCHANGED vars
  BY <1>1 DEF vars, BInv, Loose, Bounded
<1> QED BY <1>1, MainBInv, IrqBInv DEF Next

(* An interrupt in the middle of kmain's putc makes stores go wrong by a   *)
(* row at most (vga.c:25, 44-58), for every page, every text and any       *)
(* number of interrupts at any of its accesses.                            *)
THEOREM StoresNearPage == Spec => []StrayStoresBounded
<1>1. BInv => StrayStoresBounded
  BY DEF BInv, Loose, StrayStoresBounded, Bottom
<1> QED BY InitBInv, NextBInv, <1>1, PTL DEF Spec

(* Whatever the interrupts did to kmain's putc, it leaves a position that  *)
(* the next putc can continue from (vga.c:42-60).                          *)
THEOREM IdleIsOnPage == Spec => []IdlePositionOnPage
<1>1. BInv => IdlePositionOnPage
  BY DEF BInv, Loose, Bounded, Scrolling, IdlePositionOnPage
<1> QED BY InitBInv, NextBInv, <1>1, PTL DEF Spec

-----------------------------------------------------------------------------
(* The line: text up to shellptr, NULs from there on.                      *)

Whole(s) ==
  /\ DOMAIN s = {"buf", "ptr", "hist", "hptr", "h"} /\ DOMAIN s.buf = 0 .. N - 1
  /\ s.ptr \in 0 .. N - 1
  /\ \A j \in 0 .. N - 1 : s.buf[j] = S!NUL <=> j >= s.ptr

\* The text of a whole line is shellptr long.
LEMMA WholeText ==
  ASSUME NEW s, Whole(s), NEW past, Len(past) \in Nat
  PROVE  /\ Len(S!Text(s.buf, past)) = s.ptr
         /\ \A j \in 1 .. s.ptr : S!Text(s.buf, past)[j] = s.buf[j - 1]
<1> DEFINE l == Len(past)
           m == S!View(s.buf, past)
           J == {j \in DOMAIN m : j >= 0 /\ m[j] = S!NUL}
           n == s.ptr
<1>1. N \in Nat /\ n \in Nat /\ n < N /\ l \in Nat
  BY KernelAssumption DEF Whole
<1>2. DOMAIN m = 0 .. N + l /\ \A j \in 0 .. N + l : j < N => m[j] = s.buf[j]
  BY DEF S!View
<1> HIDE DEF m, l
<1>3. m[n] = S!NUL /\ \A j \in 0 .. N + l : j < n => m[j] # S!NUL
  BY <1>1, <1>2 DEF Whole
<1>4. S!Min(J) = n
  <2>1. n \in J /\ \A y \in J : n <= y
    BY <1>1, <1>2, <1>3
  <2>2. \A x \in J : x \in Int
    BY <1>1, <1>2
  <2> HIDE DEF J, n
  <2>3. \A x \in J : (\A y \in J : x <= y) => x = n
    <3> SUFFICES ASSUME NEW x \in J, \A y \in J : x <= y PROVE x = n
      OBVIOUS
    <3>1. x <= n /\ n <= x /\ x \in Int /\ n \in Int
      BY <1>1, <2>1, <2>2
    <3> QED BY <3>1
  <2>4. S!Min(J) \in J /\ \A y \in J : S!Min(J) <= y
    BY <2>1 DEF S!Min
  <2> QED BY <2>3, <2>4
<1>5. S!strlen(m, 0) = S!Min(J) - 0
  BY DEF S!strlen, S!FirstAt
<1>6. S!strlen(m, 0) = n
  BY <1>1, <1>4, <1>5
<1>7. S!Text(s.buf, past) = [k \in 1 .. S!strlen(m, 0) |-> m[0 + k - 1]]
  BY DEF S!Text, S!StrAt, m
<1>8. S!Text(s.buf, past) = [k \in 1 .. n |-> m[0 + k - 1]]
  BY <1>6, <1>7
<1>9. \A j \in 1 .. n : m[0 + j - 1] = s.buf[j - 1]
  BY <1>1, <1>2
<1> HIDE DEF n
<1>10. Len(S!Text(s.buf, past)) = n /\ \A j \in 1 .. n : S!Text(s.buf, past)[j] = s.buf[j - 1]
  BY <1>1, <1>8, <1>9
<1> QED BY <1>10 DEF n

\* Nothing has happened to the line that the properties exclude.
Fine == ~early /\ ~arrows /\ ~overrun

SInv ==
  /\ early \in BOOLEAN /\ arrows \in BOOLEAN /\ overrun \in BOOLEAN
  /\ Fine => Whole(sh)
  /\ ~early /\ main.phase # "idle" => sh.ptr = 0 /\ DOMAIN main = Fields

\* Enter leaves a whole line, an edit keeps one.
LEMMA EnterWhole ==
  ASSUME NEW s, NEW r, NEW e
  PROVE  Whole(S!enter(s, r, e).sh) /\ S!enter(s, r, e).sh.ptr = 0
<1> DEFINE t == S!shell_proc(s, r, e).sh
<1>1. /\ DOMAIN t = {"buf", "ptr", "hist", "hptr", "h"} /\ t.ptr = 0
      /\ t.buf = [i \in 0 .. N - 1 |-> S!NUL]
  BY DEF S!shell_proc, S!Finish, S!Blank, S!Idx
<1>2. S!enter(s, r, e).sh = t
  BY DEF S!enter, S!Framed, S!shell_proc, S!Finish
<1> HIDE DEF t
<1>3. N \in Nat \ {0}
  BY KernelAssumption
<1> QED BY <1>1, <1>2, <1>3 DEF Whole

\* Typing and erasing keep text and length in step.
LEMMA EditWhole ==
  ASSUME NEW s, Whole(s), NEW x, NEW st, NEW e, x # S!LF,
         ~S!Overruns(s, x, st), ~S!IsArrow(x, st)
  PROVE  Whole(S!edit(s, x, st, e))
<1>1. N \in Nat \ {0} /\ s.ptr \in 0 .. N - 1
  BY KernelAssumption DEF Whole
<1>2. CASE "BCKSP" \in st
  <2> DEFINE p == IF s.ptr > 0 THEN s.ptr - 1 ELSE s.ptr
             b == [s.buf EXCEPT ![p] = S!NUL]
             t == [s EXCEPT !.buf = b, !.ptr = p, !.h = s.h]
  <2>1. S!edit(s, x, st, e) = t
    BY <1>2 DEF S!edit, S!erase, S!Edit
  <2>2. DOMAIN t = {"buf", "ptr", "hist", "hptr", "h"} /\ t.buf = b /\ t.ptr = p
    BY DEF Whole
  <2>3. p \in 0 .. N - 1 /\ p <= s.ptr /\ (p = s.ptr \/ p + 1 = s.ptr)
        /\ (p = s.ptr => p = 0)
    BY <1>1
  <2> HIDE DEF t, p
  <2>4. DOMAIN b = 0 .. N - 1 /\ \A j \in 0 .. N - 1 : b[j] = S!NUL <=> j >= p
    BY <1>1, <2>3 DEF Whole
  <2> QED BY <2>1, <2>2, <2>3, <2>4 DEF Whole
<1>3. CASE "BCKSP" \notin st
  <2> DEFINE b == [s.buf EXCEPT ![s.ptr] = x]
             g == S!Inc(s.ptr, N)
             t == [s EXCEPT !.buf = b, !.ptr = g, !.h = s.h]
  <2>1. x # S!NUL /\ "UP" \notin st /\ "DOWN" \notin st /\ s.ptr # N - 1
    BY <1>3 DEF S!IsArrow, S!Overruns
  <2>2. S!edit(s, x, st, e) = t
    BY <1>3, <2>1 DEF S!edit, S!type, S!Edit
  <2>3. DOMAIN t = {"buf", "ptr", "hist", "hptr", "h"} /\ t.buf = b /\ t.ptr = g
    BY DEF Whole
  <2>4. g = s.ptr + 1 /\ g \in 0 .. N - 1
    BY <1>1, <2>1 DEF S!Inc
  <2> HIDE DEF t, g
  <2>5. DOMAIN b = 0 .. N - 1 /\ \A j \in 0 .. N - 1 : b[j] = S!NUL <=> j >= g
    BY <1>1, <2>1, <2>4 DEF Whole
  <2> QED BY <2>2, <2>3, <2>4, <2>5 DEF Whole
<1> QED BY <1>2, <1>3

\* The invariant of the line, initially, in the handler and in kmain.
LEMMA InitSInv == Init => SInv
<1> SUFFICES ASSUME Init PROVE SInv
  OBVIOUS
<1>1. N \in Nat \ {0}
  BY KernelAssumption
<1>2. Whole(sh) /\ sh.ptr = 0
  BY <1>1 DEF Init, S!shell_statics, S!Blank, S!Idx, Whole
<1> QED BY <1>2 DEF Init, SInv, Fields

\* A key.
LEMMA IrqSInv ==
  ASSUME SInv, NEW sc, Irq(sc)
  PROVE  SInv'
<1> DEFINE r == K!keyboard(kb, sc)
           x == r.call[1].c
           st == r.call[1].st
<1>0. main' = main
  BY DEF Irq
<1>1. CASE UNCHANGED <<con, sh, ram, early, overrun, arrows>>
  BY <1>0, <1>1 DEF SInv, Fine, Whole
<1>2. CASE ~UNCHANGED <<con, sh, ram, early, overrun, arrows>>
  <2>1. PICK e \in Env :
          /\ sh' = S!kcallback(sh, ram, x, st, e).sh
          /\ early' = (main.phase # "idle" \/ (early /\ x # S!LF))
          /\ overrun' = (overrun \/ S!Overruns(sh, x, st))
          /\ arrows' = (arrows \/ S!IsArrow(x, st))
    BY <1>2 DEF Irq
  <2> HIDE DEF x, st
  <2>2. early' \in BOOLEAN /\ overrun' \in BOOLEAN /\ arrows' \in BOOLEAN
    BY <2>1 DEF SInv
  <2>3. ~early' => main.phase = "idle"
    BY <2>1
  <2>4. ASSUME Fine' PROVE Whole(sh')
    <3>1. /\ ~overrun /\ ~arrows /\ ~S!Overruns(sh, x, st) /\ ~S!IsArrow(x, st)
          /\ x = S!LF \/ ~early
      BY <2>1, <2>4 DEF Fine, SInv
    <3>2. CASE x = S!LF
      <4>1. sh' = S!enter(sh, ram, e).sh
        BY <2>1, <3>2 DEF S!kcallback
      <4> QED BY <4>1, EnterWhole
    <3>3. CASE x # S!LF
      <4>1. sh' = S!edit(sh, x, st, e)
        BY <2>1, <3>3 DEF S!kcallback, S!Echo
      <4>2. Whole(sh)
        BY <3>1, <3>3 DEF SInv, Fine
      <4> QED BY <3>1, <3>3, <4>1, <4>2, EditWhole
    <3> QED BY <3>2, <3>3
  <2> QED BY <1>0, <2>2, <2>3, <2>4 DEF SInv
<1> QED BY <1>1, <1>2

\* An access of kmain.
LEMMA MainSInv ==
  ASSUME SInv, DOMAIN main = Fields, Main
  PROVE  SInv'
<1>1. CASE Memset
  <2>1. /\ sh' = [sh EXCEPT !.buf[main.i] = V!NUL]
        /\ UNCHANGED <<early, overrun, arrows>> /\ main.phase = "memset"
        /\ DOMAIN main' = Fields
    BY <1>1 DEF Memset, Fields
  <2>2. ASSUME Fine PROVE Whole(sh')
    <3> DEFINE b == [sh.buf EXCEPT ![main.i] = V!NUL]
    <3>1. Whole(sh) /\ sh.ptr = 0
      BY <2>1, <2>2 DEF SInv, Fine
    <3>2. DOMAIN sh' = {"buf", "ptr", "hist", "hptr", "h"} /\ sh'.buf = b /\ sh'.ptr = 0
      BY <2>1, <3>1 DEF Whole
    <3>3. DOMAIN b = 0 .. N - 1 /\ \A j \in 0 .. N - 1 : b[j] = S!NUL <=> j >= 0
      BY <3>1 DEF Whole, V!NUL, S!NUL
    <3> HIDE DEF b
    <3> QED BY <3>1, <3>2, <3>3 DEF Whole
  <2>3. ASSUME ~early PROVE sh'.ptr = 0
    <3>1. sh.ptr = 0
      BY <2>1, <2>3 DEF SInv
    <3> QED BY <2>1, <3>1
  <2> QED BY <2>1, <2>2, <2>3 DEF SInv, Fine
<1>2. CASE ~Memset
  <2>1. UNCHANGED <<sh, early, overrun, arrows>> /\ DOMAIN main' = Fields
        /\ (main.phase = "idle" => main'.phase = "idle")
    BY <1>2 DEF Main, PutcTest, PutcLoad, PutcHome, PutcDown, ScrollTest, ScrollLoad,
      ScrollStore, ScrollBottom, PutcCursor, PutcColumn, PutcRow, PutcStore, PutcStep,
      HelloDone, PromptDone, OnlyMain, Goto, Kind, Scrolled, At, Fields
  <2> QED BY <2>1 DEF SInv, Fine, Whole
<1> QED BY <1>1, <1>2

\* Any step.
LEMMA NextSInv == BInv /\ SInv /\ [Next]_vars => SInv'
<1> SUFFICES ASSUME BInv, SInv, [Next]_vars PROVE SInv'
  OBVIOUS
<1>1. DOMAIN main = Fields
  BY DEF BInv, Bounded
<1>2. CASE UNCHANGED vars
  BY <1>2 DEF vars, SInv, Fine, Whole
<1> QED BY <1>1, <1>2, MainSInv, IrqSInv DEF Next

(* However early the keys come, from the first Enter at the prompt on the  *)
(* text in shellbuf and its length agree (shell.c:17-20, 65-71, 89-98),    *)
(* for every buffer size and any number of interrupts.                     *)
THEOREM LineStaysIntact == Spec => []LineIntact
<1>1. SInv => LineIntact
  <2> SUFFICES ASSUME SInv, Fine PROVE sh.ptr = Len(Text)
    BY DEF LineIntact, Fine
  <2>1. Whole(sh)
    BY DEF SInv
  <2>2. Len(<<>>) \in Nat
    OBVIOUS
  <2> QED BY <2>1, <2>2, WholeText DEF Text
<1>2. Init => BInv /\ SInv
  BY InitBInv, InitSInv
<1>3. BInv /\ SInv /\ [Next]_vars => (BInv /\ SInv)'
  BY NextBInv, NextSInv
<1> QED BY <1>1, <1>2, <1>3, PTL DEF Spec

-----------------------------------------------------------------------------
(* The screen: what the person has typed is in the cursor's row.           *)

\* The cursor's row has the prompt and the line of s, and the cursor after it.
Shows(k, s) ==
  /\ k.tx = 1 + s.ptr /\ k.mem[k.ty * WIDTH] = S!PROMPT[1]
  /\ \A j \in 1 .. s.ptr : k.mem[k.ty * WIDTH + j] = s.buf[j - 1]

\* The page is blank after n more cells.
BlankFrom(k, n) ==
  \A i \in V!Cells : i < V!Page /\ i > k.ty * WIDTH + n => k.mem[i] = V!NUL

\* Where kmain is, whatever the handler did.
Behind ==
  /\ back \in BOOLEAN
  /\ ~back => Clean(con)
  /\ main.at = "store" => main.off <= con.ty * WIDTH + WIDTH
  /\ main.at \in {"move", "put", "bottom"} => con.ty >= HEIGHT - 1

Printing == {"col", "off", "store", "step"}

(* As long as no key has called back, kmain's putc is that of Vga, cut in  *)
(* pieces.                                                                 *)
Pieces ==
  /\ ~back
  /\ main.at \in {"home", "down"} => main.row = con.ty
  /\ main.at = "down" => con.tx = 0
  /\ main.at = "over" => Fresh(con)
  /\ main.at \in {"move", "put", "bottom"} => con.tx = 0
  /\ main.at \in {"move", "put"} =>
       \A i \in V!Cells : V!Page - WIDTH <= i /\ i < main.i => con.mem[i] = V!NUL
  /\ main.at = "put" /\ main.i >= V!Page - WIDTH => main.cell = V!NUL
  /\ main.at = "bottom" =>
       \A i \in V!Cells : V!Page - WIDTH <= i /\ i < V!Page => con.mem[i] = V!NUL
  /\ main.at = "curs" /\ main.nl => Fresh(con)
  /\ main.at \in Printing \cup {"test"} => ~main.nl
  /\ main.at \in Printing \/ (main.at = "curs" /\ ~main.nl) => c \notin {V!LF, V!CR}

\* What it prints before shell_init ends its last line.
Greets ==
  /\ main.todo \in Seq(Nat)
  /\ main.todo = <<>> => Fresh(con)
  /\ main.todo # <<>> => main.todo[Len(main.todo)] = V!LF

\* The prompt goes to the first cell of a blank row.
Prompts ==
  /\ main.todo \in {<<>>, S!PROMPT}
  /\ main.todo = <<>> => con.tx = 1 /\ con.mem[con.ty * WIDTH] = S!PROMPT[1] /\ BlankFrom(con, 0)
  /\ main.todo # <<>> =>
       /\ main.at \in Printing \cup {"test", "curs"} /\ ~main.nl
       /\ con.tx = 0 /\ BlankFrom(con, 0)
       /\ main.at \in {"off", "store", "step"} => main.col = 0
       /\ main.at = "store" => main.off = con.ty * WIDTH
       /\ main.at = "step" => con.mem[con.ty * WIDTH] = S!PROMPT[1]

Quiet ==
  ~early /\ main.phase # "idle" =>
    /\ Pieces
    /\ main.phase = "hello" => Greets
    /\ main.phase = "memset" => Fresh(con)
    /\ main.phase = "prompt" => Prompts

\* No character of the line ends a row.
Plain(s) == \A j \in 0 .. N - 1 : s.buf[j] \notin {V!LF, V!CR}

Echoes ==
  Fine /\ ~wide =>
    /\ Plain(sh) /\ sh.ptr < WIDTH
    /\ main.phase = "idle" => Shows(con, sh) /\ (~back => BlankFrom(con, sh.ptr))

EInv == wide \in BOOLEAN /\ Behind /\ Quiet /\ Echoes

-----------------------------------------------------------------------------
(* What the handler shows.                                                 *)

\* The calls of the shell as functions of the console.
LEMMA ShowPuts ==
  ASSUME NEW k, NEW s
  PROVE  Show(k, S!Puts(s)) = V!puts(k, s)
BY DEF Show, S!Puts

\* puts of a string of one character is putc.
LEMMA ShowOne ==
  ASSUME NEW k, Loose(k), NEW x
  PROVE  Show(k, S!Puts(<<x>>)) = V!putc(k, x)
BY ShowPuts, PutsOne

\* setpos_x.
LEMMA ShowSetpos ==
  ASSUME NEW k, NEW x
  PROVE  Show(k, S!SetposX(x)) = V!setpos_x(k, x)
BY DEF Show, S!SetposX

\* clrline.
LEMMA ShowClrline ==
  ASSUME NEW k
  PROVE  Show(k, S!Clrline) = V!clrline(k)
BY DEF Show, S!Clrline

\* The prompt, printed at the start of a row.
LEMMA ShowPrompt ==
  ASSUME NEW u, Loose(u), u.tx = 0, NEW z, z = Show(u, S!Puts(S!PROMPT))
  PROVE  /\ Kept(u, z) /\ z.tx = 1 /\ z.ty = u.ty
         /\ \A i \in V!Cells :
              z.mem[i] = IF i = u.ty * WIDTH THEN S!PROMPT[1] ELSE u.mem[i]
<1> DEFINE p == S!PROMPT[1]
<1>0. S!PROMPT = <<p>>
  BY DEF S!PROMPT
<1>1. p \notin {V!NUL, V!LF, V!CR}
  BY DEF S!PROMPT, V!NUL, V!LF, V!CR
<1> HIDE DEF p
<1>2. z = V!putc(u, p)
  BY <1>0, ShowOne
<1>3. u.tx < WIDTH
  BY Sizes
<1>4. /\ Kept(u, z) /\ z.tx = u.tx + 1 /\ z.ty = u.ty
      /\ \A i \in V!Cells : z.mem[i] = IF i = u.ty * WIDTH + u.tx THEN p ELSE u.mem[i]
  BY <1>1, <1>2, <1>3, PutcStored
<1>5. u.ty * WIDTH + u.tx = u.ty * WIDTH
  <2>1. u.ty * WIDTH \in Nat
    <3>1. u.ty \in 0 .. HEIGHT
      BY DEF Loose
    <3> QED BY <3>1, RowCells
  <2> DEFINE r == u.ty * WIDTH
  <2> HIDE DEF r
  <2>2. r + u.tx = r
    BY <2>1 DEF r
  <2> QED BY <2>2 DEF r
<1>6. z.tx = 1
  BY <1>4
<1> QED BY <1>4, <1>5, <1>6 DEF p

\* The consoles between the calls of a callback.
LEMMA BetweenCalls ==
  ASSUME NEW k, Loose(k), NEW s, NEW r, NEW x, NEW st, NEW e \in Env,
         NEW o, o = S!kcallback(s, r, x, st, e).out
  PROVE  \E g : /\ g[0] = k /\ g[Len(o)] = Shown(k, o)
                /\ \A j \in 1 .. Len(o) : g[j] = Show(g[j - 1], o[j])
                /\ \A j \in 0 .. Len(o) : Kept(k, g[j])
<1>1. Len(o) \in Nat /\ \A j \in 1 .. Len(o) : CallOK(o[j])
  BY CallbackCalls
<1> QED BY <1>1, ShownKept

\* Enter ends in a row of its own with the prompt.
LEMMA EnterShows ==
  ASSUME NEW k, Loose(k), NEW s, NEW r, NEW x, x = S!LF, NEW st, NEW e \in Env,
         NEW z, z = Shown(k, S!kcallback(s, r, x, st, e).out),
         NEW t, t.ptr = 0
  PROVE  Shows(z, t) /\ (Clean(k) => BlankFrom(z, 0))
<1> DEFINE o == S!kcallback(s, r, x, st, e).out
<1>1. o = S!enter(s, r, e).out
  BY DEF S!kcallback
<1>2. PICK g : /\ g[0] = k /\ g[Len(o)] = Shown(k, o)
               /\ \A j \in 1 .. Len(o) : g[j] = Show(g[j - 1], o[j])
               /\ \A j \in 0 .. Len(o) : Kept(k, g[j])
  BY BetweenCalls
<1> HIDE DEF o
<1>3. Len(o) = 5 /\ o[4] = S!Puts(<<S!LF>>) /\ o[5] = S!Puts(S!PROMPT)
  BY <1>1, EnterCalls
<1>4. /\ Kept(k, g[3]) /\ g[5] = Shown(k, o)
      /\ g[4] = Show(g[3], S!Puts(<<S!LF>>)) /\ g[5] = Show(g[4], S!Puts(S!PROMPT))
  <2>1. 3 \in 0 .. Len(o) /\ 4 \in 1 .. Len(o) /\ 5 \in 1 .. Len(o) /\ 4 - 1 = 3 /\ 5 - 1 = 4
    BY <1>3
  <2> QED BY <1>2, <1>3, <2>1
<1> DEFINE a == g[3]
           u == g[4]
<1>5. z = g[5]
  BY <1>4 DEF o
<1>6. Kept(k, a) /\ u = Show(a, S!Puts(<<S!LF>>)) /\ z = Show(u, S!Puts(S!PROMPT))
  BY <1>4, <1>5
<1> HIDE DEF a, u
<1>7. Loose(a) /\ u = V!putc(a, V!LF)
  <2>1. Loose(a) /\ S!LF = V!LF
    BY <1>6 DEF Kept, S!LF, V!LF
  <2> QED BY <1>6, <2>1, ShowOne
<1>8. Loose(u) /\ u.tx = 0 /\ (Clean(a) => Fresh(u))
  <2>1. V!LF \in {V!LF, V!CR}
    OBVIOUS
  <2> QED BY <1>7, <2>1, PutcEnd DEF Kept
<1>9. /\ z.tx = 1 /\ z.ty = u.ty
      /\ \A i \in V!Cells : z.mem[i] = IF i = u.ty * WIDTH THEN S!PROMPT[1] ELSE u.mem[i]
  BY <1>6, <1>8, ShowPrompt
<1>10. u.ty * WIDTH \in V!Cells /\ u.ty * WIDTH \in Nat
  <2>1. u.ty \in 0 .. HEIGHT
    BY <1>8 DEF Loose
  <2> DEFINE q == u.ty * WIDTH
  <2>2. q \in Nat /\ q + WIDTH <= Bottom
    BY <2>1, RowCells
  <2> HIDE DEF q
  <2>3. q \in V!Cells
    BY <2>2, Sizes DEF V!Cells
  <2> QED BY <2>2, <2>3 DEF q
<1>11. Shows(z, t)
  BY <1>9, <1>10 DEF Shows
<1>12. ASSUME Clean(k) PROVE BlankFrom(z, 0)
  <2>1. Fresh(u)
    BY <1>6, <1>8, <1>12 DEF Kept
  <2> DEFINE q == u.ty * WIDTH
  <2> HIDE DEF q
  <2>2. q \in Nat /\ q + 0 = q /\ \A i \in V!Cells : i > q => i # q
    BY <1>10 DEF q, V!Cells
  <2>3. \A i \in V!Cells : i < V!Page /\ i > q => u.mem[i] = V!NUL
    BY <2>1 DEF Fresh, q
  <2>4. \A i \in V!Cells : i < V!Page /\ i > q => z.mem[i] = V!NUL
    BY <1>9, <2>2, <2>3 DEF q
  <2>5. z.ty * WIDTH + 0 = q
    BY <1>9, <2>2 DEF q
  <2> QED BY <2>4, <2>5 DEF BlankFrom
<1> QED BY <1>11, <1>12

\* The line is printed after the prompt.
LEMMA LineShows ==
  ASSUME NEW a, Loose(a), a.tx = 1, a.mem[a.ty * WIDTH] = S!PROMPT[1],
         NEW t, Whole(t), Plain(t), t.ptr < WIDTH, NEW e \in Env,
         NEW z, z = Show(a, S!Puts(S!Text(t.buf, e.past)))
  PROVE  Shows(z, t) /\ (BlankFrom(a, t.ptr) => BlankFrom(z, t.ptr))
<1> DEFINE text == S!Text(t.buf, e.past)
           n == t.ptr
           b == a.ty * WIDTH
<1>1. N \in Nat /\ n \in 0 .. N - 1 /\ n < WIDTH /\ WIDTH \in Nat
  BY KernelAssumption DEF Whole
<1>2. Len(text) = n /\ \A j \in 1 .. n : text[j] = t.buf[j - 1]
  <2>1. e.past \in Seq(Nat \ {V!NUL})
    BY KernelAssumption
  <2>2. Len(e.past) \in Nat
    BY <2>1
  <2> QED BY <2>2, WholeText
<1>3. \A j \in 1 .. n : text[j] \notin {V!NUL, V!LF, V!CR}
  <2> SUFFICES ASSUME NEW j \in 1 .. n PROVE text[j] \notin {V!NUL, V!LF, V!CR}
    OBVIOUS
  <2>1. j - 1 \in 0 .. N - 1 /\ ~(j - 1 >= n)
    BY <1>1
  <2>2. t.buf[j - 1] # V!NUL
    BY <2>1 DEF Whole, V!NUL, S!NUL
  <2> QED BY <1>2, <2>1, <2>2 DEF Plain
<1>4. z = V!puts(a, text)
  BY ShowPuts
<1> HIDE DEF text
<1>5. InRow(a, text, n, z)
  <2>1. Len(text) \in Nat /\ a.tx + Len(text) <= WIDTH
    BY <1>1, <1>2
  <2> HIDE DEF n
  <2> QED BY <1>2, <1>3, <1>4, <2>1, PutsInRow
<1>6. b \in Nat /\ b + WIDTH <= Bottom
  <2>1. a.ty \in 0 .. HEIGHT
    BY DEF Loose
  <2> QED BY <2>1, RowCells
<1>7. a.ty * WIDTH + a.tx = b + 1
  <2>1. b + a.tx = b + 1
    OBVIOUS
  <2> QED BY <2>1
<1>8. /\ z.tx = 1 + n /\ z.ty = a.ty
      /\ \A i \in V!Cells :
           z.mem[i] = IF b + 1 <= i /\ i < b + 1 + n THEN text[i - (b + 1) + 1] ELSE a.mem[i]
  BY <1>5, <1>7 DEF InRow
<1>9. a.mem[b] = S!PROMPT[1] /\ z.ty * WIDTH = b
  BY <1>8
<1> HIDE DEF b, n
<1>10. \A j \in 0 .. n : b + j \in V!Cells
  BY <1>1, <1>6, Sizes DEF V!Cells
<1>11. z.mem[b] = S!PROMPT[1]
  <2>1. b \in V!Cells /\ ~(b + 1 <= b)
    BY <1>6, Sizes DEF V!Cells
  <2> QED BY <1>8, <1>9, <2>1
<1>12. ASSUME NEW j \in 1 .. n PROVE z.mem[b + j] = t.buf[j - 1]
  <2>1. b + 1 <= b + j /\ b + j < b + 1 + n /\ (b + j) - (b + 1) + 1 = j /\ j \in 0 .. n
    BY <1>1, <1>6
  <2>2. z.mem[b + j] = text[j]
    BY <1>8, <1>10, <2>1
  <2> QED BY <1>2, <2>2
<1>13. Shows(z, t)
  BY <1>8, <1>9, <1>11, <1>12 DEF Shows, n
<1>14. ASSUME BlankFrom(a, n) PROVE BlankFrom(z, n)
  <2>1. \A i \in V!Cells : i > b + n => ~(i < b + 1 + n)
    BY <1>1, <1>6 DEF V!Cells
  <2>2. \A i \in V!Cells : i < V!Page /\ i > b + n => a.mem[i] = V!NUL
    BY <1>14 DEF BlankFrom, b
  <2>3. \A i \in V!Cells : i < V!Page /\ i > b + n => z.mem[i] = V!NUL
    BY <1>8, <2>1, <2>2
  <2> QED BY <1>9, <2>3 DEF BlankFrom
<1> QED BY <1>13, <1>14 DEF n

\* A typed character is echoed with the line it belongs to.
LEMMA TypeShows ==
  ASSUME NEW k, Loose(k), NEW s, Whole(s), Shows(k, s), NEW r, NEW x, x # S!LF,
         NEW st, "BCKSP" \notin st, NEW e \in Env,
         NEW z, z = Shown(k, S!kcallback(s, r, x, st, e).out),
         NEW t, t = S!edit(s, x, st, e), Whole(t), Plain(t), t.ptr < WIDTH, t.ptr >= s.ptr
  PROVE  Shows(z, t) /\ (BlankFrom(k, s.ptr) => BlankFrom(z, t.ptr))
<1> DEFINE o == S!kcallback(s, r, x, st, e).out
<1>1. o = S!Echo(t, r, st, e).out
  BY DEF S!kcallback
<1>2. PICK g : /\ g[0] = k /\ g[Len(o)] = Shown(k, o)
               /\ \A j \in 1 .. Len(o) : g[j] = Show(g[j - 1], o[j])
               /\ \A j \in 0 .. Len(o) : Kept(k, g[j])
  BY BetweenCalls
<1> HIDE DEF o
<1>3. Len(o) = 2 /\ o[1] = S!SetposX(1) /\ o[2] = S!Puts(S!Text(t.buf, e.past))
  BY <1>1, TypeCalls
<1>4. g[2] = Shown(k, o) /\ g[1] = Show(k, S!SetposX(1))
      /\ g[2] = Show(g[1], S!Puts(S!Text(t.buf, e.past)))
  <2>1. 1 \in 1 .. Len(o) /\ 2 \in 1 .. Len(o) /\ 1 - 1 = 0 /\ 2 - 1 = 1
    BY <1>3
  <2> QED BY <1>2, <1>3, <2>1
<1> DEFINE a == g[1]
<1>5. z = g[2]
  BY <1>4 DEF o
<1>6. a = V!setpos_x(k, 1) /\ z = Show(a, S!Puts(S!Text(t.buf, e.past)))
  BY <1>4, <1>5, ShowSetpos
<1> HIDE DEF a
<1>7. Loose(a) /\ a.tx = 1 /\ a.ty = k.ty /\ a.mem = k.mem
  <2>1. 1 \in 0 .. 1
    OBVIOUS
  <2> QED BY <1>6, <2>1, SetposKept DEF Kept
<1>8. a.mem[a.ty * WIDTH] = S!PROMPT[1]
  BY <1>7 DEF Shows
<1>9. Shows(z, t) /\ (BlankFrom(a, t.ptr) => BlankFrom(z, t.ptr))
  BY <1>6, <1>7, <1>8, LineShows
<1>10. ASSUME BlankFrom(k, s.ptr) PROVE BlankFrom(a, t.ptr)
  <2>1. s.ptr \in Nat /\ t.ptr \in Nat /\ s.ptr <= t.ptr
    BY KernelAssumption DEF Whole
  <2>2. k.ty \in 0 .. HEIGHT
    BY DEF Loose
  <2> DEFINE b == k.ty * WIDTH
  <2>3. b \in Nat
    BY <2>2, RowCells
  <2>4. \A i \in V!Cells : i < V!Page /\ i > b + s.ptr => k.mem[i] = V!NUL
    BY <1>10 DEF BlankFrom
  <2> HIDE DEF b
  <2>5. \A i \in V!Cells : i > b + t.ptr => i > b + s.ptr
    BY <2>1, <2>3 DEF V!Cells
  <2>6. \A i \in V!Cells : i < V!Page /\ i > b + t.ptr => k.mem[i] = V!NUL
    BY <2>4, <2>5
  <2> QED BY <1>7, <2>6 DEF BlankFrom, b
<1> QED BY <1>9, <1>10

\* Backspace prints prompt and line again on the half row it has cleared.
LEMMA EraseShows ==
  ASSUME NEW k, Loose(k), NEW s, Whole(s), s.ptr < WIDTH \div 2, NEW r, NEW x, x # S!LF,
         NEW st, "BCKSP" \in st, NEW e \in Env,
         NEW z, z = Shown(k, S!kcallback(s, r, x, st, e).out),
         NEW t, t = S!edit(s, x, st, e), Whole(t), Plain(t), t.ptr < WIDTH
  PROVE  Shows(z, t) /\ (BlankFrom(k, s.ptr) => BlankFrom(z, t.ptr))
<1> DEFINE o == S!kcallback(s, r, x, st, e).out
<1>1. o = S!Echo(t, r, st, e).out
  BY DEF S!kcallback
<1>2. PICK g : /\ g[0] = k /\ g[Len(o)] = Shown(k, o)
               /\ \A j \in 1 .. Len(o) : g[j] = Show(g[j - 1], o[j])
               /\ \A j \in 0 .. Len(o) : Kept(k, g[j])
  BY BetweenCalls
<1> HIDE DEF o
<1>3. /\ Len(o) = 4 /\ o[1] = S!Clrline /\ o[2] = S!SetposX(0)
      /\ o[3] = S!Puts(S!PROMPT) /\ o[4] = S!Puts(S!Text(t.buf, e.past))
  BY <1>1, EraseCalls
<1>4. /\ g[4] = Shown(k, o) /\ g[1] = Show(k, S!Clrline) /\ g[2] = Show(g[1], S!SetposX(0))
      /\ g[3] = Show(g[2], S!Puts(S!PROMPT))
      /\ g[4] = Show(g[3], S!Puts(S!Text(t.buf, e.past)))
  <2>1. /\ 1 \in 1 .. Len(o) /\ 2 \in 1 .. Len(o) /\ 3 \in 1 .. Len(o) /\ 4 \in 1 .. Len(o)
        /\ 1 - 1 = 0 /\ 2 - 1 = 1 /\ 3 - 1 = 2 /\ 4 - 1 = 3
    BY <1>3
  <2> QED BY <1>2, <1>3, <2>1
<1> DEFINE d == g[1]
           u == g[2]
           a == g[3]
           b == k.ty * WIDTH
<1>5. z = g[4]
  BY <1>4 DEF o
<1>6. /\ d = V!clrline(k) /\ u = V!setpos_x(d, 0) /\ a = Show(u, S!Puts(S!PROMPT))
      /\ z = Show(a, S!Puts(S!Text(t.buf, e.past)))
  BY <1>4, <1>5, ShowSetpos, ShowClrline
<1> HIDE DEF a, d, u
<1>7. /\ Loose(d) /\ d.ty = k.ty
      /\ d.mem = [i \in V!Cells |->
           IF b <= i /\ i < b + (WIDTH \div 2) THEN V!NUL ELSE k.mem[i]]
  BY <1>6, ClrlineKept DEF Kept
<1>8. Loose(u) /\ u.tx = 0 /\ u.ty = k.ty /\ u.mem = d.mem
  <2>1. 0 \in 0 .. 1
    OBVIOUS
  <2> QED BY <1>6, <1>7, <2>1, SetposKept DEF Kept
<1>9. /\ Loose(a) /\ a.tx = 1 /\ a.ty = k.ty
      /\ \A i \in V!Cells : a.mem[i] = IF i = b THEN S!PROMPT[1] ELSE d.mem[i]
  BY <1>6, <1>8, ShowPrompt DEF Kept
<1>10. b \in Nat /\ b \in V!Cells
  <2>1. k.ty \in 0 .. HEIGHT
    BY DEF Loose
  <2>2. b \in Nat /\ b + WIDTH <= Bottom
    BY <2>1, RowCells
  <2> HIDE DEF b
  <2> QED BY <2>2, Sizes DEF V!Cells
<1>11. a.mem[a.ty * WIDTH] = S!PROMPT[1]
  BY <1>9, <1>10
<1>12. Shows(z, t) /\ (BlankFrom(a, t.ptr) => BlankFrom(z, t.ptr))
  BY <1>6, <1>9, <1>11, LineShows
<1>13. ASSUME BlankFrom(k, s.ptr) PROVE BlankFrom(a, t.ptr)
  <2>1. s.ptr \in Nat /\ t.ptr \in Nat
    BY KernelAssumption DEF Whole
  <2>2. \A i \in V!Cells : i < V!Page /\ i > b + s.ptr => k.mem[i] = V!NUL
    BY <1>13 DEF BlankFrom
  <2> HIDE DEF b
  <2> DEFINE w == WIDTH \div 2
  <2>3. w \in Nat /\ s.ptr < w
    BY <2>1, Sizes
  <2> HIDE DEF w
  <2>4. \A i \in V!Cells : i > b + t.ptr => i # b /\ b <= i /\ (~(i < b + w) => i > b + s.ptr)
    BY <1>10, <2>1, <2>3 DEF V!Cells
  <2>5. \A i \in V!Cells : d.mem[i] = IF b <= i /\ i < b + w THEN V!NUL ELSE k.mem[i]
    BY <1>7 DEF w
  <2>6. \A i \in V!Cells : i < V!Page /\ i > b + t.ptr => d.mem[i] = V!NUL
    BY <2>2, <2>4, <2>5
  <2>7. \A i \in V!Cells : i < V!Page /\ i > b + t.ptr => a.mem[i] = V!NUL
    BY <1>9, <2>4, <2>6
  <2> QED BY <1>9, <2>7 DEF BlankFrom, b
<1> QED BY <1>12, <1>13

-----------------------------------------------------------------------------
(* The rows below the position.                                            *)

\* Lower rows have higher cells.
LEMMA RowsUp ==
  ASSUME NEW y \in 0 .. HEIGHT, NEW z \in 0 .. HEIGHT, y <= z
  PROVE  y * WIDTH <= z * WIDTH
<1>1. PICK d \in Nat : z = y + d
  <2>1. z - y \in Nat /\ z = y + (z - y)
    OBVIOUS
  <2> QED BY <2>1
<1>2. z * WIDTH = y * WIDTH + d * WIDTH /\ y * WIDTH \in Nat /\ d * WIDTH \in Nat
  BY <1>1, Sizes
<1> DEFINE p == z * WIDTH
           q == y * WIDTH
           r == d * WIDTH
<1> HIDE DEF p, q, r
<1>3. p = q + r /\ q \in Nat /\ r \in Nat
  BY <1>2 DEF p, q, r
<1>4. q <= p
  BY <1>3
<1> QED BY <1>4 DEF p, q

\* The row after row y.
LEMMA NextRow ==
  ASSUME NEW y \in Nat
  PROVE  (y + 1) * WIDTH = y * WIDTH + WIDTH
BY Sizes

\* The last row of the page.
LEMMA LastRow ==
  /\ HEIGHT - 1 \in 0 .. HEIGHT
  /\ (HEIGHT - 1) * WIDTH + WIDTH = V!Page /\ (HEIGHT - 1) * WIDTH = V!Page - WIDTH
  /\ HEIGHT * WIDTH = V!Page /\ WIDTH * (HEIGHT - 1) = V!Page - WIDTH
<1>1. HEIGHT - 1 \in Nat /\ HEIGHT - 1 \in 0 .. HEIGHT /\ (HEIGHT - 1) + 1 = HEIGHT
  BY Sizes
<1> DEFINE h == HEIGHT - 1
           p == h * WIDTH
<1>2. (h + 1) * WIDTH = p + WIDTH
  BY <1>1, NextRow
<1>3. p \in Nat
  BY <1>1, RowCells
<1>4. HEIGHT * WIDTH = V!Page /\ V!Page \in Nat /\ WIDTH \in Nat
  BY Sizes
<1>5. WIDTH * h = p
  BY <1>1, Sizes
<1>6. p + WIDTH = V!Page
  BY <1>1, <1>2, <1>4
<1> HIDE DEF p
<1>7. p = V!Page - WIDTH
  BY <1>3, <1>4, <1>6
<1> QED BY <1>1, <1>4, <1>5, <1>6, <1>7 DEF p

\* From the last row on nothing of the page is below.
LEMMA CleanLow ==
  ASSUME NEW k, Loose(k), k.ty >= HEIGHT - 1
  PROVE  Clean(k)
<1>1. k.ty \in 0 .. HEIGHT /\ (HEIGHT - 1) * WIDTH <= k.ty * WIDTH /\ k.ty * WIDTH \in Nat
  <2>1. k.ty \in 0 .. HEIGHT
    BY DEF Loose
  <2> QED BY <2>1, LastRow, RowsUp, RowCells
<1> DEFINE p == (HEIGHT - 1) * WIDTH
           q == k.ty * WIDTH
<1>2. p + WIDTH = V!Page /\ p <= q /\ q \in Nat /\ p = V!Page - WIDTH
  BY <1>1, LastRow
<1> HIDE DEF p, q
<1>3. \A i \in V!Cells : ~(i < V!Page /\ i > q + WIDTH)
  BY <1>2, Sizes DEF V!Cells
<1> QED BY <1>3 DEF Clean, q

\* Only the row and the cells matter.
LEMMA SameRows ==
  ASSUME NEW k, NEW z, z.ty = k.ty, z.mem = k.mem
  PROVE  /\ Clean(z) <=> Clean(k)
         /\ z.tx = k.tx => (Fresh(z) <=> Fresh(k))
         /\ \A n \in 0 .. 0 : BlankFrom(z, n) <=> BlankFrom(k, n)
BY DEF Clean, Fresh, BlankFrom

\* What the handler makes of the console, as one fact.
LEMMA IrqKept ==
  ASSUME Loose(con), NEW sc, Irq(sc)
  PROVE  Kept(con, con')
<1> DEFINE r == K!keyboard(kb, sc)
           x == r.call[1].c
           st == r.call[1].st
<1>1. \/ con' = con
      \/ \E e \in Env : con' = Shown(con, S!kcallback(sh, ram, x, st, e).out)
  BY DEF Irq
<1> HIDE DEF x, st
<1>2. CASE con' = con
  BY <1>2, KeptSame
<1>3. CASE \E e \in Env : con' = Shown(con, S!kcallback(sh, ram, x, st, e).out)
  BY <1>3, HandlerKept
<1> QED BY <1>1, <1>2, <1>3

\* The handler leaves what is below the position clean.
LEMMA IrqBehind ==
  ASSUME BInv, Behind, NEW sc, Irq(sc)
  PROVE  Behind'
<1>1. Loose(con) /\ main' = main /\ back' = back
  BY DEF BInv, Irq
<1>2. Kept(con, con')
  BY <1>1, IrqKept
<1>3. con.ty \in 0 .. HEIGHT /\ con'.ty \in 0 .. HEIGHT /\ (con'.ty >= con.ty \/ con'.ty = HEIGHT - 1)
  BY <1>1, <1>2 DEF Kept, Loose
<1>4. ASSUME main.at = "store" PROVE main.off <= con'.ty * WIDTH + WIDTH
  <2>1. main.off \in 0 .. V!Page /\ main.off <= con.ty * WIDTH + WIDTH
    BY <1>4 DEF BInv, Bounded, Behind
  <2> DEFINE p == con.ty * WIDTH
             q == con'.ty * WIDTH
  <2>2. CASE con'.ty >= con.ty
    <3>1. p <= q /\ p \in Nat /\ q \in Nat
      BY <1>3, <2>2, RowsUp, RowCells
    <3>2. main.off <= p + WIDTH
      BY <2>1
    <3> HIDE DEF p, q
    <3>3. main.off <= q + WIDTH
      BY <2>1, <3>1, <3>2, Sizes
    <3> QED BY <3>3 DEF q
  <2>3. CASE con'.ty = HEIGHT - 1
    <3>1. q + WIDTH = V!Page
      BY <2>3, LastRow
    <3> HIDE DEF q
    <3>2. main.off <= q + WIDTH
      BY <2>1, <3>1
    <3> QED BY <3>2 DEF q
  <2> QED BY <1>3, <2>2, <2>3
<1>5. ASSUME con.ty >= HEIGHT - 1 PROVE con'.ty >= HEIGHT - 1
  BY <1>3, <1>5, Sizes
<1> QED BY <1>1, <1>2, <1>4, <1>5 DEF Behind, Kept

\* So does every access of kmain, except the ty += 1 that goes back.
LEMMA MainBehind ==
  ASSUME BInv, Behind, Main
  PROVE  Behind'
<1> USE DEF At, Goto, Fields
<1>0. Loose(con) /\ DOMAIN main = Fields /\ con.ty \in 0 .. HEIGHT
      /\ DOMAIN con = {"tx", "ty", "mem", "crtc"} /\ DOMAIN con.mem = V!Cells
  BY DEF BInv, Bounded, Loose
<1>00. back \in BOOLEAN
  BY DEF Behind
<1>01. HEIGHT \in Nat /\ WIDTH \in Nat
  BY Sizes
<1>1. ASSUME PutcTest \/ PutcLoad \/ ScrollLoad \/ PutcColumn PROVE Behind'
  <2>1. con' = con /\ back' = back /\ main'.at \in {"load", "home", "put", "curs", "off"}
        /\ (main'.at = "put" => main.at = "move")
    BY <1>0, <1>1 DEF PutcTest, PutcLoad, ScrollLoad, PutcColumn, OnlyMain, Kind
  <2> QED BY <2>1 DEF Behind
<1>2. ASSUME PutcHome PROVE Behind'
  <2>1. con'.ty = con.ty /\ con'.mem = con.mem /\ back' = back /\ main'.at = "down"
    BY <1>0, <1>2 DEF PutcHome, OnlyMain
  <2> QED BY <2>1, SameRows DEF Behind
<1>3. ASSUME PutcDown PROVE Behind'
  <2>1. main'.at = "over" /\ con'.mem = con.mem
    BY <1>0, <1>3 DEF PutcDown
  <2>2. PICK y \in {main.row, con.ty} :
          con' = [con EXCEPT !.ty = y + 1] /\ back' = (back \/ y + 1 < con.ty)
    BY <1>3 DEF PutcDown
  <2>3. y \in Nat /\ y + 1 \in 0 .. HEIGHT /\ con'.ty = y + 1
    <3>1. main.row \in 0 .. HEIGHT - 1 \/ con.ty < HEIGHT
      BY <1>3 DEF BInv, Bounded, PutcDown
    <3>2. main.row \in 0 .. HEIGHT - 1 /\ con.ty < HEIGHT
      BY <1>3 DEF BInv, Bounded, PutcDown, Scrolling
    <3> QED BY <1>0, <1>01, <2>2, <3>2
  <2>4. ASSUME ~back' PROVE Clean(con')
    <3>1. ~back /\ ~(y + 1 < con.ty)
      BY <2>2, <2>4
    <3>2. Clean(con) /\ con.ty <= y + 1
      BY <1>0, <2>3, <3>1 DEF Behind
    <3> DEFINE p == con.ty * WIDTH
               q == con'.ty * WIDTH
    <3>3. p \in Nat /\ q \in Nat /\ p <= q
      BY <1>0, <2>3, <3>2, RowsUp, RowCells
    <3>4. \A i \in V!Cells : i < V!Page /\ i > p + WIDTH => con.mem[i] = V!NUL
      BY <3>2 DEF Clean
    <3> HIDE DEF p, q
    <3>5. \A i \in V!Cells : i > q + WIDTH => i > p + WIDTH
      BY <1>01, <3>3 DEF V!Cells
    <3>6. \A i \in V!Cells : i < V!Page /\ i > q + WIDTH => con'.mem[i] = V!NUL
      BY <2>1, <3>4, <3>5
    <3> QED BY <3>6 DEF Clean, q
  <2>5. back' \in BOOLEAN
    BY <2>2
  <2> QED BY <2>1, <2>4, <2>5 DEF Behind
<1>4. ASSUME ScrollTest PROVE Behind'
  <2>1. con' = con /\ back' = back /\ main'.at \notin {"store", "put", "bottom"}
        /\ (main'.at = "move" => con.ty >= HEIGHT)
    BY <1>0, <1>4 DEF ScrollTest, Scrolled, Kind, OnlyMain
  <2>2. con.ty >= HEIGHT => con.ty >= HEIGHT - 1
    BY <1>0, <1>01
  <2> QED BY <2>1, <2>2 DEF Behind
<1>5. ASSUME ScrollStore \/ ScrollBottom PROVE Behind'
  <2>1. back' = back /\ con.ty >= HEIGHT - 1 /\ main'.at # "store" /\ con'.ty \in {con.ty, HEIGHT - 1}
    BY <1>0, <1>5 DEF ScrollStore, ScrollBottom, Scrolled, Kind, OnlyMain, Behind
  <2>2. con'.ty >= HEIGHT - 1
    BY <1>0, <1>01, <2>1
  <2>3. Loose(con')
    BY MainBInv DEF BInv
  <2>4. Clean(con')
    BY <2>2, <2>3, CleanLow
  <2> QED BY <1>00, <2>1, <2>2, <2>4 DEF Behind
<1>6. ASSUME PutcCursor PROVE Behind'
  <2>1. con'.ty = con.ty /\ con'.mem = con.mem
    BY <1>0, <1>6, CursorLoose DEF PutcCursor
  <2>2. back' = back /\ main'.at \in {"test", "col"}
    BY <1>0, <1>6 DEF PutcCursor, OnlyMain
  <2> QED BY <2>1, <2>2, SameRows DEF Behind
<1>7. ASSUME PutcRow PROVE Behind'
  <2>1. con' = con /\ back' = back /\ main'.at = "store" /\ main'.off = con.ty * WIDTH + main.col
    BY <1>0, <1>7 DEF PutcRow, OnlyMain
  <2>2. main.col \in 0 .. WIDTH
    BY <1>7 DEF BInv, Bounded, PutcRow
  <2> DEFINE p == con.ty * WIDTH
  <2>3. p \in Nat
    BY <1>0, RowCells
  <2> HIDE DEF p
  <2>4. p + main.col <= p + WIDTH
    BY <1>01, <2>2, <2>3
  <2> QED BY <2>1, <2>4 DEF Behind, p
<1>8. ASSUME PutcStore PROVE Behind'
  <2>1. /\ con' = [con EXCEPT !.mem[main.off] = c] /\ back' = back /\ main'.at = "step"
        /\ main.off \in 0 .. V!Page /\ main.off <= con.ty * WIDTH + WIDTH
    BY <1>0, <1>8 DEF PutcStore, OnlyMain, Behind, BInv, Bounded
  <2> DEFINE p == con.ty * WIDTH
  <2>2. p \in Nat
    BY <1>0, RowCells
  <2>3. con'.ty = con.ty /\ \A i \in V!Cells : i # main.off => con'.mem[i] = con.mem[i]
    BY <1>0, <2>1
  <2>4. \A i \in V!Cells : i > p + WIDTH => i # main.off
    <3> HIDE DEF p
    <3>1. main.off <= p + WIDTH
      BY <2>1 DEF p
    <3> QED BY <1>01, <2>1, <2>2, <3>1 DEF V!Cells
  <2>5. Clean(con) => Clean(con')
    BY <2>3, <2>4 DEF Clean
  <2> QED BY <2>1, <2>5 DEF Behind
<1>9. ASSUME PutcStep PROVE Behind'
  <2>1. con'.ty = con.ty /\ con'.mem = con.mem /\ back' = back /\ main'.at = "test"
    BY <1>0, <1>9 DEF PutcStep, OnlyMain
  <2> QED BY <2>1, SameRows DEF Behind
<1>10. ASSUME HelloDone \/ Memset \/ PromptDone PROVE Behind'
  <2>1. con' = con /\ back' = back /\ main'.at = main.at /\ main'.off = main.off
    BY <1>0, <1>10 DEF HelloDone, Memset, PromptDone, OnlyMain
  <2> QED BY <2>1 DEF Behind
<1> QED BY <1>1, <1>2, <1>3, <1>4, <1>5, <1>6, <1>7, <1>8, <1>9, <1>10 DEF Main

\* A row below one that is clean is fresh once the column is 0.
LEMMA DownFresh ==
  ASSUME NEW k, NEW z, k.ty \in 0 .. HEIGHT, Clean(k), z.tx = 0, z.ty = k.ty + 1, z.mem = k.mem
  PROVE  Fresh(z)
<1> DEFINE y == k.ty
<1>1. y \in Nat
  BY Sizes
<1> HIDE DEF y
<1>2. (y + 1) * WIDTH = y * WIDTH + WIDTH
  BY <1>1, NextRow
<1>3. z.ty * WIDTH = k.ty * WIDTH + WIDTH
  BY <1>2 DEF y
<1> QED BY <1>3 DEF Clean, Fresh

\* A last row that is blank is fresh once it is the cursor's.
LEMMA BottomFresh ==
  ASSUME NEW z, z.tx = 0, z.ty = HEIGHT - 1,
         \A i \in V!Cells : V!Page - WIDTH <= i /\ i < V!Page => z.mem[i] = V!NUL
  PROVE  Fresh(z)
<1> DEFINE p == V!Page - WIDTH
<1>1. z.ty * WIDTH = p /\ p \in Int
  BY LastRow, Sizes
<1>2. \A i \in V!Cells : p <= i /\ i < V!Page => z.mem[i] = V!NUL
  OBVIOUS
<1> HIDE DEF p
<1>3. \A i \in V!Cells : i > p => p <= i
  BY <1>1 DEF V!Cells
<1>4. \A i \in V!Cells : i < V!Page /\ i > p => z.mem[i] = V!NUL
  BY <1>2, <1>3
<1> QED BY <1>1, <1>4 DEF Fresh

\* One access of kmain, as long as no key has called back.
LEMMA MainPieces ==
  ASSUME BInv, Behind, Pieces, Main
  PROVE  Pieces'
<1> USE DEF At, Goto, Fields, Printing
<1>0. Loose(con) /\ DOMAIN main = Fields /\ con.ty \in 0 .. HEIGHT
      /\ DOMAIN con = {"tx", "ty", "mem", "crtc"} /\ DOMAIN con.mem = V!Cells
  BY DEF BInv, Bounded, Loose
<1>00. HEIGHT \in Nat /\ WIDTH \in Nat /\ V!Page \in Nat
  BY Sizes
<1>1. ASSUME PutcTest PROVE Pieces'
  <2>1. con' = con /\ back' = back /\ main'.todo = main.todo /\ ~main.nl
        /\ \/ main'.at = "load"
           \/ main'.at = "curs" /\ main'.nl = main.nl /\ c \notin {V!LF, V!CR}
    BY <1>0, <1>1 DEF PutcTest, Kind, OnlyMain, Pieces
  <2> QED BY <2>1 DEF Pieces, c
<1>2. ASSUME PutcLoad PROVE Pieces'
  <2>1. con' = con /\ back' = back /\ main'.at = "home" /\ main'.row = con.ty
    BY <1>0, <1>2 DEF PutcLoad, OnlyMain
  <2> QED BY <2>1 DEF Pieces
<1>3. ASSUME PutcHome PROVE Pieces'
  <2>1. con'.tx = 0 /\ con'.ty = con.ty /\ back' = back /\ main'.at = "down" /\ main'.row = con.ty
    BY <1>0, <1>3 DEF PutcHome, OnlyMain, Pieces
  <2> QED BY <2>1 DEF Pieces
<1>4. ASSUME PutcDown PROVE Pieces'
  <2>1. con.tx = 0 /\ main.row = con.ty /\ ~back /\ main'.at = "over"
    BY <1>0, <1>4 DEF PutcDown, Pieces
  <2>2. con' = [con EXCEPT !.ty = con.ty + 1] /\ back' = (back \/ con.ty + 1 < con.ty)
    BY <1>4, <2>1 DEF PutcDown
  <2>3. ~back'
    <3>1. ~(con.ty + 1 < con.ty)
      BY <1>0
    <3> QED BY <2>1, <2>2, <3>1, Zenon
  <2>4. con'.tx = 0 /\ con'.ty = con.ty + 1 /\ con'.mem = con.mem
    BY <1>0, <2>1, <2>2
  <2>5. Fresh(con')
    BY <1>0, <2>1, <2>4, DownFresh DEF Behind
  <2> QED BY <2>1, <2>3, <2>5 DEF Pieces
<1>5. ASSUME ScrollTest PROVE Pieces'
  <2>1. con' = con /\ back' = back /\ main'.todo = main.todo /\ Fresh(con) /\ main'.i = main.i
        /\ \/ main'.at \in {"move", "load"}
           \/ main'.at = "curs" /\ main'.nl
           \/ main'.at = "curs" /\ ~main'.nl /\ c \notin {V!LF, V!CR}
    BY <1>0, <1>5 DEF ScrollTest, Scrolled, Kind, OnlyMain, Pieces
  <2>2. main.i = 0 /\ con.tx = 0 /\ \A i \in V!Cells : ~(i < 0)
    BY <1>0, <1>5, <2>1 DEF ScrollTest, BInv, Bounded, Fresh, V!Cells
  <2> QED BY <2>1, <2>2 DEF Pieces, c
<1>6. ASSUME ScrollLoad PROVE Pieces'
  <2>1. con' = con /\ back' = back /\ main'.at = "put" /\ main'.i = main.i
        /\ (~(main.i < WIDTH * (HEIGHT - 1)) => main'.cell = V!NUL)
    BY <1>0, <1>6 DEF ScrollLoad, OnlyMain
  <2>2. main.i \in 0 .. V!Page - 1
    BY <1>6 DEF ScrollLoad, BInv, Bounded
  <2>3. main.i >= V!Page - WIDTH => ~(main.i < WIDTH * (HEIGHT - 1))
    BY <1>00, <2>2, LastRow
  <2> QED BY <1>6, <2>1, <2>3 DEF Pieces, ScrollLoad
<1>7. ASSUME ScrollStore PROVE Pieces'
  <2>1. /\ con' = [con EXCEPT !.mem[main.i] = main.cell] /\ back' = back
        /\ \/ main.i + 1 < V!Page /\ main'.at = "move" /\ main'.i = main.i + 1
           \/ ~(main.i + 1 < V!Page) /\ main'.at = "bottom"
    BY <1>0, <1>7 DEF ScrollStore, OnlyMain
  <2>2. main.i \in 0 .. V!Page - 1 /\ con.tx = 0
    BY <1>7 DEF ScrollStore, BInv, Bounded, Pieces
  <2>3. con'.tx = 0
    BY <1>0, <2>1, <2>2
  <2>4. ASSUME NEW i \in V!Cells, V!Page - WIDTH <= i, i < main.i + 1 PROVE con'.mem[i] = V!NUL
    <3>1. i = main.i \/ i < main.i
      BY <2>2, <2>4 DEF V!Cells
    <3>2. CASE i = main.i
      <4>1. con'.mem[i] = main.cell
        BY <1>0, <2>1, <3>2
      <4>2. main.i >= V!Page - WIDTH
        BY <1>00, <2>2, <2>4, <3>2
      <4> QED BY <1>7, <4>1, <4>2 DEF ScrollStore, Pieces
    <3>3. CASE i < main.i
      <4>1. con'.mem[i] = con.mem[i]
        BY <1>0, <2>1, <2>2, <3>3 DEF V!Cells
      <4> QED BY <1>7, <2>4, <3>3, <4>1 DEF ScrollStore, Pieces
    <3> QED BY <3>1, <3>2, <3>3
  <2>5. \A i \in V!Cells : ~(main.i + 1 < V!Page) /\ i < V!Page => i < main.i + 1
    BY <1>00, <2>2 DEF V!Cells
  <2>6. CASE main.i + 1 < V!Page /\ main'.at = "move" /\ main'.i = main.i + 1
    BY <2>1, <2>3, <2>4, <2>6 DEF Pieces
  <2>7. CASE ~(main.i + 1 < V!Page) /\ main'.at = "bottom"
    BY <2>1, <2>3, <2>4, <2>5, <2>7 DEF Pieces
  <2> QED BY <2>1, <2>6, <2>7
<1>8. ASSUME ScrollBottom PROVE Pieces'
  <2>1. /\ con' = [con EXCEPT !.ty = HEIGHT - 1] /\ back' = back /\ main'.todo = main.todo
        /\ \/ main'.at = "load"
           \/ main'.at = "curs" /\ main'.nl
           \/ main'.at = "curs" /\ ~main'.nl /\ c \notin {V!LF, V!CR}
    BY <1>0, <1>8 DEF ScrollBottom, Scrolled, Kind, OnlyMain
  <2>2. con'.tx = 0 /\ con'.ty = HEIGHT - 1 /\ con'.mem = con.mem
    BY <1>0, <1>8, <2>1 DEF ScrollBottom, Pieces
  <2>3. \A i \in V!Cells : V!Page - WIDTH <= i /\ i < V!Page => con'.mem[i] = V!NUL
    BY <1>8, <2>2 DEF ScrollBottom, Pieces
  <2>4. Fresh(con')
    BY <2>2, <2>3, BottomFresh
  <2> QED BY <2>1, <2>4 DEF Pieces, c
<1>9. ASSUME PutcCursor PROVE Pieces'
  <2>1. back' = back /\ \/ main'.at = "test" /\ ~main'.nl
                        \/ main'.at = "col" /\ ~main'.nl /\ ~main.nl /\ main'.todo = main.todo
    BY <1>0, <1>9 DEF PutcCursor, OnlyMain
  <2> QED BY <1>9, <2>1 DEF Pieces, c, PutcCursor
<1>10. ASSUME PutcColumn \/ PutcRow \/ PutcStore PROVE Pieces'
  <2>1. back' = back /\ main.at \in Printing /\ main'.at \in {"off", "store", "step"}
        /\ main'.nl = main.nl /\ main'.todo = main.todo
    BY <1>0, <1>10 DEF PutcColumn, PutcRow, PutcStore, OnlyMain
  <2> QED BY <2>1 DEF Pieces, c
<1>11. ASSUME PutcStep PROVE Pieces'
  <2>1. back' = back /\ main'.at = "test" /\ main'.nl = main.nl /\ ~main.nl
    BY <1>0, <1>11 DEF PutcStep, OnlyMain, Pieces
  <2> QED BY <2>1 DEF Pieces
<1>12. ASSUME HelloDone \/ Memset \/ PromptDone PROVE Pieces'
  <2>1. main.at = "test" /\ main'.at = main.at /\ back' = back /\ main'.nl = main.nl
    BY <1>0, <1>12 DEF HelloDone, Memset, PromptDone, OnlyMain, BInv, Bounded
  <2> QED BY <2>1 DEF Pieces
<1> QED BY <1>1, <1>2, <1>3, <1>4, <1>5, <1>6, <1>7, <1>8, <1>9, <1>10, <1>11, <1>12 DEF Main

\* What is left of a text after its first character ends as it did.
LEMMA TailLast ==
  ASSUME NEW s \in Seq(Nat), s # <<>>
  PROVE  /\ Tail(s) \in Seq(Nat) /\ Head(s) = s[1] /\ Len(s) \in Nat /\ Len(s) >= 1
         /\ Tail(s) = <<>> => Len(s) = 1
         /\ Tail(s) # <<>> => Tail(s)[Len(Tail(s))] = s[Len(s)]
<1>1. Len(s) \in Nat /\ Len(s) >= 1 /\ Head(s) = s[1]
  BY EmptySeq, LenProperties
<1>2. Tail(s) \in Seq(Nat) /\ Len(Tail(s)) = Len(s) - 1
      /\ \A i \in 1 .. Len(Tail(s)) : Tail(s)[i] = s[i + 1]
  BY HeadTailProperties
<1> DEFINE u == Tail(s)
<1> HIDE DEF u
<1>3. u = <<>> => Len(u) = 0
  OBVIOUS
<1>4. ASSUME u # <<>> PROVE Len(u) \in 1 .. Len(u) /\ Len(u) + 1 = Len(s)
  <2>1. u \in Seq(Nat) /\ Len(u) = Len(s) - 1
    BY <1>2 DEF u
  <2>2. Len(u) # 0
    BY <1>4, <2>1, EmptySeq
  <2> QED BY <1>1, <2>1, <2>2
<1>5. u = <<>> => Len(s) = 1
  BY <1>1, <1>2, <1>3 DEF u
<1>6. u # <<>> => u[Len(u)] = s[Len(s)]
  BY <1>2, <1>4 DEF u
<1> QED BY <1>1, <1>2, <1>5, <1>6 DEF u

\* The greeting ends its last line.
LEMMA MainGreets ==
  ASSUME BInv, Pieces, main.phase = "hello", Greets, Main
  PROVE  \/ main'.phase = "hello" /\ Greets'
         \/ main'.phase = "memset" /\ Fresh(con')
<1> USE DEF At, Goto, Fields, Printing
<1>0. Loose(con) /\ DOMAIN main = Fields /\ main.todo \in Seq(Nat)
      /\ DOMAIN con = {"tx", "ty", "mem", "crtc"}
  BY DEF BInv, Bounded, Loose, Greets
<1>1. CASE HelloDone
  <2>1. main'.phase = "memset" /\ con' = con /\ main.todo = <<>>
    BY <1>0, <1>1 DEF HelloDone
  <2> QED BY <2>1 DEF Greets
<1>2. CASE PutcCursor /\ main.nl
  <2>1. main.todo # <<>> /\ main'.phase = "hello" /\ main'.todo = Tail(main.todo) /\ Fresh(con)
    BY <1>0, <1>2 DEF PutcCursor, Pieces
  <2>2. con'.tx = con.tx /\ con'.ty = con.ty /\ con'.mem = con.mem
    BY <1>0, <1>2, CursorLoose DEF PutcCursor
  <2>3. Fresh(con')
    BY <2>1, <2>2, SameRows
  <2>4. main.todo[Len(main.todo)] = V!LF
    BY <2>1 DEF Greets
  <2> DEFINE u == main.todo
  <2>5. /\ Tail(u) \in Seq(Nat) /\ Tail(u) # <<>> => Tail(u)[Len(Tail(u))] = u[Len(u)]
    BY <1>0, <2>1, TailLast
  <2> QED BY <2>1, <2>3, <2>4, <2>5 DEF Greets
<1>3. CASE PutcStep
  <2>1. main.todo # <<>> /\ main'.phase = "hello" /\ main'.todo = Tail(main.todo)
        /\ c \notin {V!LF, V!CR}
    BY <1>0, <1>3 DEF PutcStep, Pieces
  <2>2. main.todo[Len(main.todo)] = V!LF
    BY <2>1 DEF Greets
  <2> DEFINE u == main.todo
  <2>3. /\ Tail(u) \in Seq(Nat) /\ Head(u) = u[1] /\ (Tail(u) = <<>> => Len(u) = 1)
        /\ Tail(u) # <<>> => Tail(u)[Len(Tail(u))] = u[Len(u)]
    BY <1>0, <2>1, TailLast
  <2>4. Tail(u) # <<>>
    BY <2>1, <2>2, <2>3 DEF c
  <2> QED BY <2>1, <2>2, <2>3, <2>4 DEF Greets
<1>4. CASE ~HelloDone /\ ~(PutcCursor /\ main.nl) /\ ~PutcStep
  <2>1. main.todo # <<>> /\ main'.phase = "hello" /\ main'.todo = main.todo
    BY <1>0, <1>4 DEF Main, PutcTest, PutcLoad, PutcHome, PutcDown, ScrollTest, ScrollLoad,
      ScrollStore, ScrollBottom, PutcCursor, PutcColumn, PutcRow, PutcStore, Memset,
      PromptDone, Kind, Scrolled
  <2> QED BY <1>0, <2>1 DEF Greets
<1> QED BY <1>1, <1>2, <1>3, <1>4

\* shell_init clears the line and leaves the screen alone.
LEMMA MainMemset ==
  ASSUME BInv, Pieces, main.phase = "memset", Fresh(con), Main
  PROVE  \/ main'.phase = "memset" /\ Fresh(con')
         \/ main'.phase = "prompt" /\ Prompts'
<1>0. Loose(con) /\ DOMAIN main = Fields /\ main.at = "test" /\ ~main.nl
  BY DEF BInv, Bounded, Pieces, Printing
<1>1. Memset
  BY DEF Main, PutcTest, PutcLoad, PutcHome, PutcDown, ScrollTest, ScrollLoad,
    ScrollStore, ScrollBottom, PutcCursor, PutcColumn, PutcRow, PutcStore, PutcStep,
    HelloDone, PromptDone, At
<1>2. con' = con
  BY <1>1 DEF Memset
<1>3. CASE main.i + 1 < N
  <2>1. main'.phase = "memset"
    BY <1>0, <1>1, <1>3 DEF Memset, Fields
  <2> QED BY <1>2, <2>1
<1>4. CASE ~(main.i + 1 < N)
  <2>1. main'.phase = "prompt" /\ main'.todo = S!PROMPT /\ main'.at = "test" /\ main'.nl = main.nl
    BY <1>0, <1>1, <1>4 DEF Memset, Fields
  <2>2. S!PROMPT # <<>>
    BY DEF S!PROMPT
  <2>3. con'.tx = 0 /\ BlankFrom(con', 0)
    <3>1. con.ty \in 0 .. HEIGHT
      BY <1>0 DEF Loose
    <3> DEFINE b == con.ty * WIDTH
    <3>2. b \in Nat
      BY <3>1, RowCells
    <3>3. con.tx = 0 /\ \A i \in V!Cells : i < V!Page /\ i > b => con.mem[i] = V!NUL
      BY DEF Fresh
    <3> HIDE DEF b
    <3>4. b + 0 = b
      BY <3>2
    <3> QED BY <1>2, <3>3, <3>4 DEF BlankFrom, b
  <2> QED BY <1>0, <2>1, <2>2, <2>3 DEF Prompts, Printing
<1> QED BY <1>3, <1>4

\* The prompt is printed.
LEMMA MainPrompts ==
  ASSUME BInv, main.phase = "prompt", Prompts, Main
  PROVE  \/ main'.phase = "prompt" /\ Prompts'
         \/ main'.phase = "idle" /\ con' = con /\ main.todo = <<>>
<1> USE DEF At, Goto, Fields, Printing
<1>0. Loose(con) /\ DOMAIN main = Fields /\ con.ty \in 0 .. HEIGHT
      /\ DOMAIN con = {"tx", "ty", "mem", "crtc"} /\ DOMAIN con.mem = V!Cells
  BY DEF BInv, Bounded, Loose
<1>1. CASE main.todo = <<>>
  <2>1. PromptDone
    BY <1>1 DEF Main, PutcTest, PutcLoad, PutcHome, PutcDown, ScrollTest, ScrollLoad,
      ScrollStore, ScrollBottom, PutcCursor, PutcColumn, PutcRow, PutcStore, PutcStep,
      HelloDone, Memset
  <2> QED BY <1>0, <1>1, <2>1 DEF PromptDone
<1>2. CASE main.todo # <<>>
  <2> DEFINE b == con.ty * WIDTH
             p == S!PROMPT[1]
  <2>1. /\ main.todo = S!PROMPT /\ main.at \in Printing \cup {"test", "curs"} /\ ~main.nl
        /\ con.tx = 0 /\ BlankFrom(con, 0)
        /\ main.at \in {"off", "store", "step"} => main.col = 0
        /\ main.at = "store" => main.off = b
        /\ main.at = "step" => con.mem[b] = p
    BY <1>2 DEF Prompts
  <2>2. c = p /\ p \notin {V!LF, V!CR} /\ Tail(S!PROMPT) = <<>> /\ S!PROMPT # <<>>
    BY <2>1 DEF c, S!PROMPT, V!LF, V!CR
  <2>3. b \in Nat /\ b \in V!Cells /\ b + 0 = b
    <3>1. b \in Nat /\ b + WIDTH <= Bottom
      BY <1>0, RowCells
    <3> HIDE DEF b
    <3> QED BY <3>1, Sizes DEF V!Cells
  <2>4. ~(con.tx >= WIDTH)
    BY <2>1, Sizes
  <2>5. CASE PutcTest
    <3>1. con' = con /\ main'.at = "curs" /\ main'.phase = "prompt" /\ main'.todo = main.todo
          /\ main'.nl = main.nl
      BY <1>0, <2>2, <2>4, <2>5 DEF PutcTest, Kind
    <3> QED BY <1>2, <2>1, <3>1 DEF Prompts
  <2>6. CASE PutcCursor
    <3>1. main'.at = "col" /\ main'.phase = "prompt" /\ main'.todo = main.todo /\ main'.nl = main.nl
      BY <1>0, <2>1, <2>6 DEF PutcCursor
    <3>2. con'.tx = con.tx /\ con'.ty = con.ty /\ con'.mem = con.mem
      BY <1>0, <2>6, CursorLoose DEF PutcCursor
    <3>3. BlankFrom(con', 0)
      BY <2>1, <3>2 DEF BlankFrom
    <3> QED BY <1>2, <2>1, <3>1, <3>2, <3>3 DEF Prompts
  <2>7. CASE PutcColumn
    <3>1. con' = con /\ main'.at = "off" /\ main'.phase = "prompt" /\ main'.todo = main.todo
          /\ main'.nl = main.nl /\ main'.col = con.tx
      BY <1>0, <2>7 DEF PutcColumn
    <3> QED BY <1>2, <2>1, <3>1 DEF Prompts
  <2>8. CASE PutcRow
    <3>1. con' = con /\ main'.at = "store" /\ main'.phase = "prompt" /\ main'.todo = main.todo
          /\ main'.nl = main.nl /\ main'.col = main.col /\ main'.off = b + main.col
          /\ main.at = "off"
      BY <1>0, <2>8 DEF PutcRow
    <3>2. main'.off = b
      BY <2>1, <2>3, <3>1
    <3> QED BY <1>2, <2>1, <3>1, <3>2 DEF Prompts
  <2>9. CASE PutcStore
    <3>1. con' = [con EXCEPT !.mem[main.off] = c] /\ main'.at = "step" /\ main'.phase = "prompt"
          /\ main'.todo = main.todo /\ main'.nl = main.nl /\ main'.col = main.col /\ main.at = "store"
      BY <1>0, <2>9 DEF PutcStore
    <3>2. main.off = b /\ main.col = 0
      BY <2>1, <3>1
    <3>3. con'.tx = 0 /\ con'.ty = con.ty /\ con'.mem[b] = p
          /\ \A i \in V!Cells : i # b => con'.mem[i] = con.mem[i]
      BY <1>0, <2>1, <2>2, <2>3, <3>1, <3>2
    <3>4. BlankFrom(con', 0)
      <4>1. \A i \in V!Cells : i < V!Page /\ i > b + 0 => con.mem[i] = V!NUL
        BY <2>1 DEF BlankFrom
      <4> HIDE DEF b
      <4>2. \A i \in V!Cells : i > b + 0 => i # b
        BY <2>3 DEF V!Cells
      <4>3. \A i \in V!Cells : i < V!Page /\ i > b + 0 => con'.mem[i] = V!NUL
        BY <3>3, <4>1, <4>2
      <4> QED BY <3>3, <4>3 DEF BlankFrom, b
    <3> QED BY <1>2, <2>1, <3>1, <3>2, <3>3, <3>4 DEF Prompts
  <2>10. CASE PutcStep
    <3>1. main'.phase = "prompt" /\ main'.todo = Tail(main.todo) /\ main.at = "step"
      BY <1>0, <2>10 DEF PutcStep
    <3>2. main.col = 0 /\ con.mem[b] = p /\ main'.todo = <<>>
      BY <2>1, <2>2, <3>1
    <3>3. con' = [con EXCEPT !.tx = 0 + 1]
      BY <2>1, <2>10, <3>2 DEF PutcStep
    <3>4. con'.tx = 1 /\ con'.ty = con.ty /\ con'.mem = con.mem
      BY <1>0, <3>3
    <3>5. BlankFrom(con', 0)
      BY <2>1, <3>4 DEF BlankFrom
    <3> QED BY <3>1, <3>2, <3>4, <3>5 DEF Prompts
  <2>11. PutcTest \/ PutcCursor \/ PutcColumn \/ PutcRow \/ PutcStore \/ PutcStep
    BY <1>2, <2>1 DEF Main, PutcLoad, PutcHome, PutcDown, ScrollTest, ScrollLoad,
      ScrollStore, ScrollBottom, HelloDone, Memset, PromptDone
  <2> QED BY <2>5, <2>6, <2>7, <2>8, <2>9, <2>10, <2>11
<1> QED BY <1>1, <1>2

-----------------------------------------------------------------------------
(* The screen and the line agree.                                          *)

\* Editing keeps line ends out of the line.
LEMMA EditPlain ==
  ASSUME NEW s, Whole(s), Plain(s), NEW x, x \notin {V!LF, V!CR}, NEW st, NEW e,
         ~S!Overruns(s, x, st), ~S!IsArrow(x, st)
  PROVE  /\ Plain(S!edit(s, x, st, e))
         /\ "BCKSP" \notin st => S!edit(s, x, st, e).ptr >= s.ptr
<1>0. N \in Nat \ {0} /\ s.ptr \in 0 .. N - 1 /\ x # S!LF
  BY KernelAssumption DEF Whole, S!LF, V!LF
<1>1. CASE "BCKSP" \in st
  <2> DEFINE p == IF s.ptr > 0 THEN s.ptr - 1 ELSE s.ptr
             b == [s.buf EXCEPT ![p] = S!NUL]
  <2>1. S!edit(s, x, st, e).buf = b
    BY <1>1 DEF S!edit, S!erase, S!Edit, Whole
  <2>2. S!NUL \notin {V!LF, V!CR}
    BY DEF S!NUL, V!LF, V!CR
  <2> HIDE DEF p
  <2>3. \A j \in 0 .. N - 1 : b[j] \notin {V!LF, V!CR}
    BY <2>2 DEF Plain, Whole
  <2> QED BY <1>1, <2>1, <2>3 DEF Plain
<1>2. CASE "BCKSP" \notin st
  <2> DEFINE b == [s.buf EXCEPT ![s.ptr] = x]
  <2>1. "UP" \notin st /\ "DOWN" \notin st /\ s.ptr # N - 1
    BY <1>0, <1>2 DEF S!IsArrow, S!Overruns
  <2>2. S!edit(s, x, st, e).buf = b /\ S!edit(s, x, st, e).ptr = S!Inc(s.ptr, N)
    BY <1>2, <2>1 DEF S!edit, S!type, S!Edit, Whole
  <2>3. S!Inc(s.ptr, N) >= s.ptr
    BY <1>0, <2>1 DEF S!Inc
  <2>4. \A j \in 0 .. N - 1 : b[j] \notin {V!LF, V!CR}
    BY DEF Plain, Whole
  <2> QED BY <2>2, <2>3, <2>4 DEF Plain
<1> QED BY <1>1, <1>2

\* After arch_init.
LEMMA InitEInv == Init => EInv
<1> SUFFICES ASSUME Init PROVE EInv
  OBVIOUS
<1> DEFINE k == V!vga_init
<1>1. /\ DOMAIN k = {"tx", "ty", "mem", "crtc"} /\ DOMAIN k.mem = V!Cells
      /\ k.tx = 0 /\ k.ty = 0 /\ \A i \in V!Cells : k.mem[i] = V!NUL
  BY DEF V!vga_init
<1> HIDE DEF k
<1>2. Loose(k) /\ Clean(k)
  BY <1>1, Sizes DEF Loose, Clean
<1>3. Len(Banner) \in Nat
  <2>1. Banner \in Seq(Nat)
    BY KernelAssumption
  <2> QED BY <2>1
<1>4. Clean(con)
  BY <1>2, <1>3, PutsKept DEF Init, k, Kept
<1>5. Behind
  BY <1>4 DEF Init, Behind
<1>6. Pieces
  BY DEF Init, Pieces, Printing
<1>7. Greets
  <2>1. Hello \in Seq(Nat \ {V!NUL}) /\ Len(Hello) > 0 /\ Hello[Len(Hello)] = V!LF
    BY KernelAssumption
  <2>2. Hello \in Seq(Nat) /\ Hello # <<>>
    BY <2>1
  <2> QED BY <2>1, <2>2 DEF Init, Greets
<1>8. Quiet
  BY <1>6, <1>7 DEF Init, Quiet
<1>9. Plain(sh) /\ sh.ptr = 0 /\ main.phase = "hello" /\ wide = FALSE
  BY DEF Init, S!shell_statics, S!Blank, S!Idx, Plain, S!NUL, V!LF, V!CR
<1>10. sh.ptr < WIDTH
  BY <1>9, Sizes
<1> QED BY <1>5, <1>8, <1>9, <1>10 DEF EInv, Echoes

\* A key.
LEMMA IrqEInv ==
  ASSUME BInv, SInv, EInv, NEW sc, Irq(sc)
  PROVE  EInv'
<1> DEFINE r == K!keyboard(kb, sc)
           x == r.call[1].c
           st == r.call[1].st
<1>0. main' = main /\ back' = back
  BY DEF Irq
<1>1. Behind'
  BY IrqBehind DEF EInv
<1>2. CASE UNCHANGED <<con, sh, ram, early, wide, overrun, arrows>>
  <2>1. Quiet'
    BY <1>0, <1>2 DEF EInv, Quiet, Pieces, Greets, Prompts, Fresh, BlankFrom, c
  <2>2. Echoes'
    BY <1>0, <1>2 DEF EInv, Echoes, Fine, Plain, Shows, BlankFrom
  <2> QED BY <1>1, <1>2, <2>1, <2>2 DEF EInv
<1>3. CASE ~UNCHANGED <<con, sh, ram, early, wide, overrun, arrows>>
  <2>2. PICK e \in Env :
          /\ sh' = S!kcallback(sh, ram, x, st, e).sh
          /\ con' = Shown(con, S!kcallback(sh, ram, x, st, e).out)
          /\ early' = (main.phase # "idle" \/ (early /\ x # S!LF))
          /\ overrun' = (overrun \/ S!Overruns(sh, x, st))
          /\ arrows' = (arrows \/ S!IsArrow(x, st))
          /\ wide' = (x # S!LF /\ (wide \/ Outgrows(x, st, sh')))
    BY <1>3 DEF Irq
  <2> HIDE DEF x, st
  <2>4. Quiet'
    BY <1>0, <2>2 DEF Quiet
  <2>3. wide' \in BOOLEAN
    BY <2>2
  <2>5. ASSUME Fine', ~wide'
        PROVE  /\ Plain(sh') /\ sh'.ptr < WIDTH
               /\ main.phase = "idle" => Shows(con', sh') /\ (~back => BlankFrom(con', sh'.ptr))
    <3>0. /\ ~S!Overruns(sh, x, st) /\ ~S!IsArrow(x, st) /\ main.phase = "idle"
          /\ x = S!LF \/ ~early
          /\ ~overrun /\ ~arrows
      BY <2>2, <2>5 DEF Fine, SInv
    <3>1. Loose(con) /\ (~back => Clean(con))
      BY DEF BInv, EInv, Behind
    <3>2. CASE x = S!LF
      <4>1. sh' = S!enter(sh, ram, e).sh
        BY <2>2, <3>2 DEF S!kcallback
      <4>2. Whole(sh') /\ sh'.ptr = 0
        BY <4>1, EnterWhole
      <4>3. Plain(sh')
        <5>1. \A j \in 0 .. N - 1 : sh'.buf[j] = S!NUL
          BY <4>2, KernelAssumption DEF Whole
        <5> QED BY <5>1 DEF Plain, S!NUL, V!LF, V!CR
      <4>4. Shows(con', sh') /\ (Clean(con) => BlankFrom(con', 0))
        <5> DEFINE t == sh'
                   z == con'
        <5>1. t.ptr = 0 /\ z = Shown(con, S!kcallback(sh, ram, x, st, e).out)
          BY <2>2, <4>2
        <5> HIDE DEF t, z
        <5>2. Shows(z, t) /\ (Clean(con) => BlankFrom(z, 0))
          BY <3>1, <3>2, <5>1, EnterShows
        <5> QED BY <5>2 DEF t, z
      <4>5. sh'.ptr < WIDTH
        BY <4>2, Sizes
      <4> QED BY <3>1, <4>2, <4>3, <4>4, <4>5
    <3>3. CASE x # S!LF
      <4>0. ~wide /\ ~Outgrows(x, st, sh')
        BY <2>2, <2>5, <3>3 DEF EInv
      <4>1. Whole(sh) /\ Plain(sh) /\ Shows(con, sh) /\ (~back => BlankFrom(con, sh.ptr))
        <5>1. Fine /\ ~wide
          BY <3>0, <3>3, <4>0 DEF Fine
        <5> QED BY <2>5, <3>0, <5>1 DEF SInv, EInv, Echoes
      <4>2. x \notin {V!LF, V!CR}
        BY <3>3, <4>0 DEF S!LF, V!LF, Outgrows
      <4> DEFINE t == sh'
                 z == con'
      <4>3. t = S!edit(sh, x, st, e)
        BY <2>2, <3>3 DEF S!kcallback, S!Echo
      <4>4. z = Shown(con, S!kcallback(sh, ram, x, st, e).out)
        BY <2>2
      <4> HIDE DEF t, z
      <4>5. Whole(t)
        BY <3>0, <3>3, <4>1, <4>3, EditWhole
      <4>6. Plain(t) /\ ("BCKSP" \notin st => t.ptr >= sh.ptr)
        BY <3>0, <4>1, <4>2, <4>3, EditPlain
      <4>a. t.ptr < WIDTH /\ ("BCKSP" \in st => sh.ptr < WIDTH \div 2)
        <5>1. ~(t.ptr >= WIDTH) /\ ("BCKSP" \in st => ~(sh.ptr >= WIDTH \div 2))
          BY <4>0 DEF Outgrows, t
        <5>2. t.ptr \in Int /\ sh.ptr \in Int
          BY <4>1, <4>5 DEF Whole
        <5> QED BY <5>1, <5>2, Sizes
      <4>7. Shows(z, t) /\ (BlankFrom(con, sh.ptr) => BlankFrom(z, t.ptr))
        <5>1. CASE "BCKSP" \in st
          BY <3>1, <3>3, <4>1, <4>3, <4>4, <4>5, <4>6, <4>a, <5>1, EraseShows
        <5>2. CASE "BCKSP" \notin st
          BY <3>1, <3>3, <4>1, <4>3, <4>4, <4>5, <4>6, <4>a, <5>2, TypeShows
        <5> QED BY <5>1, <5>2
      <4> QED BY <4>1, <4>6, <4>7, <4>a DEF t, z
    <3> QED BY <3>2, <3>3
  <2>6. Echoes'
    BY <1>0, <2>5 DEF Echoes
  <2> QED BY <1>1, <2>3, <2>4, <2>6 DEF EInv
<1> QED BY <1>2, <1>3

\* An access of kmain.
LEMMA MainEInv ==
  ASSUME BInv, SInv, EInv, Main
  PROVE  EInv'
<1>0. BInv' /\ Behind'
  BY MainBInv, MainBehind DEF EInv
<1>1. /\ early' = early /\ wide' = wide /\ arrows' = arrows /\ overrun' = overrun
      /\ main.phase # "idle"
      /\ sh' = sh \/ sh' = [sh EXCEPT !.buf[main.i] = V!NUL]
  BY DEF Main, PutcTest, PutcLoad, PutcHome, PutcDown, ScrollTest, ScrollLoad,
    ScrollStore, ScrollBottom, PutcCursor, PutcColumn, PutcRow, PutcStore, PutcStep,
    HelloDone, Memset, PromptDone, OnlyMain, At
<1>2. ASSUME ~early PROVE Pieces /\ Pieces' /\ sh.ptr = 0
  BY <1>1, <1>2, MainPieces DEF EInv, Quiet, SInv
<1>3. main.phase \in {"hello", "memset", "prompt"}
  BY DEF Main, PutcTest, PutcLoad, PutcHome, PutcDown, ScrollTest, ScrollLoad,
    ScrollStore, ScrollBottom, PutcCursor, PutcColumn, PutcRow, PutcStore, PutcStep,
    HelloDone, Memset, PromptDone, At
<1>4. ASSUME ~early
      PROVE  \/ main'.phase = "hello" /\ Greets'
             \/ main'.phase = "memset" /\ Fresh(con')
             \/ main'.phase = "prompt" /\ Prompts'
             \/ main'.phase = "idle" /\ con' = con /\ main.phase = "prompt" /\ main.todo = <<>>
  <2>1. Pieces /\ Quiet
    BY <1>2, <1>4 DEF EInv
  <2>2. CASE main.phase = "hello"
    BY <1>4, <2>1, <2>2, MainGreets DEF Quiet
  <2>3. CASE main.phase = "memset"
    BY <1>4, <2>1, <2>3, MainMemset DEF Quiet
  <2>4. CASE main.phase = "prompt"
    BY <1>4, <2>1, <2>4, MainPrompts DEF Quiet
  <2> QED BY <1>3, <2>2, <2>3, <2>4
<1>5. Quiet'
  BY <1>1, <1>2, <1>4 DEF Quiet
<1>6. ASSUME Fine, ~wide
      PROVE  Plain(sh') /\ sh'.ptr < WIDTH /\ (main'.phase = "idle" => Shows(con', sh') /\ BlankFrom(con', sh'.ptr))
  <2>1. ~early /\ Plain(sh) /\ Whole(sh) /\ sh.ptr = 0
    BY <1>2, <1>6 DEF Fine, EInv, Echoes, SInv
  <2>2. Plain(sh') /\ sh'.ptr = 0
    <3>1. CASE sh' = sh
      BY <2>1, <3>1
    <3>2. CASE sh' = [sh EXCEPT !.buf[main.i] = V!NUL]
      <4>1. sh'.ptr = 0 /\ sh'.buf = [sh.buf EXCEPT ![main.i] = V!NUL]
        BY <2>1, <3>2 DEF Whole
      <4>2. V!NUL \notin {V!LF, V!CR}
        BY DEF V!NUL, V!LF, V!CR
      <4> QED BY <2>1, <4>1, <4>2 DEF Plain, Whole
    <3> QED BY <1>1, <3>1, <3>2
  <2>3. ASSUME main'.phase = "idle" PROVE Shows(con', sh') /\ BlankFrom(con', sh'.ptr)
    <3>1. con' = con /\ main.phase = "prompt" /\ main.todo = <<>>
      BY <1>4, <2>1, <2>3
    <3>2. Prompts
      BY <1>1, <2>1, <3>1 DEF EInv, Quiet
    <3>3. con.tx = 1 /\ con.mem[con.ty * WIDTH] = S!PROMPT[1] /\ BlankFrom(con, 0)
      BY <3>1, <3>2 DEF Prompts
    <3>4. BlankFrom(con', sh'.ptr)
      BY <2>2, <3>1, <3>3
    <3>5. Shows(con', sh')
      BY <2>2, <3>1, <3>3 DEF Shows
    <3> QED BY <3>4, <3>5
  <2> QED BY <2>2, <2>3, Sizes
<1>7. Echoes'
  BY <1>1, <1>6 DEF Echoes, Fine
<1> QED BY <1>0, <1>1, <1>5, <1>7 DEF EInv

\* Any step.
LEMMA NextEInv == BInv /\ SInv /\ EInv /\ [Next]_vars => EInv'
<1> SUFFICES ASSUME BInv, SInv, EInv, [Next]_vars PROVE EInv'
  OBVIOUS
<1>1. CASE UNCHANGED vars
  <2>1. Behind'
    BY <1>1 DEF vars, EInv, Behind, Clean
  <2>2. Quiet'
    BY <1>1 DEF vars, EInv, Quiet, Pieces, Greets, Prompts, Fresh, BlankFrom, c
  <2>3. Echoes'
    BY <1>1 DEF vars, EInv, Echoes, Fine, Plain, Shows, BlankFrom
  <2> QED BY <1>1, <2>1, <2>2, <2>3 DEF EInv, vars
<1> QED BY <1>1, MainEInv, IrqEInv DEF Next

\* What the invariant says of the cursor's row.
LEMMA EInvEcho == BInv /\ SInv /\ EInv => EchoIsLine
<1> SUFFICES ASSUME BInv, SInv, EInv, main.phase = "idle", Fine, ~wide
             PROVE  /\ con.tx = 1 + Len(Text)
                    /\ Row(con.ty)[0] = S!PROMPT[1]
                    /\ \A x \in 1 .. Len(Text) : Row(con.ty)[x] = Text[x]
                    /\ ~back => \A x \in Len(Text) + 1 .. WIDTH - 1 : Row(con.ty)[x] = V!NUL
  BY DEF EchoIsLine, Fine
<1> DEFINE b == con.ty * WIDTH
           n == sh.ptr
<1>1. Whole(sh) /\ Shows(con, sh) /\ (~back => BlankFrom(con, n))
  BY DEF SInv, EInv, Echoes
<1>2. Len(Text) = n /\ \A j \in 1 .. n : Text[j] = sh.buf[j - 1]
  <2>1. Len(<<>>) \in Nat
    OBVIOUS
  <2> QED BY <1>1, <2>1, WholeText DEF Text
<1>3. n \in Nat /\ n < WIDTH /\ WIDTH \in Nat /\ WIDTH >= 2
  BY <1>1, KernelAssumption DEF Whole, EInv, Echoes
<1>4. b \in Nat /\ b + WIDTH <= V!Page
  <2>1. con.ty \in 0 .. HEIGHT /\ con.ty < HEIGHT
    BY DEF BInv, Loose, Bounded, Scrolling
  <2> QED BY <2>1, RowCells
<1>5. \A x \in 0 .. WIDTH - 1 : Row(con.ty)[x] = con.mem[b + x]
  BY DEF Row
<1>6. /\ con.tx = 1 + n /\ con.mem[b] = S!PROMPT[1]
      /\ \A j \in 1 .. n : con.mem[b + j] = sh.buf[j - 1]
  BY <1>1 DEF Shows
<1>7. ~back => \A i \in V!Cells : i < V!Page /\ i > b + n => con.mem[i] = V!NUL
  BY <1>1 DEF BlankFrom
<1> HIDE DEF b, n
<1>8. Row(con.ty)[0] = S!PROMPT[1]
  <2>1. 0 \in 0 .. WIDTH - 1 /\ b + 0 = b
    BY <1>3, <1>4
  <2> QED BY <1>5, <1>6, <2>1
<1>9. \A x \in 1 .. n : Row(con.ty)[x] = Text[x]
  <2>1. \A x \in 1 .. n : x \in 0 .. WIDTH - 1
    BY <1>3
  <2> QED BY <1>2, <1>5, <1>6, <2>1
<1>10. ~back => \A x \in n + 1 .. WIDTH - 1 : Row(con.ty)[x] = V!NUL
  <2>1. \A x \in n + 1 .. WIDTH - 1 :
          x \in 0 .. WIDTH - 1 /\ b + x \in V!Cells /\ b + x < V!Page /\ b + x > b + n
    BY <1>3, <1>4, Sizes DEF V!Cells, Bottom
  <2> QED BY <1>5, <1>7, <2>1
<1> QED BY <1>2, <1>6, <1>8, <1>9, <1>10

(* The screen shows what Enter will run (shell.c:73-102, vga.c:42-60,      *)
(* 87-93), for every page, line buffer and text, any number of keys and    *)
(* any point of kmain at which an interrupt strikes.                       *)
THEOREM ScreenShowsLine == Spec => []EchoIsLine
<1>1. Init => BInv /\ SInv /\ EInv
  BY InitBInv, InitSInv, InitEInv
<1>2. BInv /\ SInv /\ EInv /\ [Next]_vars => (BInv /\ SInv /\ EInv)'
  BY NextBInv, NextSInv, NextEInv
<1> QED BY <1>1, <1>2, EInvEcho, PTL DEF Spec
=============================================================================
