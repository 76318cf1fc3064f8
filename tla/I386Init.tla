------------------------------ MODULE I386Init ------------------------------
(***************************************************************************)
(* arch_init of the i386 port (src/kernel/arch/i386/arch.c): the interrupt *)
(* table is filled, the two 8259 interrupt controllers are programmed and  *)
(* interrupts are enabled, while devices may raise their lines at any      *)
(* time.                                                                   *)
(*                                                                         *)
(* arch_init is a program of port writes and table entries, executed one   *)
(* per step.  The controllers are external: their initialisation protocol  *)
(* (ICW1 to ICW4, then the mask), request, mask and in-service bits are    *)
(* modelled as far as this code relies on them.  Which master line the     *)
(* slave sits on is wired (2), as in the machine QEMU emulates.            *)
(***************************************************************************)
EXTENDS Integers, Sequences

CONSTANTS
  MasterLines,  \* lines of the master whose devices may raise them
  SlaveLines,   \* lines of the slave whose devices may raise them
  MaxRaises     \* bound on the number of raised lines

ASSUME I386InitAssumption ==
  /\ MasterLines \subseteq (0 .. 7) \ {2} /\ SlaveLines \subseteq 0 .. 7
  /\ MaxRaises \in Nat

VARIABLES
  pc,       \* next operation of arch_init
  idt,      \* vectors whose entry is present
  loaded,   \* lidt has been executed
  iflag,    \* the processor accepts interrupts
  master, slave,  \* the controllers
  full,     \* the keyboard controller holds a byte and keeps its line high
  running,  \* vector being serviced, or NoVector
  raises    \* number of raised lines

startVars == <<pc, idt, loaded, iflag, master, slave, full, running, raises>>

NoVector == -1
CASCADE == 2
KBD == 1

-----------------------------------------------------------------------------
(* The controllers.                                                        *)

Bits(n) == {l \in 0 .. 7 : (n \div 2 ^ l) % 2 = 1}

\* As the BIOS leaves them: initialised, real mode vectors, nothing masked.
BiosPic(off) ==
  [stage |-> "ready", icw4 |-> TRUE, off |-> off, mask |-> {}, irr |-> {}, isr |-> {}]

\* A write to the command port: ICW1 (bit 4), which also forgets the edges
\* seen so far, or end of interrupt.
Command(p, d) ==
  IF 4 \in Bits(d)
  THEN [p EXCEPT !.stage = "icw2", !.icw4 = (0 \in Bits(d)), !.mask = {},
                !.irr = {}, !.isr = {}]
  ELSE IF p.isr = {} THEN p
       ELSE [p EXCEPT !.isr = @ \ {CHOOSE l \in @ : \A j \in @ : l <= j}]

\* A write to the data port: the word the controller waits for, or the mask.
Data(p, d) ==
  CASE p.stage = "icw2" -> [p EXCEPT !.stage = "icw3", !.off = d]
    [] p.stage = "icw3" -> [p EXCEPT !.stage = IF p.icw4 THEN "icw4" ELSE "ready"]
    [] p.stage = "icw4" -> [p EXCEPT !.stage = "ready"]
    [] OTHER            -> [p EXCEPT !.mask = Bits(d)]

\* Lines that ask for service and are not held back by one in service.
Asking(p) ==
  {l \in p.irr \ p.mask : p.stage = "ready" /\ \A j \in p.isr : l < j}

-----------------------------------------------------------------------------
(* arch_init as a program.                                                 *)

Outb(port, d) == [op |-> "outb", a |-> port, b |-> d]
Gate(v)       == [op |-> "gate", a |-> v, b |-> 0]
Lidt          == [op |-> "lidt", a |-> 0, b |-> 0]
Sti           == [op |-> "sti", a |-> 0, b |-> 0]

M_CMD == 32
M_DATA == 33
S_CMD == 160
S_DATA == 161

\* The two writes of ICW4 both go to the master's port.
pic_remap(off1, off2) ==
  << Outb(M_CMD, 17), Outb(S_CMD, 17), Outb(M_DATA, off1), Outb(S_DATA, off2),
     Outb(M_DATA, 2), Outb(S_DATA, 2), Outb(M_DATA, 1), Outb(M_DATA, 1) >>

\* Mutant: every master line but the keyboard's is enabled.
arch_init_Inverted ==
  [i \in 1 .. 32 |-> Gate(i - 1)] \o <<Lidt>> \o pic_remap(32, 40) \o
  << Outb(M_DATA, 2), Outb(S_DATA, 255), Gate(33), Sti >>

arch_init ==
  [i \in 1 .. 32 |-> Gate(i - 1)] \o <<Lidt>> \o pic_remap(32, 40) \o
  << Outb(M_DATA, 253), Outb(S_DATA, 255), Gate(33), Sti >>

\* The effect of port writes on the controllers.
WriteMaster(o) ==
  IF o.op # "outb" THEN master
  ELSE IF o.a = M_CMD THEN Command(master, o.b)
  ELSE IF o.a = M_DATA THEN Data(master, o.b) ELSE master

WriteSlave(o) ==
  IF o.op # "outb" THEN slave
  ELSE IF o.a = S_CMD THEN Command(slave, o.b)
  ELSE IF o.a = S_DATA THEN Data(slave, o.b) ELSE slave

Step ==
  /\ pc <= Len(arch_init) /\ running = NoVector
  /\ LET o == arch_init[pc]
     IN  /\ idt' = IF o.op = "gate" THEN idt \cup {o.a} ELSE idt
         /\ loaded' = (loaded \/ o.op = "lidt")
         /\ iflag' = (iflag \/ o.op = "sti")
         /\ master' = WriteMaster(o) /\ slave' = WriteSlave(o)
  /\ pc' = pc + 1
  /\ UNCHANGED <<full, running, raises>>

-----------------------------------------------------------------------------
(* Devices raise lines; the processor takes the highest asking line.       *)

\* Lines are edge triggered; the keyboard's next edge needs its byte read.
RaiseMaster(l) ==
  /\ raises < MaxRaises /\ l \notin master.irr
  /\ l = KBD => ~full
  /\ full' = (full \/ l = KBD)
  /\ master' = [master EXCEPT !.irr = @ \cup {l}]
  /\ raises' = raises + 1
  /\ UNCHANGED <<pc, idt, loaded, iflag, slave, running>>

RaiseSlave(l) ==
  /\ raises < MaxRaises /\ l \notin slave.irr
  /\ slave' = [slave EXCEPT !.irr = @ \cup {l}]
  /\ raises' = raises + 1
  /\ UNCHANGED <<pc, idt, loaded, iflag, master, full, running>>

\* The slave's request shows as the cascade line of the master.
MasterView ==
  IF Asking(slave) = {} THEN master ELSE [master EXCEPT !.irr = @ \cup {CASCADE}]

First(L) == CHOOSE l \in L : \A j \in L : l <= j

\* The interrupt gate turns interrupts off.
Accept ==
  /\ iflag /\ running = NoVector /\ Asking(MasterView) # {}
  /\ LET l == First(Asking(MasterView))
         k == First(Asking(slave))
     IN  /\ master' = [master EXCEPT !.irr = @ \ {l}, !.isr = @ \cup {l}]
         /\ IF l = CASCADE
            THEN /\ slave' = [slave EXCEPT !.irr = @ \ {k}, !.isr = @ \cup {k}]
                 /\ running' = slave.off + k
            ELSE /\ running' = master.off + l /\ UNCHANGED slave
  /\ iflag' = FALSE
  /\ UNCHANGED <<pc, idt, loaded, full, raises>>

\* Mutant: no end of interrupt.
Keyboard_NoEoi ==
  /\ running = 33
  /\ full' = FALSE
  /\ UNCHANGED master
  /\ running' = NoVector /\ iflag' = TRUE
  /\ UNCHANGED <<pc, idt, loaded, slave, raises>>

\* keyboard() reads port 0x60 and ends with outb(0x20, 0x20), keyboard_stub
\* with iret.
Keyboard ==
  /\ running = 33
  /\ full' = FALSE
  /\ master' = Command(master, 32)
  /\ running' = NoVector /\ iflag' = TRUE
  /\ UNCHANGED <<pc, idt, loaded, slave, raises>>

StartInit ==
  /\ pc = 1 /\ idt = {} /\ loaded = FALSE /\ iflag = FALSE /\ full = FALSE
  /\ master = BiosPic(8) /\ slave = BiosPic(112)
  /\ running = NoVector /\ raises = 0

StartNext ==
  \/ Step \/ Accept \/ Keyboard
  \/ \E l \in MasterLines : RaiseMaster(l)
  \/ \E l \in SlaveLines : RaiseSlave(l)

\* The processor keeps executing, and takes an interrupt it accepts.
StartSpec ==
  /\ StartInit /\ [][StartNext]_startVars
  /\ WF_startVars(Step) /\ WF_startVars(Accept) /\ WF_startVars(Keyboard)

-----------------------------------------------------------------------------

(* Whatever lines the devices raised before, during or after arch_init,    *)
(* every interrupt the processor takes has an entry in the loaded table,   *)
(* and not that of an exception (arch.c:63-85).                            *)
DeliveredHasGate == running # NoVector => loaded /\ running \in idt \ 0 .. 31

\* The ICW1 of the master has been written.
Remapping == \E i \in 1 .. pc - 1 : arch_init[i] = Outb(M_CMD, 17)

(* A keyboard interrupt raised at any moment after the controllers have    *)
(* begun to be programmed is serviced: no mask, no forgotten end of        *)
(* interrupt and no other line in service holds it back (arch.c:43-84,     *)
(* kbd.c:141).  One raised before is forgotten with the ICW1 of arch.c:44. *)
KeyboardServed == (KBD \in master.irr /\ Remapping) ~> (running = 33)
=============================================================================
