-------------------------------- MODULE Uart --------------------------------
(***************************************************************************)
(* The AArch64 port's start-up and serial port (src/kernel/arch/aarch64/   *)
(* boot.asm, arch.c and uart.c): kmain prints and waits for a key while    *)
(* the receive interrupt runs kcallback on the same port.                  *)
(* The port's registers are not volatile; the kernel is built without      *)
(* optimisation (arch/aarch64.conf), so each access in the source is one.  *)
(*                                                                         *)
(* External: the PL011, whose receive interrupt is raised when its FIFO    *)
(* reaches the trigger level and withdrawn below it; the interrupt         *)
(* controller, which delivers nothing more until an interrupt that was     *)
(* acknowledged is ended, and which the kernel finds as the firmware left  *)
(* it; and the 16550, which the kernel polls only.  Characters do not      *)
(* matter: FIFOs are their fill levels.                                    *)
(***************************************************************************)
EXTENDS Integers

CONSTANTS
  RXCAP, TXCAP,  \* places of the receive and transmit FIFO
  TRIGGER,       \* level of the receive interrupt
  ECHO,          \* most characters that one kcallback prints
  MaxKeys,       \* bound on the characters received
  Text           \* length of each text kmain prints

ASSUME UartAssumption ==
  /\ {RXCAP, TXCAP, TRIGGER, ECHO, MaxKeys} \subseteq Nat \ {0} /\ TRIGGER <= RXCAP
  /\ DOMAIN Text = {"banner", "prompt", "key", "hello"}
  /\ \A t \in DOMAIN Text : Text[t] \in Nat

VARIABLES
  pc,         \* where kmain and what precedes it is
  todo,       \* characters left to print in this puts
  ready,      \* uart_putc has seen room
  model,      \* serial.model of boot_info
  drv,        \* the driver: "ns" (uart_ns), "pl" (uart_pl) or "none"
  kcallback,  \* is it set?
  h,          \* where the interrupt handler is
  left,       \* characters it has left to print
  rx, tx,     \* fill levels of the FIFOs
  raised,     \* the receive interrupt is raised
  gicOn,      \* the firmware left the interrupt controller on
  acked,      \* an interrupt is acknowledged and not ended
  keys,       \* characters received
  lost        \* characters written to a full FIFO

main     == <<pc, todo, ready, model, drv, kcallback>>
handler  == <<h, left>>
hardware == <<rx, tx, raised, gicOn, acked, keys, lost>>
vars     == <<main, handler, hardware>>

-----------------------------------------------------------------------------
(* The port.                                                               *)

Arrive ==
  /\ keys < MaxKeys /\ keys' = keys + 1
  /\ rx' = (IF rx < RXCAP THEN rx + 1 ELSE rx)
  /\ raised' = (raised \/ (rx < RXCAP /\ rx + 1 = TRIGGER))
  /\ UNCHANGED <<main, handler, tx, gicOn, acked, lost>>

Drain ==
  /\ tx > 0 /\ tx' = tx - 1
  /\ UNCHANGED <<main, handler, rx, raised, gicOn, acked, keys, lost>>

\* A read of the data register; an empty FIFO answers with anything.
ReadData ==
  /\ rx' = (IF rx > 0 THEN rx - 1 ELSE 0)
  /\ raised' = (raised /\ rx - 1 >= TRIGGER)

WriteData ==
  IF tx < TXCAP THEN tx' = tx + 1 /\ UNCHANGED lost ELSE lost' = lost + 1 /\ UNCHANGED tx

-----------------------------------------------------------------------------
(* The interrupted program.  It runs while the handler does not.           *)

Running == h = "none"

\* puts(text) follows, or the next step if there is nothing to print.
Puts(text) == pc' = text /\ todo' = Text[text] /\ ready' = FALSE

\* parse_boot_info: interrupts are on.
uart_init ==
  /\ Running /\ pc = "start"
  /\ drv' = (CASE model \in {0, 1, 5} -> "ns" [] model = 3 -> "pl" [] OTHER -> "none")
  /\ IF drv' = "none" THEN pc' = "arch_init" /\ UNCHANGED <<todo, ready>> ELSE Puts("banner")
  /\ UNCHANGED <<model, kcallback, handler, hardware>>

Printing == pc \in DOMAIN Text

\* Mutant: uart_putc does not wait.
PutcTest_NoWait ==
  /\ Running /\ Printing /\ todo > 0 /\ ~ready
  /\ ready' = TRUE
  /\ UNCHANGED <<pc, todo, model, drv, kcallback, handler, hardware>>

\* uart_putc: wait while the FIFO is full, on the 16550 until it is empty;
\* without a driver there is no wait.
PutcTest ==
  /\ Running /\ Printing /\ todo > 0 /\ ~ready
  /\ (drv = "pl" => tx < TXCAP) /\ (drv = "ns" => tx = 0)
  /\ ready' = TRUE
  /\ UNCHANGED <<pc, todo, model, drv, kcallback, handler, hardware>>

PutcWrite ==
  /\ Running /\ Printing /\ ready
  /\ WriteData /\ todo' = todo - 1 /\ ready' = FALSE
  /\ UNCHANGED <<pc, model, drv, kcallback, handler, rx, raised, gicOn, acked, keys>>

\* The end of a puts: on to the next step of kmain.
PutsEnd ==
  /\ Running /\ Printing /\ todo = 0
  /\ \/ pc = "banner" /\ pc' = "arch_init" /\ UNCHANGED <<todo, ready>>
     \/ pc = "prompt" /\ pc' = "poll" /\ UNCHANGED <<todo, ready>>
     \/ pc = "key" /\ Puts("hello")
     \/ pc = "hello" /\ pc' = "idle" /\ UNCHANGED <<todo, ready>>
  /\ UNCHANGED <<model, drv, kcallback, handler, hardware>>

arch_init ==
  /\ Running /\ pc = "arch_init"
  /\ kcallback' = TRUE /\ Puts("prompt")
  /\ UNCHANGED <<model, drv, handler, hardware>>

\* Mutant: waits until the FIFO is empty.
GetcWait_Inverted ==
  /\ Running /\ pc = "poll"
  /\ IF drv = "none" THEN Puts("key")
     ELSE rx = 0 /\ pc' = "read" /\ UNCHANGED <<todo, ready>>
  /\ UNCHANGED <<model, drv, kcallback, handler, hardware>>

\* uart_getc: wait for a character; without a driver it returns 0.
GetcWait ==
  /\ Running /\ pc = "poll"
  /\ IF drv = "none" THEN Puts("key")
     ELSE rx > 0 /\ pc' = "read" /\ UNCHANGED <<todo, ready>>
  /\ UNCHANGED <<model, drv, kcallback, handler, hardware>>

GetcRead ==
  /\ Running /\ pc = "read" /\ ReadData /\ Puts("key")
  /\ UNCHANGED <<model, drv, kcallback, handler, tx, gicOn, acked, keys, lost>>

Main == uart_init \/ PutcTest \/ PutcWrite \/ PutsEnd \/ arch_init \/ GetcWait \/ GetcRead

-----------------------------------------------------------------------------
(* interrupt_handler and uart_int.                                         *)

\* The RX interrupt is enabled by uart_init, for the PL011 only.
Masked == drv # "pl" \/ ~raised

\* Mutant: uart_int does not look whether the interrupt is the UART's.
Interrupt_AnySource ==
  /\ Running /\ gicOn /\ ~acked /\ pc # "wild"
  /\ acked' = TRUE
  /\ h' = (IF drv = "pl" THEN "get" ELSE "none")
  /\ UNCHANGED <<main, left, rx, tx, raised, gicOn, keys, lost>>

\* An interrupt of the UART, or of a device the firmware left running.  It is
\* acknowledged; nothing ends it.
Interrupt ==
  /\ Running /\ gicOn /\ ~acked /\ pc # "wild"
  /\ acked' = TRUE
  /\ h' = (IF Masked THEN "none" ELSE "get")
  /\ UNCHANGED <<main, left, rx, tx, raised, gicOn, keys, lost>>

\* kcallback(uart_getc(), 0); a kcallback that is not set is called too.
HandlerGetc ==
  /\ h = "get" /\ rx > 0 /\ ReadData
  /\ \/ kcallback /\ h' = "echo" /\ left' \in 0 .. ECHO /\ UNCHANGED main
     \/ ~kcallback /\ pc' = "wild" /\ h' = "none"
        /\ UNCHANGED <<left, todo, ready, model, drv, kcallback>>
  /\ UNCHANGED <<tx, gicOn, acked, keys, lost>>

HandlerPutc ==
  /\ h = "echo" /\ left > 0 /\ tx < TXCAP
  /\ WriteData /\ left' = left - 1
  /\ UNCHANGED <<main, h, rx, raised, gicOn, acked, keys>>

\* The write of icr; eret.
HandlerEnd ==
  /\ h = "echo" /\ left = 0
  /\ raised' = FALSE /\ h' = "none"
  /\ UNCHANGED <<main, left, rx, tx, gicOn, acked, keys, lost>>

Handler == HandlerGetc \/ HandlerPutc \/ HandlerEnd

-----------------------------------------------------------------------------

\* The firmware may have left a character in the FIFO.
UartInit ==
  /\ pc = "start" /\ todo = 0 /\ ready = FALSE /\ model \in {0, 3, 13}
  /\ drv = "none" /\ kcallback = FALSE /\ h = "none" /\ left = 0
  /\ rx \in {0, 1} /\ keys = rx /\ tx = 0 /\ raised = (rx >= TRIGGER)
  /\ gicOn \in BOOLEAN /\ acked = FALSE /\ lost = 0

UartNext == Main \/ Interrupt \/ Handler \/ Arrive \/ Drain

\* The processor keeps executing and the port keeps sending.
UartSpec == UartInit /\ [][UartNext]_vars /\ WF_vars(Main) /\ WF_vars(Handler) /\ WF_vars(Drain)

-----------------------------------------------------------------------------

(* The wait of uart_getc never spins inside the handler, where nothing     *)
(* could end it but another key: uart_int calls it only for a receive      *)
(* interrupt, and kmain's own reads withdraw that (uart.c:34-35, 74).      *)
HandlerNeverSpins == h = "get" => rx > 0

(* With a driver at most one character written by uart_putc is lost: the   *)
(* one whose wait the handler's echo invalidates (uart.c:41-47).           *)
LossBounded == drv # "none" => lost <= 1 /\ (lost = 1 => acked)

(* Two keys are enough to get past "Press any key...", although the        *)
(* handler may take one of them (arch.c:16-20, uart.c:32-39, 68-77).       *)
KeysEndPrompt == (keys >= 2) ~> (pc \in {"idle", "wild"})
=============================================================================
