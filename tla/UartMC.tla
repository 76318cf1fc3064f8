------------------------------- MODULE UartMC -------------------------------
(***************************************************************************)
(* The texts kmain prints, cut down to lengths below, at and above the     *)
(* transmit FIFO.                                                          *)
(***************************************************************************)
EXTENDS Uart

MCText == [banner |-> 1, prompt |-> TXCAP + 1, key |-> 1, hello |-> TXCAP]
=============================================================================
