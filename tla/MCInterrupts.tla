---------------------------- MODULE MCInterrupts ----------------------------
(***************************************************************************)
(* The timer (line 0), the serial port (4, after the cascade) and the      *)
(* mouse (12, on the slave) have no handler; the card is on one of the two *)
(* lines the BIOS gives PCI devices.  Of the exceptions only 6 pushes no   *)
(* error code.                                                             *)
(***************************************************************************)
EXTENDS Interrupts

MCDeviceLines == {0, 4, 12}
MCNicLines == {9, 11}
MCExceptions == {6, 13, 14}
=============================================================================
