----------------------------- MODULE MCShiftReg -----------------------------
(* ShiftReg with two registers of three bits.                                *)
EXTENDS ShiftReg

PinmapPins == Pin          \* what include/pinmap.h names exists
GuardedPins == 0 .. N      \* what the guard of gpioShiftReg_modify lets pass
=============================================================================
