----------------------------- MODULE MCFirmware -----------------------------
(* Firmware with a tick of three bits, beats of three ticks and short FIFOs. *)
EXTENDS Firmware
=============================================================================
