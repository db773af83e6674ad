----------------------------- MODULE MCGpioPort -----------------------------
(* GpioPort with one pin in each half.                                       *)
EXTENDS GpioPort

AllModes == Mode
\* Function 10, which init.c asks for, and one with other bits.
UsbAndAnother == {{1, 3}, {0, 1, 2}}

WithoutOpenDrainPu == Mode \ {"OPEN_DRAIN_PU"}
=============================================================================
