----------------------------- MODULE Bootloader -----------------------------
(***************************************************************************)
(* The boot flow and the DFU function in one chip: main() brings the       *)
(* device of DfuSystem up and runs it in its loop, a reset takes both with *)
(* it, and what jump_to_application enters is what the flash holds.        *)
(***************************************************************************)
EXTENDS DfuSystem

CONSTANT Code   \* what the application occupies of the bank

\* It begins with the vectors.
ASSUME CodeAssumption == Code \subseteq Addr /\ WordOf(0) \subseteq Code

\* A chip cannot help being reset.
ASSUME ResetAssumption == "powerCut" \in Events

VARIABLES pc, BKP0R, on, irq, VTOR, button, rescue

boot == <<pc, BKP0R, on, irq, VTOR, button, rescue>>

Firmware == Payload \X Nat

\* An image is complete when all of it is firmware that some host has sent.
image ==
  IF \A a \in Code : bank.cells[a] \in Firmware THEN "GOOD"
  ELSE IF \A a \in WordOf(0) : bank.cells[a] = Erased THEN "BLANK"
  ELSE "PARTIAL"

Boot == INSTANCE BootFlow

UpdateInit == Init /\ Boot!Init

----------------------------------------------------------------------------
\* The steps of main() that have nothing to do with the flash.
Flow ==
  /\ UNCHANGED vars
  /\ \/ Boot!program_startup \/ Boot!bootflag_get \/ Boot!bootflag_clear
     \/ Boot!jump_to_application \/ Boot!ReadButton \/ Boot!SetFlag
     \/ (pc # "flash_init" /\ Boot!EnterDfu)
     \/ Boot!PressOrRelease \/ Boot!Rescued

\* flash_init; the class driver starts with usb_init, and nothing looks at it
\* before the loop.
EnterDfuFlash ==
  /\ pc = "flash_init"
  /\ Start /\ UNCHANGED host
  /\ Boot!EnterDfu

\* tud_task and flash_process, called from the loop of main() alone.
Loop ==
  /\ pc = "loop"
  /\ \/ HostNext
     \/ MainLoop /\ UNCHANGED host
  /\ UNCHANGED boot

FlashHardware == Hardware /\ UNCHANGED host /\ UNCHANGED boot

\* The device with the chip out of reset.
ResetDevice == PowerCut /\ GiveUp(Unknown)

\* A mutant: the handler starts the program again without a reset.
ExceptionRestarts == UNCHANGED vars /\ Boot!Exception

Exception == ResetDevice /\ Boot!Exception

Resets ==
  ResetDevice /\ (Boot!ResetToApp \/ Boot!AppReset \/ Boot!PowerCycle \/ Boot!Rescue)

UpdateNext == Flow \/ EnterDfuFlash \/ Loop \/ FlashHardware \/ Exception \/ Resets

UpdateSpec == UpdateInit /\ [][UpdateNext]_<<vars, boot>>

----------------------------------------------------------------------------
(* Properties.                                                             *)

\* BootFlow's image is the bank: the firmware with its DFU function does nothing
\* BootFlow could not do.
ImplementsBootFlow == Boot!Spec

\* The flash is at rest wherever main() is not in its loop, and locked wherever
\* BootFlow says that it is in its reset state: the application finds it so.
FlashOnlyInLoop ==
  /\ "FLASH2" \in on <=> ~bank.LOCK
  /\ pc # "loop" => ~flash_is_busy /\ ~QW(bank) /\ ~WBNE(bank) /\ ~bank.PG /\ ~bank.SER

\* An update of which the host has every byte acknowledged is what runs, whatever
\* resets, power cuts and other requests come between.
AcknowledgedUpdateBoots ==
  pc \in Boot!Out /\ (\A a \in Code : host.view[a] \in Firmware) =>
    pc = "app" /\ \A a \in Code : bank.cells[a] = host.view[a]
=============================================================================
