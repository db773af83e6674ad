------------------------------ MODULE BootFlow ------------------------------
(***************************************************************************)
(* From reset to the application or to the DFU loop: program_startup       *)
(* (src/src/startup.c), main (src/src/main.c) and jump_to_application      *)
(* (src/src/boot_jump.c).                                                  *)
(*                                                                         *)
(* The bootloader starts the application by way of a reset: it leaves      *)
(* BOOT_MAGIC_GO_APP in a backup register, resets the chip, and the next   *)
(* run of main() finds the flag before it has touched any peripheral.      *)
(* Power may fail, and in the bootloader an unexpected exception may reset *)
(* the chip, between any two steps; the backup register outlives a reset,  *)
(* and a power cut if the backup supply does.                              *)
(***************************************************************************)
EXTENDS Naturals

VARIABLES
  pc,      \* the next step of main(), or who runs instead
  BKP0R,   \* RTC->BKP0R
  on,      \* the parts of the chip that are not in their reset state
  irq,     \* interrupts are enabled (PRIMASK is 0)
  VTOR,    \* whose vector table is in use
  image,   \* what the application area holds
  button,  \* the alarm key is held
  rescue   \* the user holds it until the DFU loop runs

vars == <<pc, BKP0R, on, irq, VTOR, image, button, rescue>>

\* main() in the order of its steps, then the two ways out of it.
MainSteps == {"startup", "get_flag", "clear_flag", "jump", "read_button", "set_flag",
              "start_pll", "shift_reg", "red_led", "flash_init", "usb_init", "irq_init",
              "loop"}
Out == {"app", "lockup"}

Parts == {"BACKUP", "GPIO", "PLL", "FLASH2", "USB", "SYSTICK"}

\* "BLANK" vectors are 0xFFFFFFFF; a "PARTIAL" image has vectors but not all
\* of its code.
Image == {"GOOD", "PARTIAL", "BLANK"}

TypeOK ==
  /\ pc \in MainSteps \cup Out
  /\ BKP0R \in {"GO_APP", "CLEAR"}
  /\ on \subseteq Parts
  /\ irq \in BOOLEAN
  /\ VTOR \in {"BOOT", "APP"}
  /\ image \in Image
  /\ button \in BOOLEAN
  /\ rescue \in BOOLEAN

Init ==
  /\ pc = "startup" /\ BKP0R = "CLEAR"
  /\ on = {} /\ irq = TRUE /\ VTOR = "BOOT"
  /\ image \in Image
  /\ button \in BOOLEAN
  /\ rescue = FALSE

\* NVIC_SystemReset, or any other reset of the chip.  Out of reset PRIMASK is 0:
\* it is program_startup that masks interrupts.
SystemReset ==
  /\ pc' = "startup"
  /\ on' = {} /\ irq' = TRUE /\ VTOR' = "BOOT"

world == <<image, button, rescue>>
chip == <<on, irq, VTOR>>

----------------------------------------------------------------------------
(* main().                                                                 *)

\* Every access to the flag first opens the backup domain.
backup_init == on \cup {"BACKUP"}
bootflag_set(v) == on' = backup_init /\ BKP0R' = v

Goto(from, to) == pc = from /\ pc' = to

program_startup ==
  /\ Goto("startup", "get_flag")
  /\ irq' = FALSE
  /\ UNCHANGED <<BKP0R, on, VTOR, world>>

\* A mutant: the flag is compared with another constant than the one set.
bootflag_get_unknown ==
  /\ Goto("get_flag", "read_button")
  /\ on' = backup_init
  /\ UNCHANGED <<BKP0R, irq, VTOR, world>>

bootflag_get ==
  /\ Goto("get_flag", IF BKP0R = "GO_APP" THEN "clear_flag" ELSE "read_button")
  /\ on' = backup_init
  /\ UNCHANGED <<BKP0R, irq, VTOR, world>>

\* A mutant: the flag is left set.
bootflag_kept ==
  /\ Goto("clear_flag", "jump")
  /\ UNCHANGED <<BKP0R, chip, world>>

bootflag_clear ==
  /\ Goto("clear_flag", "jump")
  /\ bootflag_set("CLEAR")
  /\ UNCHANGED <<irq, VTOR, world>>

\* The check of the vectors has an empty body: whatever is there is entered.
\* From "BLANK" the first fetch faults, and so does the fault handler, whose
\* vector is the application's: the core locks up.  No watchdog runs.
jump_to_application ==
  /\ Goto("jump", IF image = "GOOD" THEN "app" ELSE "lockup")
  /\ irq' = FALSE
  /\ on' = on \ {"SYSTICK"}
  /\ VTOR' = "APP"
  /\ UNCHANGED <<BKP0R, world>>

\* A mutant: the level of the key is taken the wrong way round.
ReadButtonInverted ==
  /\ Goto("read_button", IF button THEN "set_flag" ELSE "start_pll")
  /\ on' = on \cup {"GPIO"}
  /\ UNCHANGED <<BKP0R, irq, VTOR, world>>

\* gpio_init, then the key is sampled.
ReadButton ==
  /\ Goto("read_button", IF button THEN "start_pll" ELSE "set_flag")
  /\ on' = on \cup {"GPIO"}
  /\ UNCHANGED <<BKP0R, irq, VTOR, world>>

\* The write of the flag and the reset that follows are two steps.
SetFlag ==
  /\ pc = "set_flag" /\ BKP0R # "GO_APP"
  /\ bootflag_set("GO_APP")
  /\ UNCHANGED <<pc, irq, VTOR, world>>

\* A mutant: the jump is made without the reset.
JumpToApp ==
  /\ pc = "set_flag" /\ BKP0R = "GO_APP"
  /\ pc' = "clear_flag"
  /\ UNCHANGED <<BKP0R, chip, world>>

ResetToApp ==
  /\ pc = "set_flag" /\ BKP0R = "GO_APP"
  /\ SystemReset
  /\ UNCHANGED <<BKP0R, world>>

reboot_into_application == SetFlag \/ ResetToApp

\* The steps from the button to the loop (Firmware has start_pll in detail).
\* gpioShiftReg_modify, called for the red LED, ends in __enable_irq: interrupts are on before usb_init.
Engage(from, to, part, enable) ==
  /\ Goto(from, to)
  /\ on' = on \cup part
  /\ irq' = (irq \/ enable)
  /\ UNCHANGED <<BKP0R, VTOR, world>>

EnterDfu ==
  \/ Engage("start_pll", "shift_reg", {"PLL"}, FALSE)
  \/ Engage("shift_reg", "red_led", {}, FALSE)
  \/ Engage("red_led", "flash_init", {}, TRUE)
  \/ Engage("flash_init", "usb_init", {"FLASH2"}, FALSE)
  \/ Engage("usb_init", "irq_init", {"USB"}, FALSE)
  \/ Engage("irq_init", "loop", {"SYSTICK"}, TRUE)

Main ==
  \/ program_startup \/ bootflag_get \/ bootflag_clear \/ jump_to_application
  \/ ReadButton \/ reboot_into_application \/ EnterDfu

----------------------------------------------------------------------------
(* What happens around it.                                                 *)

\* The DFU loop erases and writes the area in parts; any part may be the one
\* that makes an image whole, or spoils it.
Update ==
  /\ pc = "loop"
  /\ image' \in Image
  /\ UNCHANGED <<pc, BKP0R, chip, button, rescue>>

\* A reset in the DFU loop cuts off what the flash is doing to the area.
CutImage == image' \in IF pc = "loop" THEN Image ELSE {image}

Default_Handler == SystemReset /\ CutImage /\ UNCHANGED <<BKP0R, button, rescue>>

\* A fault, or an interrupt nobody handles: every vector of the bootloader but
\* those of the tick and of USB is Default_Handler.
Exception ==
  /\ pc \in MainSteps
  /\ VTOR = "BOOT"
  /\ Default_Handler

\* The application resets the chip; it does not know the flag.
AppReset ==
  /\ pc = "app"
  /\ SystemReset
  /\ UNCHANGED <<BKP0R, world>>

PowerCycle ==
  /\ SystemReset
  /\ BKP0R' \in {BKP0R, "CLEAR"}
  /\ CutImage
  /\ UNCHANGED <<button, rescue>>

PressOrRelease ==
  /\ ~rescue
  /\ button' = ~button
  /\ UNCHANGED <<pc, BKP0R, chip, image, rescue>>

\* A radio that does not start: the user holds the key, and turns it off and on
\* until the DFU loop runs.
Rescue ==
  /\ pc = "lockup"
  /\ rescue' = TRUE /\ button' = TRUE
  /\ SystemReset
  /\ UNCHANGED <<BKP0R, image>>

Rescued ==
  /\ rescue /\ pc = "loop"
  /\ rescue' = FALSE
  /\ UNCHANGED <<pc, BKP0R, chip, image, button>>

\* What leaves the boot to itself: no power cut, exception or reset by the
\* application.
Calm == Main \/ Update \/ PressOrRelease \/ Rescue \/ Rescued \/ UNCHANGED vars

Next ==
  \/ Main
  \/ Update \/ Exception \/ AppReset \/ PowerCycle
  \/ PressOrRelease \/ Rescue \/ Rescued

Spec == Init /\ [][Next]_vars

----------------------------------------------------------------------------
(* Properties.                                                             *)

\* "peripherals in reset state" (main.c:60) where the application starts:
\* whatever path led there, the bootloader leaves it a chip out of reset, the
\* backup domain's access bits excepted, with interrupts masked and the
\* application's vectors.
JumpIsClean == pc \in Out => on \subseteq {"BACKUP"} /\ ~irq /\ VTOR = "APP"

\* How far a boot is from its end: with the flag clear it leads to the loop or to
\* the setting of the flag, with the flag set to the application.
StepsLeft ==
  CASE pc = "startup"     -> IF BKP0R = "GO_APP" THEN 5 ELSE 11
    [] pc = "get_flag"    -> IF BKP0R = "GO_APP" THEN 4 ELSE 10
    [] pc = "clear_flag"  -> 3
    [] pc = "jump"        -> 2
    [] pc = "read_button" -> 9
    [] pc = "set_flag"    -> IF BKP0R = "GO_APP" THEN 7 ELSE 8
    [] pc = "start_pll"   -> 8
    [] pc = "shift_reg"   -> 7
    [] pc = "red_led"     -> 6
    [] pc = "flash_init"  -> 5
    [] pc = "usb_init"    -> 4
    [] pc = "irq_init"    -> 3
    [] OTHER              -> 0

\* The bootloader resets itself at most once on the way to the application, and
\* nobody at the keys makes it start over: every step of main() brings the boot
\* nearer to its end, the reset it orders itself included.
NoResetLoop == [][Main => StepsLeft' \in 0 .. StepsLeft - 1]_vars

\* The flag is spent before anything is entered: it is set only on the way from
\* the button to the jump, so that no reset of a running application, of a
\* lockup or of the DFU loop passes the button by.
FlagInTransit == BKP0R = "GO_APP" => pc \in {"set_flag", "startup", "get_flag", "clear_flag"}
==============================================================================
