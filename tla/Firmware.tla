------------------------------ MODULE Firmware ------------------------------
(***************************************************************************)
(* The bootloader outside its DFU function: the boot flow with the clock   *)
(* tree it brings up step by step and the small tasks of its main loop.    *)
(* Every step is a step of BootFlow or leaves its variables alone.         *)
(***************************************************************************)
EXTENDS BootFlow, ClockTree, LoopTasks

CONSTANT TICK   \* cycles of the core per tick: SysTick_Config(399999)

ASSUME TickAssumption == TICK \in Nat

firmware == <<vars, clk, crystal, tasks>>

FirmwareInit ==
  /\ Init
  /\ clk = ResetClk /\ crystal \in BOOLEAN
  /\ g_tickCount = ZeroTick /\ led = ZeroLed /\ cdc = ZeroCdc

----------------------------------------------------------------------------
\* A reset takes the registers with it; the variables of the tasks get their
\* initial values when program_startup next sets up .data and .bss.
Boot(A) ==
  /\ A
  /\ IF pc = "start_pll" /\ pc' = "shift_reg" THEN SelectUsbClock
     ELSE clk' = IF pc' = "startup" THEN ResetClk ELSE clk
  /\ IF pc = "startup" /\ pc' = "get_flag"
     THEN g_tickCount' = ZeroTick /\ led' = ZeroLed /\ cdc' = ZeroCdc
     ELSE UNCHANGED tasks
  /\ UNCHANGED crystal

\* A mutant: the PLLs are engaged before the key is read.
StartPllEarly ==
  /\ pc \in {"read_button", "start_pll"}
  /\ start_pll
  /\ UNCHANGED <<vars, crystal, tasks>>

StartPll ==
  /\ pc = "start_pll"
  /\ start_pll
  /\ UNCHANGED <<vars, crystal, tasks>>

Processor == Boot(Main) \/ StartPll

Hardware == ClockHardware /\ UNCHANGED <<vars, crystal, tasks>>

Tick ==
  /\ "SYSTICK" \in on /\ irq /\ VTOR = "BOOT"
  /\ SysTick_Handler
  /\ UNCHANGED <<vars, clk, crystal>>

\* The level of the key's pin, low while it is held.
button_read == ~button

\* One of the tasks of a turn of the main loop, or the terminal.
Loop ==
  /\ pc = "loop"
  /\ \/ led_blinking_task
     \/ cdc_task(button_read)
     \/ HostSends \/ HostReads
  /\ UNCHANGED <<vars, clk, crystal>>

FirmwareNext == Boot(Next) \/ StartPll \/ Hardware \/ Tick \/ Loop

FirmwareSpec == FirmwareInit /\ [][FirmwareNext]_firmware

\* The processor runs, and the hardware follows; nothing but the user brings it
\* out of a lockup.
FairSpec ==
  /\ FirmwareSpec
  /\ WF_firmware(Processor) /\ WF_firmware(Hardware)
  /\ WF_firmware(Boot(Rescue))

----------------------------------------------------------------------------
(* Properties.                                                             *)

FirmwareTypeOK == TypeOK /\ LoopTypeOK

\* "CPU is on HSI, PLLs are in reset state" (main.c:60): until main() decides
\* for DFU no clock register has been touched, and the application, by whatever
\* path it is entered, finds them so.
ClockUntouched == pc \in MainSteps \cup Out /\ "PLL" \notin on /\ pc # "start_pll" => clk = ResetClk

\* Each peripheral is switched on only with its clock in place: USB at exactly
\* 48 MHz, the tick at 1 ms ("1ms tick", init.c:31), within a cycle.
PeripheralClocks ==
  /\ "USB" \in on => UsbClock = 48
  /\ "SYSTICK" \in on => CpuClock * 1000 - TICK \in -1 .. 1

\* A boot does not go round in resets and does not get stuck: unless power
\* fails or an exception occurs for ever, it ends in the application, a lockup
\* or the DFU loop.  The one wait that may last for ever is for a crystal that
\* is dead, and it does not lie on the way to the application.
BootEnds ==
  <>[][Calm]_vars =>
    (pc = "startup" ~> \/ pc \in Out \cup {"loop"}
                       \/ ~crystal /\ clk.at = 3 /\ pc = "start_pll")

\* A radio with a broken image, and a crystal, can always be brought back to the
\* DFU loop.
LockupIsRecoverable == <>[][Calm]_vars => (pc = "lockup" /\ crystal ~> pc = "loop")
=============================================================================
