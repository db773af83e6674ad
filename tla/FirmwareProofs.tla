--------------------------- MODULE FirmwareProofs ---------------------------
(***************************************************************************)
(* The boot flow: the flag is only ever set in transit, and the            *)
(* application is entered on a chip out of reset.  The firmware outside    *)
(* its DFU function implements it; its clocks are what each peripheral     *)
(* needs; its LED keeps time across the wrap of the tick.                  *)
(***************************************************************************)
EXTENDS Firmware, TLAPS

----------------------------------------------------------------------------
(* BootFlow.                                                               *)

\* Until main() has looked at the button nothing but the backup domain is out
\* of its reset state, and interrupts are masked from program_startup on.
BeforeButton == {"startup", "get_flag", "clear_flag", "jump", "read_button"}

Untouched ==
  pc \in BeforeButton =>
    /\ on \subseteq {"BACKUP"} /\ VTOR = "BOOT"
    /\ pc # "startup" => ~irq

BootInv == TypeOK /\ FlagInTransit /\ Untouched /\ JumpIsClean

\* Every variable of the boot flow keeps its type.
THEOREM BootTypeCorrect == Spec => []TypeOK
<1>1. Init => TypeOK
  BY DEF Init, TypeOK, MainSteps, Image, Parts
<1>2. TypeOK /\ [Next]_vars => TypeOK'
  <2> SUFFICES ASSUME TypeOK, [Next]_vars PROVE TypeOK'
    OBVIOUS
  <2> USE DEF TypeOK, MainSteps, Out, Image, Parts
  <2>1. CASE program_startup
    BY <2>1 DEF program_startup, Goto, world
  <2>2. CASE bootflag_get
    BY <2>2 DEF bootflag_get, Goto, world, backup_init
  <2>3. CASE bootflag_clear
    BY <2>3 DEF bootflag_clear, bootflag_set, Goto, world, backup_init
  <2>4. CASE jump_to_application
    BY <2>4 DEF jump_to_application, Goto, world
  <2>5. CASE ReadButton
    BY <2>5 DEF ReadButton, Goto, world
  <2>6. CASE SetFlag
    BY <2>6 DEF SetFlag, bootflag_set, world, backup_init
  <2>7. CASE ResetToApp
    BY <2>7 DEF ResetToApp, SystemReset, world
  <2>8. CASE EnterDfu
    BY <2>8 DEF EnterDfu, Engage, Goto, world
  <2>9. CASE Update
    BY <2>9 DEF Update, chip
  <2>10. CASE Exception \/ AppReset \/ PowerCycle
    BY <2>10 DEF Exception, Default_Handler, AppReset, PowerCycle, CutImage, SystemReset, world
  <2>11. CASE PressOrRelease
    BY <2>11 DEF PressOrRelease, chip
  <2>12. CASE Rescue \/ Rescued
    BY <2>12 DEF Rescue, Rescued, SystemReset, chip
  <2>13. CASE UNCHANGED vars
    BY <2>13 DEF vars
  <2> QED
    BY <2>1, <2>2, <2>3, <2>4, <2>5, <2>6, <2>7, <2>8, <2>9, <2>10, <2>11, <2>12, <2>13
    DEF Next, Main, reboot_into_application
<1> QED
  BY <1>1, <1>2, PTL DEF Spec

\* The inductive invariant: what main() has touched so far, and where the flag
\* can be set.
LEMMA BootInvInductive == Spec => []BootInv
<1>1. Init => BootInv
  BY DEF Init, BootInv, TypeOK, MainSteps, Out, Image, Parts, FlagInTransit, Untouched,
         BeforeButton, JumpIsClean
<1>2. BootInv /\ TypeOK' /\ [Next]_vars => BootInv'
  <2> SUFFICES ASSUME BootInv, TypeOK', [Next]_vars
               PROVE FlagInTransit' /\ Untouched' /\ JumpIsClean'
    BY DEF BootInv
  <2> USE DEF BootInv, TypeOK, MainSteps, Out, Image, Parts, FlagInTransit, Untouched,
              BeforeButton, JumpIsClean
  <2>1. CASE program_startup
    BY <2>1 DEF program_startup, Goto, world
  <2>2. CASE bootflag_get
    BY <2>2 DEF bootflag_get, Goto, world, backup_init
  <2>3. CASE bootflag_clear
    BY <2>3 DEF bootflag_clear, bootflag_set, Goto, world, backup_init
  <2>4. CASE jump_to_application
    BY <2>4 DEF jump_to_application, Goto, world
  <2>5. CASE ReadButton
    BY <2>5 DEF ReadButton, Goto, world
  <2>6. CASE SetFlag
    BY <2>6 DEF SetFlag, bootflag_set, world, backup_init
  <2>7. CASE ResetToApp
    BY <2>7 DEF ResetToApp, SystemReset, world
  <2>8. CASE EnterDfu
    BY <2>8 DEF EnterDfu, Engage, Goto, world
  <2>9. CASE Update
    BY <2>9 DEF Update, chip
  <2>10. CASE Exception \/ AppReset \/ PowerCycle
    BY <2>10 DEF Exception, Default_Handler, AppReset, PowerCycle, CutImage, SystemReset, world
  <2>11. CASE PressOrRelease
    BY <2>11 DEF PressOrRelease, chip
  <2>12. CASE Rescue \/ Rescued
    BY <2>12 DEF Rescue, Rescued, SystemReset, chip
  <2>13. CASE UNCHANGED vars
    BY <2>13 DEF vars
  <2> QED
    BY <2>1, <2>2, <2>3, <2>4, <2>5, <2>6, <2>7, <2>8, <2>9, <2>10, <2>11, <2>12, <2>13
    DEF Next, Main, reboot_into_application
<1> QED
  BY <1>1, <1>2, BootTypeCorrect, PTL DEF Spec

\* The boot flag is set only between the button and the jump.
THEOREM FlagOnlyInTransit == Spec => []FlagInTransit
<1>1. BootInv => FlagInTransit
  BY DEF BootInv
<1> QED
  BY <1>1, BootInvInductive, PTL

\* Whatever the bootloader jumps to finds the chip as a reset leaves it.
THEOREM ApplicationEnteredClean == Spec => []JumpIsClean
<1>1. BootInv => JumpIsClean
  BY DEF BootInv
<1> QED
  BY <1>1, BootInvInductive, PTL

\* Every step of main() brings the boot nearer to its end, the reset that leads to
\* the application included: with the flag spent on the way nobody goes round in
\* resets.
THEOREM BootNeverLoops == Spec => NoResetLoop
<1>1. BootInv => [Main => StepsLeft' \in 0 .. StepsLeft - 1]_vars
  <2> SUFFICES ASSUME BootInv, Main PROVE StepsLeft' \in 0 .. StepsLeft - 1
    OBVIOUS
  <2> USE DEF StepsLeft
  <2>1. CASE program_startup
    BY <2>1 DEF program_startup, Goto
  <2>2. CASE bootflag_get
    BY <2>2 DEF bootflag_get, Goto
  <2>3. CASE bootflag_clear
    BY <2>3 DEF bootflag_clear, bootflag_set, Goto
  <2>4. CASE jump_to_application
    BY <2>4 DEF jump_to_application, Goto
  <2>5. CASE ReadButton
    BY <2>5 DEF ReadButton, Goto, BootInv, FlagInTransit
  <2>6. CASE SetFlag
    BY <2>6 DEF SetFlag, bootflag_set
  <2>7. CASE ResetToApp
    BY <2>7 DEF ResetToApp, SystemReset
  <2>8. CASE EnterDfu
    BY <2>8 DEF EnterDfu, Engage, Goto
  <2> QED
    BY <2>1, <2>2, <2>3, <2>4, <2>5, <2>6, <2>7, <2>8 DEF Main, reboot_into_application
<1> QED
  BY <1>1, BootInvInductive, PTL DEF NoResetLoop

----------------------------------------------------------------------------
(* Firmware implements it.                                                 *)

\* Every step of the firmware is a step of the boot flow or leaves it alone.
THEOREM FirmwareImplementsBoot == FirmwareSpec => Spec
<1>1. FirmwareInit => Init
  BY DEF FirmwareInit
<1>2. [FirmwareNext]_firmware => [Next]_vars
  BY DEF FirmwareNext, firmware, Boot, StartPll, Hardware, Tick, Loop
<1> QED
  BY <1>1, <1>2, PTL DEF FirmwareSpec, Spec

\* In the firmware, too, the boot flag is set only between button and jump.
THEOREM FirmwareFlagInTransit == FirmwareSpec => []FlagInTransit
  BY FirmwareImplementsBoot, FlagOnlyInTransit, PTL

\* In the firmware, too, no boot goes round in resets.
THEOREM FirmwareNeverLoops == FirmwareSpec => NoResetLoop
  BY FirmwareImplementsBoot, BootNeverLoops, PTL

\* In the firmware, too, the application is entered on a chip out of reset.
THEOREM FirmwareJumpIsClean == FirmwareSpec => []JumpIsClean
  BY FirmwareImplementsBoot, ApplicationEnteredClean, PTL

----------------------------------------------------------------------------
(* The tasks of the loop.                                                  *)

\* A remainder of a number that is less than one turn away.
LEMMA TurnDown == \A x \in -(WRAP - 1) .. WRAP - 1 : x % WRAP = IF x >= 0 THEN x ELSE x + WRAP
  BY LoopAssumption

\* The same of a number that may be one turn too large.
LEMMA TurnUp == \A x \in 0 .. 2 * WRAP - 2 : x % WRAP = IF x < WRAP THEN x ELSE x - WRAP
  BY LoopAssumption

\* What start_ms and the counter are to each other: their difference, modulo the
\* wrap, is the true time since the last beat.
LoopInv == LoopTypeOK /\ (g_tickCount - led.start_ms) % WRAP = led.age

\* The tick, the LED task and the console keep their types and the LED its time.
LEMMA LoopInvInductive == FirmwareSpec => []LoopInv
<1> USE DEF LoopTypeOK
<1>1. FirmwareInit => LoopInv
  BY LoopAssumption, TurnDown DEF FirmwareInit, ZeroTick, ZeroLed, ZeroCdc, LoopInv
<1>2. LoopInv /\ [FirmwareNext]_firmware => LoopInv'
  <2> SUFFICES ASSUME LoopInv, [FirmwareNext]_firmware PROVE LoopInv'
    OBVIOUS
  <2> USE DEF LoopInv
  <2>1. CASE UNCHANGED tasks
    BY <2>1 DEF tasks
  <2>2. CASE g_tickCount' = ZeroTick /\ led' = ZeroLed /\ cdc' = ZeroCdc
    BY <2>2, LoopAssumption, TurnDown DEF ZeroTick, ZeroLed, ZeroCdc
  <2>3. CASE SysTick_Handler
    <3> USE <2>3, LoopAssumption DEF SysTick_Handler
    <3>1. g_tickCount + 1 \in 0 .. 2 * WRAP - 2 /\ g_tickCount' = (g_tickCount + 1) % WRAP
      OBVIOUS
    <3>2. g_tickCount' = IF g_tickCount + 1 < WRAP THEN g_tickCount + 1 ELSE g_tickCount + 1 - WRAP
      BY <3>1, TurnUp
    <3>3. /\ led.start_ms \in 0 .. WRAP - 1 /\ led'.start_ms = led.start_ms
          /\ led.age \in 0 .. WRAP - 2 /\ led'.age = led.age + 1
      OBVIOUS
    <3>4. led.age = IF g_tickCount - led.start_ms >= 0 THEN g_tickCount - led.start_ms
                    ELSE g_tickCount - led.start_ms + WRAP
      BY <3>3, TurnDown
    <3>5. (g_tickCount' - led'.start_ms) % WRAP = led'.age
      BY <3>2, <3>3, <3>4, TurnDown
    <3>6. LoopTypeOK'
      BY <3>2, <3>3
    <3> QED
      BY <3>5, <3>6
  <2>4. CASE led_blinking_task
    <3> USE <2>4, LoopAssumption DEF led_blinking_task
    <3>1. led.age \in INTERVAL .. WRAP - 1
      BY DEF Due
    <3>2. led.start_ms + INTERVAL \in 0 .. 2 * WRAP - 2
      OBVIOUS
    <3>3. led'.start_ms = IF led.start_ms + INTERVAL < WRAP THEN led.start_ms + INTERVAL
                          ELSE led.start_ms + INTERVAL - WRAP
      BY <3>2, TurnUp
    <3>4. led'.age = led.age - INTERVAL /\ g_tickCount' = g_tickCount
      OBVIOUS
    <3>5. led.age = IF g_tickCount - led.start_ms >= 0 THEN g_tickCount - led.start_ms
                    ELSE g_tickCount - led.start_ms + WRAP
      BY TurnDown
    <3>6. /\ g_tickCount' - led'.start_ms \in -(WRAP - 1) .. WRAP - 1
          /\ led'.age = IF g_tickCount' - led'.start_ms >= 0 THEN g_tickCount' - led'.start_ms
                        ELSE g_tickCount' - led'.start_ms + WRAP
      <4> HIDE <2>4
      <4> QED
        BY <3>1, <3>3, <3>4, <3>5
    <3>7. LoopTypeOK'
      BY <3>1, <3>3, <3>4
    <3>8. (g_tickCount' - led'.start_ms) % WRAP = led'.age
      BY <3>6, TurnDown
    <3> QED
      BY <3>7, <3>8
  <2>5. ASSUME NEW btn \in BOOLEAN, cdc_task(btn) PROVE LoopInv'
    BY <2>5, LoopAssumption DEF cdc_task, Accepted, printUnsignedInt, Least
  <2>6. CASE HostSends \/ HostReads
    <3>1. UNCHANGED <<g_tickCount, led>>
      BY <2>6 DEF HostSends, HostReads
    <3>2. cdc' \in [rx : 0 .. FIFO, tx : 0 .. FIFO, btn_prev : BOOLEAN]
      BY <2>6, LoopAssumption DEF HostSends, HostReads
    <3> QED
      BY <3>1, <3>2
  <2> QED
    BY <2>1, <2>2, <2>3, <2>4, <2>5, <2>6
    DEF FirmwareNext, firmware, Boot, StartPll, Hardware, Tick, Loop, button_read
<1> QED
  BY <1>1, <1>2, PTL DEF FirmwareSpec

\* A beat is due exactly when an interval of true time has gone by, whatever the
\* width of the counter, the interval and the delays of the loop.
THEOREM BeatsAlwaysOnTime == FirmwareSpec => []BeatsOnTime
<1>1. LoopInv => BeatsOnTime
  BY DEF LoopInv, BeatsOnTime, Due
<1> QED
  BY <1>1, LoopInvInductive, PTL

\* All variables of the firmware keep their types.
THEOREM FirmwareTypeCorrect == FirmwareSpec => []FirmwareTypeOK
<1>1. LoopInv /\ TypeOK => FirmwareTypeOK
  BY DEF LoopInv, FirmwareTypeOK
<1> QED
  BY <1>1, LoopInvInductive, FirmwareImplementsBoot, BootTypeCorrect, PTL

----------------------------------------------------------------------------
(* The clock tree.                                                         *)

Clocks == {"HSI", "HSE", "PLL1", "PLL3"}

Registers ==
  [at : 0 .. 18,
   scuen : BOOLEAN, vos : {1, 3}, scale : {1, 3},
   CR : SUBSET Clocks, rdy : SUBSET Clocks,
   PLLCKSELR : SUBSET (0 .. 31), PLLCFGR : SUBSET (0 .. 31),
   DIVR : [PLL -> [N : Nat, P : Nat, Q : Nat, R : Nat]],
   ahb : {1, 2}, apb : [1 .. 4 -> {1, 2}], waits : {2, 7},
   sw : {"HSI", "PLL1"}, sws : {"HSI", "PLL1"},
   usb : {"OFF", "PLL3Q"}]

IsClk == clk \in Registers

\* What each register holds, and what the hardware has reached, after the writes
\* of start_pll made so far.
Supply ==
  /\ clk.at >= 2 => clk.vos = 1
  /\ clk.at >= 3 => clk.scale = 1

Selected ==
  clk.PLLCKSELR = IF clk.at < 4 THEN {9, 17, 25}
                  ELSE IF clk.at < 13 THEN {1, 4, 6, 17, 25} ELSE {1, 4, 6, 17, 20, 22}

Configured ==
  clk.PLLCFGR = IF clk.at < 6 THEN 16 .. 24
                ELSE IF clk.at < 16 THEN {3} \cup 16 .. 24 ELSE {3, 11} \cup 16 .. 24

SwitchedOn ==
  /\ clk.CR = {"HSI"} \cup (IF clk.at >= 3 THEN {"HSE"} ELSE {})
                \cup (IF clk.at >= 7 THEN {"PLL1"} ELSE {}) \cup (IF clk.at >= 17 THEN {"PLL3"} ELSE {})
  /\ "HSI" \in clk.rdy
  /\ clk.at >= 4 => "HSE" \in clk.rdy
  /\ clk.at >= 8 => "PLL1" \in clk.rdy
  /\ clk.at = 18 => "PLL3" \in clk.rdy

Multiplied ==
  /\ clk.at >= 5 => clk.DIVR["PLL1"] = [N |-> 159, P |-> 1, Q |-> 7, R |-> 1]
  /\ clk.at >= 15 => clk.DIVR["PLL3"] = [N |-> 47, P |-> 1, Q |-> 4, R |-> 1]

Divided ==
  /\ clk.at >= 8 => clk.ahb = 2 /\ clk.apb[3] = 2
  /\ clk.at >= 9 => clk.apb[1] = 2 /\ clk.apb[2] = 2
  /\ clk.at >= 10 => clk.apb[4] = 2
  /\ clk.waits = IF clk.at >= 11 THEN 2 ELSE 7

Switched ==
  /\ clk.sw = IF clk.at >= 12 THEN "PLL1" ELSE "HSI"
  /\ clk.sws = "PLL1" => clk.at >= 12
  /\ clk.at >= 13 => clk.sws = "PLL1"
  /\ clk.usb = IF clk.at = 18 THEN "PLL3Q" ELSE "OFF"

ClkInv ==
  IsClk /\ Supply /\ Selected /\ Configured /\ SwitchedOn /\ Multiplied /\ Divided /\ Switched

\* The reset state of the clock tree satisfies it.
LEMMA ResetClkInv == clk = ResetClk => ClkInv
  BY DEF ResetClk, PLL, ClkInv, IsClk, Registers, Clocks, Supply, Selected, Configured, SwitchedOn,
         Multiplied, Divided, Switched

\* PLLCKSELR with the source and the first divider written over its reset value.
LEMMA Pll1Bits ==
  ({9, 17, 25} \ (Mask("PLL1") \cup PLLSRC)) \cup Five("PLL1") \cup {1} = {1, 4, 6, 17, 25}
  BY DEF Mask, PLLSRC, Five, DIVM

\* The second divider written over that, the source and the first divider read
\* back.
LEMMA Pll3Bits ==
  /\ ({1, 4, 6, 17, 25} \ Mask("PLL3")) \cup Five("PLL3") = {1, 4, 6, 17, 20, 22}
  /\ {1, 4, 6, 17, 20, 22} \cup Five("PLL3") = {1, 4, 6, 17, 20, 22}
  BY DEF Mask, Five, DIVM

\* PLLCFGR after each of its two writes: the output bits are set already.
LEMMA ConfigBits ==
  /\ 16 .. 24 \cup {RGE["PLL1"] + 1, DIVP1EN, DIVQ1EN} = {3} \cup 16 .. 24
  /\ {3} \cup 16 .. 24 \cup {RGE["PLL3"] + 1, DIVQ3EN} = {3, 11} \cup 16 .. 24
  BY DEF RGE, DIVP1EN, DIVQ1EN, DIVQ3EN

\* A write keeps the registers within their types, and is one more.
LEMMA Written ==
  ASSUME NEW n \in 0 .. 18, NEW regs \in Registers, Write(n, regs)
  PROVE  IsClk' /\ clk'.at = clk.at + 1
  BY DEF Write, IsClk, Registers

\* Every write of start_pll and every reaction of the hardware keeps their types
\* and takes no write back.
LEMMA RegistersTyped ==
  ASSUME IsClk, start_pll \/ SelectUsbClock \/ ClockHardware
  PROVE  IsClk' /\ clk'.at \in {clk.at, clk.at + 1}
<1> USE DEF Clocks
<1>1. CASE ClearScuen
  <2>1. [clk EXCEPT !.scuen = FALSE] \in Registers
    BY DEF IsClk, Registers
  <2> QED
    BY <1>1, <2>1, Written DEF ClearScuen
<1>2. CASE SetScale
  <2>1. [clk EXCEPT !.vos = 1] \in Registers
    BY DEF IsClk, Registers
  <2> QED
    BY <1>2, <2>1, Written DEF SetScale
<1>3. CASE StartHse
  <2>1. [clk EXCEPT !.CR = @ \cup {"HSE"}] \in Registers
    BY DEF IsClk, Registers
  <2> QED
    BY <1>3, <2>1, Written DEF StartHse
<1>4. CASE SelectHse
  <2>1. [clk EXCEPT !.PLLCKSELR = (@ \ (Mask("PLL1") \cup PLLSRC)) \cup Five("PLL1") \cup {1}] \in Registers
    BY DEF IsClk, Registers, Mask, PLLSRC, Five, DIVM
  <2> QED
    BY <1>4, <2>1, Written DEF SelectHse
<1>5. CASE SetRatioPll1
  <2>1. [clk EXCEPT !.DIVR["PLL1"] = [N |-> 160 - 1, P |-> 2 - 1, Q |-> 8 - 1, R |-> 2 - 1]] \in Registers
    BY DEF IsClk, Registers, PLL
  <2> QED
    BY <1>5, <2>1, Written DEF SetRatioPll1
<1>6. CASE ConfigurePll1
  <2>1. [clk EXCEPT !.PLLCFGR = @ \cup {RGE["PLL1"] + 1, DIVP1EN, DIVQ1EN}] \in Registers
    BY DEF IsClk, Registers, RGE, DIVP1EN, DIVQ1EN, DIVQ3EN
  <2> QED
    BY <1>6, <2>1, Written DEF ConfigurePll1
<1>7. CASE StartPll1
  <2>1. [clk EXCEPT !.CR = @ \cup {"PLL1"}] \in Registers
    BY DEF IsClk, Registers
  <2> QED
    BY <1>7, <2>1, Written DEF StartPll1
<1>8. CASE DivideD1
  <2>1. [clk EXCEPT !.ahb = 2, !.apb[3] = 2] \in Registers
    BY DEF IsClk, Registers
  <2> QED
    BY <1>8, <2>1, Written DEF DivideD1
<1>9. CASE DivideD2
  <2>1. [clk EXCEPT !.apb[1] = 2, !.apb[2] = 2] \in Registers
    BY DEF IsClk, Registers
  <2> QED
    BY <1>9, <2>1, Written DEF DivideD2
<1>10. CASE DivideD3
  <2>1. [clk EXCEPT !.apb[4] = 2] \in Registers
    BY DEF IsClk, Registers
  <2> QED
    BY <1>10, <2>1, Written DEF DivideD3
<1>11. CASE SetWaitStates
  <2>1. [clk EXCEPT !.waits = 2] \in Registers
    BY DEF IsClk, Registers
  <2> QED
    BY <1>11, <2>1, Written DEF SetWaitStates
<1>12. CASE SwitchToPll1
  <2>1. [clk EXCEPT !.sw = "PLL1"] \in Registers
    BY DEF IsClk, Registers
  <2> QED
    BY <1>12, <2>1, Written DEF SwitchToPll1
<1>13. CASE DividePll3
  <2>1. [clk EXCEPT !.PLLCKSELR = (@ \ Mask("PLL3")) \cup Five("PLL3")] \in Registers
    BY DEF IsClk, Registers, Mask, PLLSRC, Five, DIVM
  <2> QED
    BY <1>13, <2>1, Written DEF DividePll3
<1>14. CASE DividePll3Again
  <2>1. [clk EXCEPT !.PLLCKSELR = @ \cup Five("PLL3")] \in Registers
    BY DEF IsClk, Registers, Mask, PLLSRC, Five, DIVM
  <2> QED
    BY <1>14, <2>1, Written DEF DividePll3Again
<1>15. CASE SetRatioPll3
  <2>1. [clk EXCEPT !.DIVR["PLL3"] = [N |-> 48 - 1, P |-> 2 - 1, Q |-> 5 - 1, R |-> 2 - 1]] \in Registers
    BY DEF IsClk, Registers, PLL
  <2> QED
    BY <1>15, <2>1, Written DEF SetRatioPll3
<1>16. CASE ConfigurePll3
  <2>1. [clk EXCEPT !.PLLCFGR = @ \cup {RGE["PLL3"] + 1, DIVQ3EN}] \in Registers
    BY DEF IsClk, Registers, RGE, DIVP1EN, DIVQ1EN, DIVQ3EN
  <2> QED
    BY <1>16, <2>1, Written DEF ConfigurePll3
<1>17. CASE StartPll3
  <2>1. [clk EXCEPT !.CR = @ \cup {"PLL3"}] \in Registers
    BY DEF IsClk, Registers
  <2> QED
    BY <1>17, <2>1, Written DEF StartPll3
<1>18. CASE SelectUsbClock
  <2>1. [clk EXCEPT !.usb = "PLL3Q"] \in Registers
    BY DEF IsClk, Registers
  <2> QED
    BY <1>18, <2>1, Written DEF SelectUsbClock
<1>19. CASE ScaleReached
  BY <1>19 DEF ScaleReached, IsClk, Registers, PLL
<1>20. CASE HseStarts
  BY <1>20 DEF HseStarts, IsClk, Registers, PLL
<1>21. CASE PllLocks
  BY <1>21 DEF PllLocks, PLL, IsClk, Registers
<1>22. CASE ClockSwitches
  BY <1>22 DEF ClockSwitches, Ready, IsClk, Registers, PLL
<1> QED
  BY <1>1, <1>2, <1>3, <1>4, <1>5, <1>6, <1>7, <1>8, <1>9, <1>10, <1>11, <1>12,
     <1>13, <1>14, <1>15, <1>16, <1>17, <1>18, <1>19, <1>20, <1>21, <1>22
  DEF start_pll, ClockHardware

\* Every write of start_pll and every reaction of the hardware keeps it.
LEMMA ClkInvStep ==
  ASSUME ClkInv, start_pll \/ SelectUsbClock \/ ClockHardware
  PROVE  ClkInv'
<1> USE DEF Write, Clocks
<1>0. IsClk /\ Supply /\ Selected /\ Configured /\ SwitchedOn /\ Multiplied /\ Divided /\ Switched
  BY DEF ClkInv
<1>a. IsClk'
  BY <1>0, RegistersTyped
<1>1. CASE ClearScuen
  <2>1. Selected' /\ Configured'
    BY <1>0, <1>1 DEF ClearScuen, IsClk, Registers, Selected, Configured
  <2>2. Supply' /\ SwitchedOn'
    BY <1>0, <1>1 DEF ClearScuen, IsClk, Registers, Supply, SwitchedOn
  <2>3. Multiplied' /\ Divided' /\ Switched'
    BY <1>0, <1>1
    DEF ClearScuen, IsClk, Registers, SwitchedOn, Multiplied, Divided, Switched, PLL
  <2> QED
    BY <1>a, <2>1, <2>2, <2>3 DEF ClkInv
<1>2. CASE SetScale
  <2>1. Selected' /\ Configured'
    BY <1>0, <1>2 DEF SetScale, IsClk, Registers, Selected, Configured
  <2>2. Supply' /\ SwitchedOn'
    BY <1>0, <1>2 DEF SetScale, IsClk, Registers, Supply, SwitchedOn
  <2>3. Multiplied' /\ Divided' /\ Switched'
    BY <1>0, <1>2 DEF SetScale, IsClk, Registers, SwitchedOn, Multiplied, Divided, Switched, PLL
  <2> QED
    BY <1>a, <2>1, <2>2, <2>3 DEF ClkInv
<1>3. CASE StartHse
  <2>1. Selected' /\ Configured'
    BY <1>0, <1>3 DEF StartHse, VosReady, IsClk, Registers, Selected, Configured
  <2>2. Supply' /\ SwitchedOn'
    BY <1>0, <1>3 DEF StartHse, VosReady, IsClk, Registers, Supply, SwitchedOn
  <2>3. Multiplied' /\ Divided' /\ Switched'
    BY <1>0, <1>3
    DEF StartHse, VosReady, IsClk, Registers, SwitchedOn, Multiplied, Divided, Switched, PLL
  <2> QED
    BY <1>a, <2>1, <2>2, <2>3 DEF ClkInv
<1>4. CASE SelectHse
  <2>1. Selected' /\ Configured'
    BY <1>0, <1>4, Pll1Bits DEF SelectHse, Ready, IsClk, Registers, Selected, Configured
  <2>2. Supply' /\ SwitchedOn'
    BY <1>0, <1>4 DEF SelectHse, Ready, IsClk, Registers, Supply, SwitchedOn
  <2>3. Multiplied' /\ Divided' /\ Switched'
    BY <1>0, <1>4
    DEF SelectHse, Ready, IsClk, Registers, SwitchedOn, Multiplied, Divided, Switched, PLL
  <2> QED
    BY <1>a, <2>1, <2>2, <2>3 DEF ClkInv
<1>5. CASE SetRatioPll1
  <2>1. Selected' /\ Configured'
    BY <1>0, <1>5 DEF SetRatioPll1, IsClk, Registers, Selected, Configured
  <2>2. Supply' /\ SwitchedOn'
    BY <1>0, <1>5 DEF SetRatioPll1, IsClk, Registers, Supply, SwitchedOn
  <2>3. Multiplied' /\ Divided' /\ Switched'
    BY <1>0, <1>5
    DEF SetRatioPll1, IsClk, Registers, SwitchedOn, Multiplied, Divided, Switched, PLL
  <2> QED
    BY <1>a, <2>1, <2>2, <2>3 DEF ClkInv
<1>6. CASE ConfigurePll1
  <2>1. Selected' /\ Configured'
    <3>1. /\ clk.at = 6 - 1 /\ clk'.at = 6 /\ clk'.PLLCKSELR = clk.PLLCKSELR
          /\ clk'.PLLCFGR = clk.PLLCFGR \cup {RGE["PLL1"] + 1, DIVP1EN, DIVQ1EN}
      BY <1>6 DEF ConfigurePll1, IsClk, Registers
    <3>2. Selected'
      BY <1>0, <3>1 DEF Selected
    <3>3. Configured'
      BY <1>0, <3>1, ConfigBits DEF Configured
    <3> QED
      BY <3>2, <3>3
  <2>2. Supply' /\ SwitchedOn'
    BY <1>0, <1>6 DEF ConfigurePll1, IsClk, Registers, Supply, SwitchedOn
  <2>3. Multiplied' /\ Divided' /\ Switched'
    BY <1>0, <1>6
    DEF ConfigurePll1, IsClk, Registers, SwitchedOn, Multiplied, Divided, Switched, PLL
  <2> QED
    BY <1>a, <2>1, <2>2, <2>3 DEF ClkInv
<1>7. CASE StartPll1
  <2>1. Selected' /\ Configured'
    BY <1>0, <1>7 DEF StartPll1, IsClk, Registers, Selected, Configured
  <2>2. Supply' /\ SwitchedOn'
    BY <1>0, <1>7 DEF StartPll1, IsClk, Registers, Supply, SwitchedOn
  <2>3. Multiplied' /\ Divided' /\ Switched'
    BY <1>0, <1>7
    DEF StartPll1, IsClk, Registers, SwitchedOn, Multiplied, Divided, Switched, PLL
  <2> QED
    BY <1>a, <2>1, <2>2, <2>3 DEF ClkInv
<1>8. CASE DivideD1
  <2>1. Selected' /\ Configured'
    BY <1>0, <1>8 DEF DivideD1, Ready, IsClk, Registers, Selected, Configured
  <2>2. Supply' /\ SwitchedOn'
    BY <1>0, <1>8 DEF DivideD1, Ready, IsClk, Registers, Supply, SwitchedOn
  <2>3. Multiplied' /\ Divided' /\ Switched'
    BY <1>0, <1>8
    DEF DivideD1, Ready, IsClk, Registers, SwitchedOn, Multiplied, Divided, Switched, PLL
  <2> QED
    BY <1>a, <2>1, <2>2, <2>3 DEF ClkInv
<1>9. CASE DivideD2
  <2>1. Selected' /\ Configured'
    BY <1>0, <1>9 DEF DivideD2, IsClk, Registers, Selected, Configured
  <2>2. Supply' /\ SwitchedOn'
    BY <1>0, <1>9 DEF DivideD2, IsClk, Registers, Supply, SwitchedOn
  <2>3. Multiplied' /\ Divided' /\ Switched'
    BY <1>0, <1>9 DEF DivideD2, IsClk, Registers, SwitchedOn, Multiplied, Divided, Switched, PLL
  <2> QED
    BY <1>a, <2>1, <2>2, <2>3 DEF ClkInv
<1>10. CASE DivideD3
  <2>1. Selected' /\ Configured'
    BY <1>0, <1>10 DEF DivideD3, IsClk, Registers, Selected, Configured
  <2>2. Supply' /\ SwitchedOn'
    BY <1>0, <1>10 DEF DivideD3, IsClk, Registers, Supply, SwitchedOn
  <2>3. Multiplied' /\ Divided' /\ Switched'
    BY <1>0, <1>10
    DEF DivideD3, IsClk, Registers, SwitchedOn, Multiplied, Divided, Switched, PLL
  <2> QED
    BY <1>a, <2>1, <2>2, <2>3 DEF ClkInv
<1>11. CASE SetWaitStates
  <2>1. Selected' /\ Configured'
    BY <1>0, <1>11 DEF SetWaitStates, IsClk, Registers, Selected, Configured
  <2>2. Supply' /\ SwitchedOn'
    BY <1>0, <1>11 DEF SetWaitStates, IsClk, Registers, Supply, SwitchedOn
  <2>3. Multiplied' /\ Divided' /\ Switched'
    BY <1>0, <1>11
    DEF SetWaitStates, IsClk, Registers, SwitchedOn, Multiplied, Divided, Switched, PLL
  <2> QED
    BY <1>a, <2>1, <2>2, <2>3 DEF ClkInv
<1>12. CASE SwitchToPll1
  <2>1. Selected' /\ Configured'
    BY <1>0, <1>12 DEF SwitchToPll1, IsClk, Registers, Selected, Configured
  <2>2. Supply' /\ SwitchedOn'
    BY <1>0, <1>12 DEF SwitchToPll1, IsClk, Registers, Supply, SwitchedOn
  <2>3. Multiplied' /\ Divided' /\ Switched'
    BY <1>0, <1>12
    DEF SwitchToPll1, IsClk, Registers, SwitchedOn, Multiplied, Divided, Switched, PLL
  <2> QED
    BY <1>a, <2>1, <2>2, <2>3 DEF ClkInv
<1>13. CASE DividePll3
  <2>1. Selected' /\ Configured'
    BY <1>0, <1>13, Pll3Bits DEF DividePll3, IsClk, Registers, Selected, Configured
  <2>2. Supply' /\ SwitchedOn'
    BY <1>0, <1>13 DEF DividePll3, IsClk, Registers, Supply, SwitchedOn
  <2>3. Multiplied' /\ Divided' /\ Switched'
    BY <1>0, <1>13
    DEF DividePll3, IsClk, Registers, SwitchedOn, Multiplied, Divided, Switched, PLL
  <2> QED
    BY <1>a, <2>1, <2>2, <2>3 DEF ClkInv
<1>14. CASE DividePll3Again
  <2>1. Selected' /\ Configured'
    BY <1>0, <1>14, Pll3Bits DEF DividePll3Again, IsClk, Registers, Selected, Configured
  <2>2. Supply' /\ SwitchedOn'
    BY <1>0, <1>14 DEF DividePll3Again, IsClk, Registers, Supply, SwitchedOn
  <2>3. Multiplied' /\ Divided' /\ Switched'
    BY <1>0, <1>14
    DEF DividePll3Again, IsClk, Registers, SwitchedOn, Multiplied, Divided, Switched, PLL
  <2> QED
    BY <1>a, <2>1, <2>2, <2>3 DEF ClkInv
<1>15. CASE SetRatioPll3
  <2>1. Selected' /\ Configured'
    BY <1>0, <1>15 DEF SetRatioPll3, IsClk, Registers, Selected, Configured
  <2>2. Supply' /\ SwitchedOn'
    BY <1>0, <1>15 DEF SetRatioPll3, IsClk, Registers, Supply, SwitchedOn
  <2>3. Multiplied' /\ Divided' /\ Switched'
    BY <1>0, <1>15
    DEF SetRatioPll3, IsClk, Registers, SwitchedOn, Multiplied, Divided, Switched, PLL
  <2> QED
    BY <1>a, <2>1, <2>2, <2>3 DEF ClkInv
<1>16. CASE ConfigurePll3
  <2>1. Selected' /\ Configured'
    <3>1. /\ clk.at = 16 - 1 /\ clk'.at = 16 /\ clk'.PLLCKSELR = clk.PLLCKSELR
          /\ clk'.PLLCFGR = clk.PLLCFGR \cup {RGE["PLL3"] + 1, DIVQ3EN}
      BY <1>16 DEF ConfigurePll3, IsClk, Registers
    <3>2. Selected'
      BY <1>0, <3>1 DEF Selected
    <3>3. Configured'
      BY <1>0, <3>1, ConfigBits DEF Configured
    <3> QED
      BY <3>2, <3>3
  <2>2. Supply' /\ SwitchedOn'
    BY <1>0, <1>16 DEF ConfigurePll3, IsClk, Registers, Supply, SwitchedOn
  <2>3. Multiplied' /\ Divided' /\ Switched'
    BY <1>0, <1>16
    DEF ConfigurePll3, IsClk, Registers, SwitchedOn, Multiplied, Divided, Switched, PLL
  <2> QED
    BY <1>a, <2>1, <2>2, <2>3 DEF ClkInv
<1>17. CASE StartPll3
  <2>1. Selected' /\ Configured'
    BY <1>0, <1>17 DEF StartPll3, IsClk, Registers, Selected, Configured
  <2>2. Supply' /\ SwitchedOn'
    BY <1>0, <1>17 DEF StartPll3, IsClk, Registers, Supply, SwitchedOn
  <2>3. Multiplied' /\ Divided' /\ Switched'
    BY <1>0, <1>17
    DEF StartPll3, IsClk, Registers, SwitchedOn, Multiplied, Divided, Switched, PLL
  <2> QED
    BY <1>a, <2>1, <2>2, <2>3 DEF ClkInv
<1>18. CASE SelectUsbClock
  <2>1. Selected' /\ Configured'
    BY <1>0, <1>18 DEF SelectUsbClock, Ready, IsClk, Registers, Selected, Configured
  <2>2. Supply' /\ SwitchedOn'
    BY <1>0, <1>18 DEF SelectUsbClock, Ready, IsClk, Registers, Supply, SwitchedOn
  <2>3. Multiplied' /\ Divided' /\ Switched'
    BY <1>0, <1>18
    DEF SelectUsbClock, Ready, IsClk, Registers, SwitchedOn, Multiplied, Divided, Switched, PLL
  <2> QED
    BY <1>a, <2>1, <2>2, <2>3 DEF ClkInv
<1>19. CASE ScaleReached
  <2>1. Selected' /\ Configured'
    BY <1>0, <1>19 DEF ScaleReached, IsClk, Registers, Selected, Configured
  <2>2. Supply' /\ SwitchedOn'
    BY <1>0, <1>19 DEF ScaleReached, IsClk, Registers, Supply, SwitchedOn
  <2>3. Multiplied' /\ Divided' /\ Switched'
    BY <1>0, <1>19
    DEF ScaleReached, IsClk, Registers, SwitchedOn, Multiplied, Divided, Switched, PLL
  <2> QED
    BY <1>a, <2>1, <2>2, <2>3 DEF ClkInv
<1>20. CASE HseStarts
  <2>1. Selected' /\ Configured'
    BY <1>0, <1>20 DEF HseStarts, IsClk, Registers, Selected, Configured
  <2>2. Supply' /\ SwitchedOn'
    BY <1>0, <1>20 DEF HseStarts, IsClk, Registers, Supply, SwitchedOn
  <2>3. Multiplied' /\ Divided' /\ Switched'
    BY <1>0, <1>20
    DEF HseStarts, IsClk, Registers, SwitchedOn, Multiplied, Divided, Switched, PLL
  <2> QED
    BY <1>a, <2>1, <2>2, <2>3 DEF ClkInv
<1>21. CASE PllLocks
  <2>1. Selected' /\ Configured'
    BY <1>0, <1>21 DEF PllLocks, PLL, IsClk, Registers, Selected, Configured
  <2>2. Supply' /\ SwitchedOn'
    BY <1>0, <1>21 DEF PllLocks, PLL, IsClk, Registers, Supply, SwitchedOn
  <2>3. Multiplied' /\ Divided' /\ Switched'
    BY <1>0, <1>21
    DEF PllLocks, PLL, IsClk, Registers, SwitchedOn, Multiplied, Divided, Switched
  <2> QED
    BY <1>a, <2>1, <2>2, <2>3 DEF ClkInv
<1>22. CASE ClockSwitches
  <2>1. Selected' /\ Configured'
    BY <1>0, <1>22 DEF ClockSwitches, Ready, IsClk, Registers, Selected, Configured
  <2>2. Supply' /\ SwitchedOn'
    BY <1>0, <1>22 DEF ClockSwitches, Ready, IsClk, Registers, Supply, SwitchedOn
  <2>3. Multiplied' /\ Divided' /\ Switched'
    BY <1>0, <1>22
    DEF ClockSwitches, Ready, IsClk, Registers, SwitchedOn, Multiplied, Divided, Switched, PLL
  <2> QED
    BY <1>a, <2>1, <2>2, <2>3 DEF ClkInv
<1> QED
  BY <1>1, <1>2, <1>3, <1>4, <1>5, <1>6, <1>7, <1>8, <1>9, <1>10, <1>11, <1>12,
     <1>13, <1>14, <1>15, <1>16, <1>17, <1>18, <1>19, <1>20, <1>21, <1>22
  DEF start_pll, ClockHardware

\* A step that leaves the registers alone keeps it, too.
LEMMA ClkInvStutter ==
  ASSUME ClkInv, UNCHANGED clk
  PROVE  ClkInv'
  BY
  DEF ClkInv, IsClk, Registers, Supply, Selected, Configured, SwitchedOn, Multiplied, Divided, Switched

\* What the hardware makes of the registers of the first PLL once they are written.
LEMMA Pll1Set ==
  ASSUME ClkInv, clk.at >= 6
  PROVE  /\ Source = 25 /\ Divider("PLL1") = 5 /\ RangeFrom("PLL1") = 4
         /\ Vco("PLL1") = 800 /\ DIVP1EN \in clk.PLLCFGR
         /\ clk.DIVR["PLL1"] = [N |-> 159, P |-> 1, Q |-> 7, R |-> 1]
<1>1. clk.at \in 6 .. 18 /\ Selected /\ Configured /\ SwitchedOn /\ Multiplied
  BY DEF ClkInv, IsClk, Registers
<1>2. Source = 25
  <2>1. clk.PLLCKSELR \cap PLLSRC = {1}
    BY <1>1 DEF Selected, PLLSRC
  <2>2. Ready("HSE")
    BY <1>1 DEF SwitchedOn, Ready
  <2> QED
    BY <2>1, <2>2 DEF Source, HSE
<1>3. Divider("PLL1") = 5
  BY <1>1 DEF Selected, Divider, Bit, DIVM
<1>4. RangeFrom("PLL1") = 4 /\ DIVP1EN \in clk.PLLCFGR
  BY <1>1 DEF Configured, RangeFrom, RGE, DIVP1EN
<1>5. clk.DIVR["PLL1"] = [N |-> 159, P |-> 1, Q |-> 7, R |-> 1]
  BY <1>1 DEF Multiplied
<1>6. Vco("PLL1") = 800
  BY <1>2, <1>3, <1>5 DEF Vco
<1> QED
  BY <1>2, <1>3, <1>4, <1>5, <1>6

\* And of those of the second.
LEMMA Pll3Set ==
  ASSUME ClkInv, clk.at >= 16
  PROVE  /\ Source = 25 /\ Divider("PLL3") = 5 /\ RangeFrom("PLL3") = 4
         /\ Vco("PLL3") = 240 /\ DIVQ3EN \in clk.PLLCFGR
         /\ clk.DIVR["PLL3"] = [N |-> 47, P |-> 1, Q |-> 4, R |-> 1]
<1>1. clk.at \in 16 .. 18 /\ Selected /\ Configured /\ Multiplied
  BY DEF ClkInv, IsClk, Registers
<1>2. Source = 25
  BY <1>1, Pll1Set
<1>3. Divider("PLL3") = 5
  BY <1>1 DEF Selected, Divider, Bit, DIVM
<1>4. RangeFrom("PLL3") = 4 /\ DIVQ3EN \in clk.PLLCFGR
  BY <1>1 DEF Configured, RangeFrom, RGE, DIVQ3EN
<1>5. clk.DIVR["PLL3"] = [N |-> 47, P |-> 1, Q |-> 4, R |-> 1]
  BY <1>1 DEF Multiplied
<1>6. Vco("PLL3") = 240
  BY <1>2, <1>3, <1>5 DEF Vco
<1> QED
  BY <1>2, <1>3, <1>4, <1>5, <1>6

\* So the core runs at 400 MHz from the first PLL.
LEMMA CpuFromPll1 ==
  ASSUME ClkInv, clk.sws = "PLL1"
  PROVE  CpuClock = 400
<1>1. clk.at \in 12 .. 18
  BY DEF ClkInv, IsClk, Registers, Switched
<1>2. Vco("PLL1") = 800 /\ clk.DIVR["PLL1"].P = 1 /\ DIVP1EN \in clk.PLLCFGR
  BY <1>1, Pll1Set
<1>3. CpuClock = Vco("PLL1") \div (clk.DIVR["PLL1"].P + 1)
  BY <1>2 DEF CpuClock
<1> QED
  BY <1>2, <1>3

\* A PLL that has been started runs with these settings.
LEMMA Pll1Runs ==
  ClkInv /\ clk.at >= 7 => Running("PLL1") = <<25, 5, 4, [N |-> 159, P |-> 1, Q |-> 7, R |-> 1]>>
<1> SUFFICES ASSUME ClkInv, clk.at >= 7
             PROVE Running("PLL1") = <<25, 5, 4, [N |-> 159, P |-> 1, Q |-> 7, R |-> 1]>>
  OBVIOUS
<1>1. clk.at \in 7 .. 18 /\ "PLL1" \in clk.CR
  BY DEF ClkInv, IsClk, Registers, SwitchedOn
<1> QED
  BY <1>1, Pll1Set DEF Running

\* Only a reset takes writes back.
LEMMA WritesMount ==
  ASSUME ClkInv, [FirmwareNext]_firmware, clk' # ResetClk
  PROVE  clk'.at \in {clk.at, clk.at + 1}
<1>1. CASE UNCHANGED clk
  BY <1>1
<1>2. CASE start_pll \/ SelectUsbClock \/ ClockHardware
  BY <1>2, RegistersTyped DEF ClkInv
<1> QED
  BY <1>1, <1>2 DEF FirmwareNext, firmware, Boot, StartPll, Hardware, Tick, Loop

\* Before start_pll nothing of the clock tree is touched, behind it everything is
\* set up; the peripherals that depend on it are switched on later still.
Late == {"shift_reg", "red_led", "flash_init", "usb_init", "irq_init", "loop"}

Placed ==
  /\ ClkInv
  /\ pc \notin Late \cup {"start_pll"} => clk = ResetClk
  /\ pc \notin Late => on \cap {"PLL", "USB", "SYSTICK"} = {}
  /\ pc \in Late => clk.at = 18 /\ "PLL" \in on

\* A step of the boot flow goes from the early steps to the late ones only by
\* way of start_pll, and back only by a reset.
LEMMA NextPlaces ==
  ASSUME Next
  PROVE  \/ pc' = "startup" /\ on' = {}
         \/ pc' = "startup" /\ pc = "startup" /\ on' = on
         \/ pc = "start_pll" /\ pc' = "shift_reg" /\ "PLL" \in on'
         \/ pc' # "startup" /\ pc \in Late /\ pc' \in Late /\ on \subseteq on'
         \/ /\ pc' # "startup" /\ pc \notin Late /\ pc' \notin Late
            /\ pc = "start_pll" => pc' = "start_pll"
            /\ on' \cap {"PLL", "USB", "SYSTICK"} \subseteq on
<1> USE DEF Late, Goto, world, chip
<1>1. CASE program_startup \/ bootflag_get \/ bootflag_clear
  BY <1>1 DEF program_startup, bootflag_get, bootflag_clear, bootflag_set, backup_init
<1>2. CASE jump_to_application
  BY <1>2 DEF jump_to_application
<1>3. CASE ReadButton
  BY <1>3 DEF ReadButton
<1>4. CASE SetFlag
  BY <1>4 DEF SetFlag, bootflag_set, backup_init
<1>5. CASE EnterDfu
  BY <1>5 DEF EnterDfu, Engage
<1>6. CASE Update \/ Rescued
  BY <1>6 DEF Update, Rescued
<1>7. CASE SystemReset
  BY <1>7, Zenon DEF SystemReset
<1>8. CASE PressOrRelease
  BY <1>8 DEF PressOrRelease
<1> QED
  BY <1>1, <1>2, <1>3, <1>4, <1>5, <1>6, <1>7, <1>8
  DEF Next, Main, reboot_into_application, ResetToApp, Exception, Default_Handler, AppReset,
      PowerCycle, Rescue

\* The boot flow and the clock tree advance together.
LEMMA PlacedInductive == FirmwareSpec => []Placed
<1>1. FirmwareInit => Placed
  BY ResetClkInv DEF FirmwareInit, Init, Placed, Late
<1>2. BootInv /\ Placed /\ [FirmwareNext]_firmware => Placed'
  <2> SUFFICES ASSUME BootInv, Placed, [FirmwareNext]_firmware PROVE Placed'
    OBVIOUS
  <2> USE DEF Placed, Late
  <2>1. CASE UNCHANGED <<vars, clk>>
    BY <2>1, ClkInvStutter DEF vars
  <2>2. CASE StartPll \/ Hardware
    <3>1. ClkInv'
      BY <2>2, ClkInvStep DEF StartPll, Hardware
    <3>2. UNCHANGED <<pc, on>>
      BY <2>2 DEF StartPll, Hardware, vars
    <3>3. Hardware => clk'.at = clk.at
      BY DEF Hardware, ClockHardware, ScaleReached, HseStarts, PllLocks, ClockSwitches,
             ClkInv, IsClk, Registers
    <3>4. ~(clk = ResetClk /\ Hardware)
      BY
      DEF Hardware, ClockHardware, ScaleReached, HseStarts, PllLocks, ClockSwitches, ResetClk, PLL
    <3>5. StartPll => pc = "start_pll"
      BY DEF StartPll
    <3> QED
      BY <2>2, <3>1, <3>2, <3>3, <3>4, <3>5
  <2>3. CASE Boot(Next)
    <3>1. CASE pc = "start_pll" /\ pc' = "shift_reg"
      <4>1. SelectUsbClock /\ ClkInv'
        BY <2>3, <3>1, ClkInvStep DEF Boot
      <4>2. clk'.at = 18
        BY <4>1 DEF SelectUsbClock, Write, ClkInv, IsClk, Registers
      <4>3. "PLL" \in on'
        BY <2>3, <3>1, NextPlaces DEF Boot
      <4> QED
        BY <3>1, <4>1, <4>2, <4>3
    <3>2. CASE pc' = "startup" /\ ~(pc = "start_pll" /\ pc' = "shift_reg")
      <4>1. clk' = ResetClk /\ Next
        BY <2>3, <3>2 DEF Boot
      <4>2. ClkInv'
        <5>1. (clk = ResetClk => ClkInv)'
          BY ResetClkInv, PTL
        <5> QED
          BY <4>1, <5>1
      <4>3. on' \cap {"PLL", "USB", "SYSTICK"} = {}
        BY <3>2, <4>1, NextPlaces
      <4> QED
        BY <3>2, <4>1, <4>2, <4>3
    <3>3. CASE pc' # "startup" /\ ~(pc = "start_pll" /\ pc' = "shift_reg")
      <4>1. clk' = clk /\ Next
        BY <2>3, <3>3 DEF Boot
      <4>2. ClkInv'
        BY <4>1, ClkInvStutter
      <4> QED
        BY <3>3, <4>1, <4>2, NextPlaces
    <3> QED
      BY <3>1, <3>2, <3>3
  <2> QED
    BY <2>1, <2>2, <2>3 DEF FirmwareNext, firmware, Tick, Loop
<1> QED
  BY <1>1, <1>2, FirmwareImplementsBoot, BootInvInductive, PTL DEF FirmwareSpec

\* The reset clock tree on every way to the application, "CPU is on HSI, PLLs are
\* in reset state" (main.c:60), whatever resets, exceptions and power cuts come.
THEOREM ClockAlwaysUntouched == FirmwareSpec => []ClockUntouched
<1>1. Placed => ClockUntouched
  BY DEF ClockUntouched, Placed, MainSteps, Out, Late
<1> QED
  BY <1>1, PlacedInductive, PTL

\* No clock leaves the limits of the chip at any write of start_pll, with any
\* crystal and any delay of the hardware, and each PLL is on only with its input
\* in the range selected for it.
THEOREM ClocksWithinLimits == FirmwareSpec => []ClockWithinLimits
<1>1. ClkInv => ClockWithinLimits
  <2> SUFFICES ASSUME ClkInv PROVE ClockWithinLimits
    OBVIOUS
  <2>1. IsClk /\ Supply /\ SwitchedOn /\ Divided /\ Switched
    BY DEF ClkInv
  <2>2. \A i \in PLL \cap clk.CR :
          /\ RangeFrom(i) * Divider(i) <= Source /\ Source <= 2 * RangeFrom(i) * Divider(i)
          /\ Vco(i) \in 192 .. 836
    <3>1. "PLL1" \in clk.CR => clk.at >= 6
      BY <2>1 DEF SwitchedOn, IsClk, Registers
    <3>2. "PLL3" \in clk.CR => clk.at >= 16
      BY <2>1 DEF SwitchedOn, IsClk, Registers
    <3> QED
      BY <3>1, <3>2, Pll1Set, Pll3Set DEF PLL
  <2>3. CASE clk.sws = "PLL1"
    <3>1. /\ clk.at >= 12 /\ clk.scale = 1 /\ clk.ahb = 2 /\ clk.waits = 2
          /\ \A i \in 1 .. 4 : clk.apb[i] = 2
      BY <2>1, <2>3 DEF IsClk, Registers, Supply, Divided, Switched
    <3>2. CpuClock = 400
      BY <2>3, <3>1, CpuFromPll1
    <3>3. AhbClock = 200
      BY <3>1, <3>2 DEF AhbClock
    <3>4. \A i \in 1 .. 4 : ApbClock(i) = 100
      BY <3>1, <3>3 DEF ApbClock
    <3> QED
      BY <2>2, <3>1, <3>2, <3>3, <3>4 DEF ClockWithinLimits
  <2>4. CASE clk.sws = "HSI"
    <3>1. clk.ahb \in {1, 2} /\ clk.waits \in {2, 7} /\ \A i \in 1 .. 4 : clk.apb[i] \in {1, 2}
      BY <2>1 DEF IsClk, Registers
    <3>2. CpuClock = 64
      BY <2>4 DEF CpuClock, HSI
    <3>3. AhbClock \in {32, 64}
      BY <3>1, <3>2 DEF AhbClock
    <3>4. \A i \in 1 .. 4 : ApbClock(i) <= 100
      <4> SUFFICES ASSUME NEW i \in 1 .. 4 PROVE ApbClock(i) \in {16, 32, 64}
        OBVIOUS
      <4> QED
        BY <3>1, <3>3 DEF ApbClock
    <3> QED
      BY <2>2, <3>1, <3>2, <3>3, <3>4 DEF ClockWithinLimits
  <2> QED
    BY <2>1, <2>3, <2>4 DEF IsClk, Registers
<1> QED
  BY <1>1, PlacedInductive, PTL DEF Placed

\* Where the first PLL is on its reference is 5 MHz, and the range selected is that
\* from 4 to 8 MHz: not "between 8 and 16MHz", as clock.c:22 has it.
Pll1RefBelowComment ==
  "PLL1" \in clk.CR =>
    /\ RangeFrom("PLL1") = 4 /\ Source = 5 * Divider("PLL1")
    /\ Source < 8 * Divider("PLL1")

\* So the comment is wrong in every behaviour, and the registers agree with each
\* other.
THEOREM CommentOnRangeIsWrong == FirmwareSpec => []Pll1RefBelowComment
<1>1. ClkInv => Pll1RefBelowComment
  <2> SUFFICES ASSUME ClkInv, "PLL1" \in clk.CR
               PROVE  /\ RangeFrom("PLL1") = 4 /\ Source = 5 * Divider("PLL1")
                      /\ Source < 8 * Divider("PLL1")
    BY DEF Pll1RefBelowComment
  <2>1. clk.at >= 6
    BY DEF ClkInv, SwitchedOn, IsClk, Registers
  <2> QED
    BY <2>1, Pll1Set
<1> QED
  BY <1>1, PlacedInductive, PTL DEF Placed

\* USB runs at exactly 48 MHz and the tick at 1 ms, within a cycle, from the
\* moment each is switched on.
THEOREM PeripheralsClocked ==
  ASSUME TICK = 399999
  PROVE  FirmwareSpec => []PeripheralClocks
<1>1. Placed => PeripheralClocks
  <2> SUFFICES ASSUME Placed, on \cap {"USB", "SYSTICK"} # {}
               PROVE  UsbClock = 48 /\ CpuClock * 1000 - TICK \in -1 .. 1
    BY DEF PeripheralClocks
  <2>1. clk.at = 18 /\ ClkInv
    BY DEF Placed
  <2>2. clk.sws = "PLL1" /\ clk.usb = "PLL3Q" /\ Ready("PLL3")
    BY <2>1 DEF ClkInv, Switched, SwitchedOn, Ready
  <2>3. UsbClock = 48
    BY <2>1, <2>2, Pll3Set DEF UsbClock
  <2>4. CpuClock = 400
    BY <2>1, <2>2, CpuFromPll1
  <2> QED
    BY <2>3, <2>4
<1> QED
  BY <1>1, PlacedInductive, PTL

\* The second PLL is set up, bit by bit in registers shared with the first,
\* without a change of any bit by which the first runs: the divider, source and
\* range that the hardware reads from PLLCKSELR and PLLCFGR stay the same through
\* every masked write.
THEOREM Pll1LeftAlone == FirmwareSpec => Pll1Undisturbed
<1> DEFINE Undisturbed ==
      clk.at >= 7 /\ clk' # ResetClk => Running("PLL1")' = Running("PLL1")
<1>1. Placed /\ Placed' /\ [FirmwareNext]_firmware => [Undisturbed]_clk
  <2> SUFFICES ASSUME Placed, Placed', [FirmwareNext]_firmware, clk.at >= 7, clk' # ResetClk
               PROVE  Running("PLL1")' = Running("PLL1")
    OBVIOUS
  <2>1. ClkInv /\ ClkInv'
    BY DEF Placed
  <2>2. clk'.at >= 7
    BY <2>1, WritesMount DEF ClkInv, IsClk, Registers
  <2>3. (ClkInv /\ clk.at >= 7 =>
           Running("PLL1") = <<25, 5, 4, [N |-> 159, P |-> 1, Q |-> 7, R |-> 1]>>)'
    BY Pll1Runs, PTL
  <2> QED
    BY <2>1, <2>2, <2>3, Pll1Runs
<1> QED
  BY <1>1, PlacedInductive, PTL DEF FirmwareSpec, Pll1Undisturbed
=============================================================================
