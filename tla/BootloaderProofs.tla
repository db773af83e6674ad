--------------------------- MODULE BootloaderProofs ---------------------------
(***************************************************************************)
(* The boot flow and the DFU function together: neither does what it could *)
(* not do on its own, the flash is at work only in the loop, and an update *)
(* that the host has acknowledged is what the chip starts.                 *)
(***************************************************************************)
EXTENDS Bootloader, DfuSystemProofs

(***************************************************************************)
(* The DFU function in its place in main().                                *)
(***************************************************************************)

LEMMA UpdateStepIsSystemStep == [UpdateNext]_<<vars, boot>> => [Next]_vars
<1> SUFFICES ASSUME UpdateNext PROVE [Next]_vars
  BY DEF vars
<1>1. CASE Flow
  BY <1>1 DEF Flow
<1>2. CASE EnterDfuFlash
  BY <1>2 DEF EnterDfuFlash, Next
<1>3. CASE Loop
  BY <1>3 DEF Loop, Next
<1>4. CASE FlashHardware
  BY <1>4 DEF FlashHardware, Next
<1>5. CASE Exception \/ Resets
  BY <1>5 DEF Exception, Resets, ResetDevice, Next
<1> QED
  BY <1>1, <1>2, <1>3, <1>4, <1>5 DEF UpdateNext

\* Run by main() the DFU function behaves as it does on its own, so that what is
\* proved of DfuSystem and DfuDevice holds in the whole firmware.
THEOREM UpdateIsASystem == UpdateSpec => Spec
<1>1. UpdateInit => Init
  BY DEF UpdateInit
<1> QED
  BY <1>1, UpdateStepIsSystemStep, PTL DEF UpdateSpec, Spec

(***************************************************************************)
(* The flash is at rest outside the loop.                                  *)
(***************************************************************************)

\* What a reset makes of the flash and of the driver.
LEMMA ResetRests ==
  ASSUME PowerCut
  PROVE  /\ bank'.LOCK /\ ~bank'.PG /\ ~bank'.SER /\ ~QW(bank') /\ ~WBNE(bank')
         /\ flash_ctx'.state = "IDLE"
BY DEF PowerCut, CutOff, ResetBank, ZeroFlashCtx, Empty, QW, WBNE

\* The steps of main() outside the loop do not switch the flash on or off.
LEMMA FlowKeepsFlash2 ==
  ASSUME Flow
  PROVE  /\ UNCHANGED vars
         /\ "FLASH2" \in on' <=> "FLASH2" \in on
         /\ pc = "loop" => pc' = "loop"
BY DEF Flow, Boot!program_startup, Boot!bootflag_get, Boot!bootflag_clear,
       Boot!jump_to_application, Boot!ReadButton, Boot!SetFlag, Boot!EnterDfu, Boot!Engage,
       Boot!PressOrRelease, Boot!Rescued, Boot!Goto, Boot!bootflag_set, Boot!backup_init,
       Boot!chip

\* A reset switches everything off.
LEMMA ResetSwitchesOff ==
  ASSUME Exception \/ Resets
  PROVE  PowerCut /\ on' = {} /\ pc' = "startup"
BY DEF Exception, Resets, ResetDevice, Boot!Exception, Boot!Default_Handler, Boot!ResetToApp,
       Boot!AppReset, Boot!PowerCycle, Boot!Rescue, Boot!SystemReset

\* What the loop does leaves CR2 as it is.
LEMMA LoopKeepsLock ==
  ASSUME DeviceTypeOK, Unlocked, Loop
  PROVE  bank'.LOCK = bank.LOCK
<1> USE DEF DeviceTypeOK
<1>1. CASE MainLoop
  BY <1>1, FlashProcessKeepsLock DEF MainLoop
<1>2. CASE Enumerate
  BY <1>2 DEF Enumerate, Mount, tud_mount_cb, flash_init, IsBank, Unlocked
<1>3. CASE UNCHANGED bank
  BY <1>3
<1>4. Loop => MainLoop \/ Enumerate \/ UNCHANGED bank
  BY DEF Loop, HostNext, SendGetCommands, SendSetAddress, SendErase, SendUnsupported, SendData,
         Send, Download, Dnload, Poll, PollLost, GetStatus, tud_dfu_get_status_cb, Quit, DnloadEnd,
         Upload, Abort, ClrStatus, Reselect, ClassReset, Unplug
<1> QED
  BY <1>1, <1>2, <1>3, <1>4

\* Every step leaves the flash at rest outside the loop.
LEMMA StepKeepsFlashInLoop ==
  ASSUME DeviceTypeOK, Unlocked, FlashOnlyInLoop, [UpdateNext]_<<vars, boot>>
  PROVE  FlashOnlyInLoop'
<1> USE DEF DeviceTypeOK, FlashOnlyInLoop
<1>1. CASE Flow \/ UNCHANGED <<vars, boot>>
  <2>1. /\ UNCHANGED vars
        /\ "FLASH2" \in on' <=> "FLASH2" \in on
        /\ pc = "loop" => pc' = "loop"
    BY <1>1, FlowKeepsFlash2 DEF boot
  <2> QED
    BY <2>1 DEF vars, flash_is_busy
<1>2. CASE EnterDfuFlash
  <2>1. pc = "flash_init" /\ on' = on \cup {"FLASH2"}
    BY <1>2 DEF EnterDfuFlash, Boot!EnterDfu, Boot!Engage, Boot!Goto
  <2>2. /\ ~bank'.LOCK /\ bank'.running = bank.running /\ bank'.wb = bank.wb
        /\ bank'.PG = bank.PG /\ bank'.SER = bank.SER /\ flash_ctx'.state = "IDLE"
    BY <1>2 DEF EnterDfuFlash, Start, flash_init, IsBank, FlashCtxType
  <2> QED
    BY <2>1, <2>2 DEF flash_is_busy, QW, WBNE
<1>3. CASE Loop
  <2>1. pc = "loop" /\ UNCHANGED <<pc, on>>
    BY <1>3 DEF Loop, boot
  <2> QED
    BY <1>3, <2>1, LoopKeepsLock
<1>4. CASE FlashHardware
  BY <1>4 DEF FlashHardware, Hardware, HwDone, boot, IsBank
<1>5. CASE Exception \/ Resets
  BY <1>5, ResetSwitchesOff, ResetRests DEF flash_is_busy
<1> QED
  BY <1>1, <1>2, <1>3, <1>4, <1>5 DEF UpdateNext

\* The flash is unlocked exactly while BootFlow counts it among the parts that are
\* on, and outside the DFU loop nothing is under way in it, whatever resets,
\* exceptions, power cuts and USB events come, and if commands are refused.
THEOREM FlashAtRestOutsideLoop == UpdateSpec => []FlashOnlyInLoop
<1>1. UpdateInit => FlashOnlyInLoop
  BY DEF UpdateInit, Init, DeviceInit, Boot!Init, ResetBank, ZeroFlashCtx, Empty, FlashOnlyInLoop,
         flash_is_busy, QW, WBNE
<1>2. DeviceTypeOK /\ Unlocked /\ FlashOnlyInLoop /\ [UpdateNext]_<<vars, boot>>
        => FlashOnlyInLoop'
  BY StepKeepsFlashInLoop
<1>3. UpdateSpec => [](DeviceTypeOK /\ Unlocked)
  BY UpdateIsASystem, SystemIsADevice, DeviceTypeCorrect, MeteredAlways, PTL
<1> QED
  BY <1>1, <1>2, <1>3, PTL DEF UpdateSpec

(***************************************************************************)
(* The image of BootFlow is the bank.                                      *)
(***************************************************************************)

\* The image has one of BootFlow's three values, and only the contents of the
\* bank decide which.
LEMMA ImageIsContents ==
  /\ image \in Boot!Image /\ image' \in Boot!Image
  /\ bank'.cells = bank.cells => image' = image
BY DEF image, Boot!Image

\* Every step of the two together is one of BootFlow.
LEMMA StepRefinesBoot ==
  ASSUME FlashOnlyInLoop, [UpdateNext]_<<vars, boot>>
  PROVE  [Boot!Next]_(Boot!vars)
<1>1. CASE Flow
  BY <1>1 DEF Flow, Boot!Next, Boot!Main, Boot!reboot_into_application
<1>2. CASE EnterDfuFlash
  BY <1>2 DEF EnterDfuFlash, Boot!Next, Boot!Main
<1>3. CASE Loop \/ FlashHardware
  <2>1. pc = "loop" /\ UNCHANGED boot
    BY <1>3 DEF Loop, FlashHardware, Hardware, HwDone, FlashOnlyInLoop
  <2>2. Boot!Update
    BY <2>1, ImageIsContents DEF Boot!Update, Boot!chip, boot
  <2> QED
    BY <2>2 DEF Boot!Next
<1>4. CASE Exception
  BY <1>4 DEF Exception, Boot!Next
<1>5. CASE Resets
  BY <1>5 DEF Resets, Boot!Next, Boot!Main, Boot!reboot_into_application
<1>6. CASE UNCHANGED <<vars, boot>>
  BY <1>6, ImageIsContents DEF vars, boot, Boot!vars
<1> QED
  BY <1>1, <1>2, <1>3, <1>4, <1>5, <1>6 DEF UpdateNext

\* The firmware with its DFU function implements the boot flow: the area is
\* changed by the DFU loop and by a reset that cuts it off, and by nothing else.
\* What FirmwareProofs has of BootFlow, the clean chip the application finds and
\* the flag that is spent, therefore holds here.
THEOREM UpdateImplementsBootFlow == UpdateSpec => ImplementsBootFlow
<1>1. UpdateInit => Boot!Init
  BY DEF UpdateInit
<1>2. FlashOnlyInLoop /\ [UpdateNext]_<<vars, boot>> => [Boot!Next]_(Boot!vars)
  BY StepRefinesBoot
<1> QED
  BY <1>1, <1>2, FlashAtRestOutsideLoop, PTL DEF UpdateSpec, ImplementsBootFlow, Boot!Spec

(***************************************************************************)
(* What the application finds.                                             *)
(***************************************************************************)

\* The theorems of FirmwareProofs about BootFlow speak of no clock and of no task:
\* here any values will do for those.
BootProofs == INSTANCE FirmwareProofs WITH
  WRAP <- 1000, INTERVAL <- 250, FIFO <- 64, LINE <- 12, TICK <- 399999,
  clk <- 0, crystal <- TRUE, g_tickCount <- 0, led <- 0, cdc <- 0

\* Both instances are the same boot flow.
LEMMA SameBootFlow ==
  /\ Boot!Init <=> BootProofs!Init
  /\ [Boot!Next]_(Boot!vars) <=> [BootProofs!Next]_(BootProofs!vars)
  /\ Boot!JumpIsClean <=> BootProofs!JumpIsClean
  /\ Boot!FlagInTransit <=> BootProofs!FlagInTransit
  /\ [Boot!Main => Boot!StepsLeft' \in 0 .. Boot!StepsLeft - 1]_(Boot!vars)
       <=> [BootProofs!Main => BootProofs!StepsLeft' \in 0 .. BootProofs!StepsLeft - 1]_(BootProofs!vars)
BY Zenon
DEF
    Boot!Image, Boot!Parts, Boot!MainSteps, Boot!Out, Boot!SystemReset, Boot!world,
    Boot!chip, Boot!backup_init, Boot!bootflag_set, Boot!Goto, Boot!program_startup,
    Boot!bootflag_get, Boot!bootflag_clear, Boot!jump_to_application, Boot!ReadButton,
    Boot!SetFlag, Boot!ResetToApp, Boot!reboot_into_application, Boot!Engage, Boot!EnterDfu,
    Boot!Main, Boot!Update, Boot!CutImage, Boot!Default_Handler, Boot!Exception,
    Boot!AppReset, Boot!PowerCycle, Boot!PressOrRelease, Boot!Rescue, Boot!Rescued,
    Boot!Init, Boot!Next, Boot!vars, Boot!StepsLeft, Boot!FlagInTransit, Boot!JumpIsClean,
    BootProofs!Image, BootProofs!Parts, BootProofs!MainSteps, BootProofs!Out,
    BootProofs!SystemReset, BootProofs!world, BootProofs!chip, BootProofs!backup_init,
    BootProofs!bootflag_set, BootProofs!Goto, BootProofs!program_startup,
    BootProofs!bootflag_get, BootProofs!bootflag_clear, BootProofs!jump_to_application,
    BootProofs!ReadButton, BootProofs!SetFlag, BootProofs!ResetToApp,
    BootProofs!reboot_into_application, BootProofs!Engage, BootProofs!EnterDfu,
    BootProofs!Main, BootProofs!Update, BootProofs!CutImage, BootProofs!Default_Handler,
    BootProofs!Exception, BootProofs!AppReset, BootProofs!PowerCycle,
    BootProofs!PressOrRelease, BootProofs!Rescue, BootProofs!Rescued, BootProofs!Init,
    BootProofs!Next, BootProofs!vars, BootProofs!StepsLeft, BootProofs!FlagInTransit,
    BootProofs!JumpIsClean

\* What FirmwareProofs asks of its constants.
LEMMA LoopConstants ==
  /\ 1000 \in Nat /\ 250 \in 1 .. 1000 - 1
  /\ 64 \in Nat \ {0} /\ 12 \in Nat \ {0} /\ 399999 \in Nat
BY SMT

LEMMA UpdateIsABoot == UpdateSpec => BootProofs!Spec
BY UpdateImplementsBootFlow, SameBootFlow, PTL DEF ImplementsBootFlow, Boot!Spec, BootProofs!Spec

\* The application is entered on a chip out of reset also after an update, or
\* after a reset that cut one off.
THEOREM UpdateJumpIsClean == UpdateSpec => []Boot!JumpIsClean
<1>1. BootProofs!Spec => []BootProofs!JumpIsClean
  BY BootProofs!ApplicationEnteredClean, LoopConstants
<1> QED
  BY <1>1, UpdateIsABoot, SameBootFlow, PTL

\* The boot flag never outlives the boot it is meant for, whatever the DFU loop does.
THEOREM UpdateFlagInTransit == UpdateSpec => []Boot!FlagInTransit
<1>1. BootProofs!Spec => []BootProofs!FlagInTransit
  BY BootProofs!FlagOnlyInTransit, LoopConstants
<1> QED
  BY <1>1, UpdateIsABoot, SameBootFlow, PTL

\* Nor does the bootloader with its DFU function reset itself in a loop.
THEOREM UpdateNeverLoops == UpdateSpec => Boot!NoResetLoop
<1>1. BootProofs!Spec => BootProofs!NoResetLoop
  BY BootProofs!BootNeverLoops, LoopConstants
<1> QED
  BY <1>1, UpdateIsABoot, SameBootFlow, PTL DEF Boot!NoResetLoop, BootProofs!NoResetLoop

\* "peripherals in reset state" (main.c:60) is true of flash bank 2 as well: where
\* the application starts it is locked, with no command in flight or half given.
THEOREM ApplicationFindsFlashReset ==
  UpdateSpec => [](pc \in Boot!Out => bank = ResetBank(bank.cells))
<1>1. DeviceTypeOK /\ FlashOnlyInLoop /\ Boot!JumpIsClean
        => (pc \in Boot!Out => bank = ResetBank(bank.cells))
  <2> SUFFICES ASSUME IsBank(bank), FlashOnlyInLoop, Boot!JumpIsClean, pc \in Boot!Out
               PROVE  bank = ResetBank(bank.cells)
    BY DEF DeviceTypeOK
  <2>1. pc # "loop" /\ "FLASH2" \notin on
    BY DEF Boot!Out, Boot!JumpIsClean
  <2>2. bank.LOCK /\ ~bank.PG /\ ~bank.SER /\ DOMAIN bank.running = {} /\ DOMAIN bank.wb = {}
    BY <2>1 DEF FlashOnlyInLoop, QW, WBNE
  <2>3. bank.running = Empty /\ bank.wb = Empty
    BY <2>2 DEF IsBank, IsImage, Empty
  <2> QED
    BY <2>2, <2>3 DEF IsBank, ResetBank
<1>2. UpdateSpec => []DeviceTypeOK
  BY UpdateIsASystem, SystemIsADevice, DeviceTypeCorrect, PTL
<1> QED
  BY <1>1, <1>2, UpdateJumpIsClean, FlashAtRestOutsideLoop, PTL

(***************************************************************************)
(* What the chip starts.                                                   *)
(***************************************************************************)

\* The core locks up in an image that is not complete.
LockedUp == pc = "lockup" => image # "GOOD"

\* Only the jump leads there, and nothing changes the bank once it is locked up.
LEMMA StepKeepsLockedUp ==
  ASSUME FlashOnlyInLoop, LockedUp, [UpdateNext]_<<vars, boot>>
  PROVE  LockedUp'
<1>1. CASE Flow \/ EnterDfuFlash
  <2>1. pc' = "lockup" => Boot!jump_to_application \/ UNCHANGED <<pc, bank>>
    BY <1>1 DEF Flow, EnterDfuFlash, Boot!program_startup, Boot!bootflag_get, Boot!bootflag_clear,
                Boot!ReadButton, Boot!SetFlag, Boot!EnterDfu, Boot!Engage, Boot!PressOrRelease,
                Boot!Rescued, Boot!Goto, Boot!chip, vars
  <2>2. Boot!jump_to_application /\ pc' = "lockup" => image # "GOOD" /\ image' = image
    BY DEF Boot!jump_to_application, Boot!Goto, Boot!world
  <2> QED
    BY <2>1, <2>2, ImageIsContents DEF LockedUp
<1>2. CASE Loop \/ FlashHardware
  BY <1>2 DEF Loop, FlashHardware, Hardware, HwDone, FlashOnlyInLoop, boot, LockedUp
<1>3. CASE Exception \/ Resets
  BY <1>3, ResetSwitchesOff DEF LockedUp
<1>4. CASE UNCHANGED <<vars, boot>>
  BY <1>4, ImageIsContents DEF vars, boot, LockedUp
<1> QED
  BY <1>1, <1>2, <1>3, <1>4 DEF UpdateNext

\* On hardware that refuses no command, with a host that neither enumerates the
\* device in mid-operation nor resets the class driver behind the callbacks'
\* back: once every byte of the application has been acknowledged, what the chip
\* enters is the application, and holds those bytes, whatever resets, exceptions,
\* power cuts and presses of the key come between.
THEOREM AcknowledgedUpdateAlwaysBoots ==
  ASSUME "earlyMount" \notin Events, "classReset" \notin Events, Faults = FALSE,
         Unknown # Erased, Unknown \notin Firmware
  PROVE  UpdateSpec => []AcknowledgedUpdateBoots
<1>1. UpdateInit => LockedUp
  BY DEF UpdateInit, Boot!Init, LockedUp
<1>2. FlashOnlyInLoop /\ LockedUp /\ [UpdateNext]_<<vars, boot>> => LockedUp'
  BY StepKeepsLockedUp
<1>3. ReadBack /\ LockedUp => AcknowledgedUpdateBoots
  <2> SUFFICES ASSUME ReadBack, LockedUp, pc \in Boot!Out,
                      \A a \in Code : host.view[a] \in Firmware
               PROVE  pc = "app" /\ \A a \in Code : bank.cells[a] = host.view[a]
    BY DEF AcknowledgedUpdateBoots
  <2>1. \A a \in Code : bank.cells[a] = host.view[a]
    BY CodeAssumption DEF ReadBack
  <2>2. image = "GOOD"
    BY <2>1 DEF image
  <2> QED
    BY <2>1, <2>2 DEF LockedUp, Boot!Out
<1>4. UpdateSpec => []ReadBack
  BY UpdateIsASystem, AcknowledgedIsInFlash, PTL
<1> QED
  BY <1>1, <1>2, <1>3, <1>4, FlashAtRestOutsideLoop, PTL DEF UpdateSpec
=============================================================================
