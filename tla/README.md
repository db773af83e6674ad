# A TLA+ model of the CS7000P bootloader

The bootloader of the CS7000P radio (STM32H7) starts the application, or, if
the alarm key is held at power-on, becomes a USB DFU device (ST's DfuSe
dialect) by which a host erases and writes the application in flash bank 2.
This directory holds TLA+ modules translated from the C source, TLC
configurations that check them on small instances, and TLAPS proofs of some of
their properties for all instances.

## 1. The system

### Parts, state, operations

| Part | Source | State | Operations |
|---|---|---|---|
| Boot flow | `main.c`, `boot_jump.c`, `startup.c`, `init.c` | RTC backup register `BKP0R` (survives resets), `VTOR`, PRIMASK, the peripherals switched on | reset handler, flag get/set/clear, button, `jump_to_application`, `reboot_into_application`, default exception handler, the steps to the main loop |
| Flash driver | `dfu_flash.c` | `flash_ctx`: state, address, buffer, length, offset | `flash_init`, `flash_erase_sector_async`, `flash_write_async`, `flash_process`, `flash_is_busy` |
| DfuSe layer | `dfu_tinyusb.c` | `dfuse_ctx`: base address, operation, its address, GetCommands flag | TinyUSB callbacks: GETSTATUS, UPLOAD, ABORT, mount, umount |
| Shift-register outputs | `gpio.c` (161-264) | `srData_extGpio` | init, set, clear, read, `spiSr_send` |
| GPIO modes | `gpio.c` (1-160), `gpio.h`, `init.c` | port registers | `gpio_init`, `gpio_setMode`, alternate function, speed, set, clear |
| Clock tree | `clock.c` | PWR and RCC registers | `start_pll` |
| USB descriptors | `usb_descriptors.c` | string buffer | descriptor callbacks |
| Console, LED | `main.c` (98-152) | tick counter, previous button level, start time, LED state | `SysTick_Handler`, `cdc_task`, `led_blinking_task` |
| Diagnostics, libc glue | `debug.c`, `delay.c`, `syscalls.c` | none that outlives a call | |
| TinyUSB, CMSIS | submodules, not in the tree | the DFU class driver's state and request buffer | control requests, calls of the callbacks |
| Flash bank 2 | hardware | array, 32-byte write buffer, command queue, CR2, SR2 | programming, erase, error flags |

### Interaction

Everything but two interrupt handlers (SysTick counts, OTG_FS queues an event
for `tud_task`) runs in the main loop: `tud_task`, LED, console,
`flash_process`, for ever. The callbacks of the DfuSe layer run inside
`tud_task`, so a callback and a call of `flash_process` never overlap. What
does run concurrently is the flash hardware (an operation goes on for
milliseconds to a second over many turns of the loop), the host, and the
power supply.

A download goes like this: DNLOAD is buffered by TinyUSB; the GETSTATUS that
follows reaches `tud_dfu_get_status_cb`, which hands the request to the driver
and answers dfuDNBUSY; later polls answer dfuDNBUSY until `flash_is_busy()` is
false, then dfuDNLOAD-IDLE. So three state machines (class driver, `dfuse_ctx`,
`flash_ctx`) and the hardware must agree about one operation, although a bus
reset, an abort or a class request may move one of them alone.

### What makes each part correct, and what is hard

* *Flash driver*: a job it took is done exactly and completely before it
  reports idle (partial last flash word included); no command to a busy queue;
  hardware left quiet. Hard: asynchronous hardware, several calls per job,
  refused commands, power loss.
* *DfuSe layer*: what the host was told is done is in the flash; every known
  request is answered; `op` and driver agree. Hard: lost answers, aborts,
  re-enumeration, resets of the class driver that call no callback.
* *Boot flow*: application entered on a chip out of reset; the flag outlives no
  boot; no reset loop; a broken image never locks the user out. Hard: resets,
  exceptions and power cuts between any two steps.
* *Clock tree*: dividers, wait states and supply voltage are in place before
  the switch, and a PLL is on only with its reference in the range selected for
  it; the second PLL leaves the first alone; until DFU mode is chosen
  nothing is touched, because the application and `start_pll` itself count on
  the reset state. Hard: hardware that follows in its own time, waits without a
  timeout, registers shared by both PLLs, resets between any two writes.
* *LED and console*: a beat is due when true time says so; what the console takes
  it sends back (it does not always: section 3). Hard: two counters that wrap at different moments, a loop
  that is late by several beats, FIFOs nobody checks.
* *GPIO modes*: a pin is what its last caller asked for, with nothing left of
  former modes or of calls for other pins, and no write on the way makes a pin
  drive a line it must not. Hard: eight writes to four registers, each visible
  outside at once.
* *Shift register*: the bit order agrees with the pin numbering; a call sends the
  image of all outputs (one of them keeps the radio on) and changes only its own;
  pin number check.

The list of hazards, each with its line and the properties aimed at it, is in
`PROJECT.json`.

## 2. Modules

```
FlashBank (hardware)                 AsyncFlash (what the driver promises)
   |                                      ^
DfuFlash (dfu_flash.c) ----> FlashDriver -' refinement
   |    [DfuFlashProofs]     [MCFlashDriver, FlashDriverProofs]
   |
DfuSe (dfu_tinyusb.c + class driver)
   |
DfuDevice (device, any USB side)  [MCDfuDevice, DfuDeviceProofs]  --> FlashDriver
   |
DfuSystem (device + DfuSe host)   [MCDfuSystem, DfuSystemProofs]
   |
Bootloader (DfuSystem run by main())  [MCBootloader, BootloaderProofs]
   |  refinement
   v
BootFlow (main, startup, boot_jump)  --.
ClockTree (clock.c)                  --+--> Firmware   [MCFirmware, FirmwareProofs]
LoopTasks (main.c: tick, LED, CDC)   --'
GpioPort (gpio.c, native pins)            [MCGpioPort, GpioProofs]
ShiftReg (gpio.c, extGpio)                [MCShiftReg, ShiftRegProofs]
```

* **FlashBank** models the hardware from the accesses the driver makes. A
  record `bank` holds the array, the contents the command in flight will leave
  (`running`, nonempty exactly when QW is set), the write buffer (nonempty
  exactly when WBNE is set) and LOCK, PG and SER. An operation is the *set* of
  its possible results: a command may be refused when a control bit of the
  other kind is still set, or, with `Faults`, at any time. Programming a word
  that is not erased, or cutting power during a command, leaves `Junk`. A byte
  of data is `<<payload, index>>`, so a misplaced or stale byte is visible.
  `DfuFlashProofs` proves that its operations stay inside the type.
* **DfuFlash** has the functions of `dfu_flash.c` under their own names. One
  call of `flash_process` is one of the actions `StartErase`, `FinishErase`,
  `WriteChunk`, `ForceWrite`, `FinishWrite`, or changes nothing; the
  fall-through from FLASH_OP_WRITE_PENDING is `WriteBank`. The EOP flag is
  cleared by the driver and read by nobody else, and is left out, as are PSIZE and the
  debug pin.
* **AsyncFlash** is the abstract driver: a memory and at most one job, which
  writes its range in some order and ends when all of it is done. **FlashDriver**
  puts DfuFlash under any caller and maps it to AsyncFlash: the memory is the
  array; the job is computed from the driver's state, the write buffer and the
  command in flight.
* **DfuSe** has one action per branch of `tud_dfu_get_status_cb` (split by the
  DFU state as the code splits it) and the other callbacks. `class` is TinyUSB's
  side: state, status, buffered request. It is external and kept permissive:
  where the class driver's behaviour is not fixed by `src/` (the default answer
  when a callback returns false; whether the buffer keeps an old request after
  a reset) the model allows every alternative. `Handled` is written out on its own
  because it negates the branches: a handled request is never answered by the
  default logic as well.
* **DfuDevice** composes DfuSe, driver and bank with a USB side that may send any
  request at any time. `Events` selects the disturbances: answers lost, power
  cut, bus reset during an operation, class driver reset without a callback.
  `UsesDriverAsAgreed` is the seam to FlashDriver: all the device does to driver
  and bank is what FlashDriver lets a caller do.
* **DfuSystem** adds the host as a record of what it may rely on: `view` (bytes
  it may expect to read back), `claim` (what the pending request adds once it is
  acknowledged), the base address it set and whether it waits for an answer.
* **BootFlow** is `main()` as a program counter. `on` is the set of peripherals
  not in their reset state; a reset empties it and keeps `BKP0R`. It leaves
  interrupts on (PRIMASK is 0); the first step of the start-up code masks them. The write of
  the flag and the reset that follows are two steps, as are reading and
  clearing it, and a power cut or an exception may come between. The button is
  free to change; `Rescue` is a user who holds it and cycles the power.
  The application area is one variable with three values; the DFU loop, or a
  reset in it (`CutImage`), may turn any of them into any other.
* **Bootloader** is DfuSystem run by the `main()` of BootFlow. `flash_init` is the
  step of `main()` of that name, `tud_task` and `flash_process` are called in the
  loop alone, every reset of BootFlow (exception, reboot, power cut) is DfuDevice's
  `PowerCut`, and what `jump_to_application` finds is computed from the bank:
  `image` is an operator here, "GOOD" when all of `Code` is firmware some host
  has sent. So BootFlow's nondeterministic `Update` becomes what the host and the
  driver really do, and `ImplementsBootFlow` is BootFlow with the bank for its
  image. An update is complete when the host has each byte of it acknowledged.
* **ClockTree** has one action per register write of `start_pll`, 18 in all
  (`clk.at` counts them); the wait loop before a write is its guard. The registers
  that both PLLs share, PLLCKSELR and PLLCFGR, are sets of bits: `& ~` is a
  difference and `|` a union, so a field that is not masked out, or a write
  that forgets the other PLL, leaves other bits than it should. The hardware reads source, dividers,
  input ranges and output switches back from these bits, and the frequencies are
  computed from them. Regulator,
  oscillator, PLLs and clock switch follow in actions of their own; `crystal`
  says whether the oscillator can start at all.
* **LoopTasks** has the SysTick handler, which comes between any two steps, and
  the two tasks of the loop. `led.age` is true time since the last beat, which
  the code does not have. The key is read and the line printed as the task does
  it, in one step: no handler touches the FIFOs. TinyUSB's FIFOs and the terminal are external; of the
  bytes only the number is kept.
* **Firmware** runs the three together. A step of BootFlow that resets the chip
  resets the clock registers; the start-up code, not the reset, gives the
  variables of the tasks their initial values. The last write of `start_pll` is
  the step of `main()` behind the call. `FirmwareSpec` implies the `Spec` of
  BootFlow.
* **GpioPort** has one action per register write of `gpio_setMode`, for any
  caller and any sequence of modes, and the other operations between calls. A
  field is the set of its bits: the writes that clear it come first, and the ones
  that follow only add. `asked` records what each pin was last asked for; the meaning of a
  mode is taken from `gpio.h`, that of a register field from the hardware.
* **ShiftReg** has the wires STR, CLK and DAT, the chain and its outputs, and a
  step per write of a pin. The chain is of SN74HC595 (`pinmap.h`), which shift on the rising edge of
  CLK and latch on that of STR; what the outputs show at power-on is arbitrary. The division that finds the byte is C's, towards zero.

Addresses are offsets from 0x08100000. Wording, logging and poll timeouts are
left out; a poll timeout is only a delay of the host.

## 3. Runs

| Run | Instance | Shows |
|---|---|---|
| `flash_refines` | 2 sectors of 2 words of 2 bytes, erased or with an image, writes up to 3 bytes, power cuts | FlashDriver implements AsyncFlash (with its liveness), `QuietWhenIdle` |
| `update` | the whole of `main()`; 2 sectors of 2 words of 2 bytes, blocks of 3 bytes, an application that takes all of the bank but the padding; lost answers, resets, exceptions, power cuts | `AcknowledgedUpdateBoots`, `FlashOnlyInLoop`, `ImplementsBootFlow`, `UsesDriverAsAgreed`, `ReadBack`, `PollFindsItsOp`, `PollsAdvance`, `WriteStartsAtFirstPoll`, `QuietWhenIdle`, `TypeOK` |
| `dfu_any_event` | same bank, blocks of 4 and 3 bytes; power cuts, re-enumeration, class resets, refused commands | `OpMatchesDriver`, `LaunchOnlyWhenReady`, `JobWindsDown` |
| `dfu_live` | 1 sector, refused commands, lost answers, power cuts, fairness | `DownloadAnswered`, `DriverDrains` |
| `boot` | the boot flow and the clock tree as they are, with and without a working crystal; a tick of 3 bits, beats of 3 ms, FIFOs of 2 bytes, printed lines of 2 bytes | `JumpIsClean`, `FlagInTransit`, `ClockUntouched`, `ClockWithinLimits`, `PeripheralClocks`, `Pll1Undisturbed`, `BeatsOnTime`, `NoResetLoop`, `BootEnds`, `LockupIsRecoverable`, `FirmwareTypeOK` |
| `gpio_modes` | a port of two pins, one in each alternate function register, every mode but OPEN_DRAIN_PU | `PinsAsAsked`, `NoStrayDrive` |
| `shift_reg` | 2 registers of 3 bits, every pin of the pin map, resets | `OutputsMatch`, `ReadMatches`, `OnlyTheRequestedPin` |
| `dfu_remount` | re-enumeration in mid-operation | violation of `QuietWhenIdle` |
| `dfu_class_reset` | class driver reset in mid-operation | violation of `WriteStartsAtFirstPoll` |
| `dfu_fault` | refused commands | violation of `EraseCompleteMeansErased` |
| `gpio_pull_up` | the port of `gpio_modes`, every mode | violation of `PinsAsAsked` |
| `shift_reg_guard` | every pin number the guard lets pass | violation of `OnlyTheRequestedPin` |

### Bounds, and why they are enough

Two sectors distinguish "the right one" from "another one" and let the sector
number wrap; two words per sector distinguish first, next and last chunk, and
a word of two bytes can be partly filled. Block lengths 4 and 3 give a write
without and with a partial last word (XFER is 4), and the two blocks of the
bank let a block be written next to another. `update` has only the harder of
the two lengths, which takes both kinds of chunk; `dfu_live` and `dfu_any_event`
have both. In `flash_refines` a request may
start at any word, so one may also reach across the boundary of two sectors.
One payload is enough for `update`: bytes differ by their index, and a
rewritten word is `Junk` in any case. The bank starts out as `Junk`, so the
application first runs after an update. Nothing else bounds the behaviours: there
is no counter, and requests, polls and disturbances may be repeated for ever.

Two runs merge states that differ only in values no later step and no property
reads. In `dfu_any_event` (`VIEW Control`) these are the contents of the memory.
In `update` (`VIEW Live`) they are the last request of an idle
driver, `current_addr`, a request that stays in the class driver's buffer after it
is answered, and the key where `main()` does not look at it. All of their properties
are also proved. `dfu_live` has one sector, because temporal checking is slower and the
sector number plays no part in progress. Two registers of three bits keep every
index computation of `gpio.c` apart from its neighbours (byte and bit count
differ, and so do the positions counted from either end).

In `boot` nothing is cut down but the counters of the loop: with eight ticks and
beats of three, start time and counter wrap at different moments and the loop
may be up to two beats late; a FIFO of two bytes is empty, partly full and full.
`TICK` is
the argument of SysTick_Config, in cycles: 399999, where a millisecond has 400000,
so `PeripheralClocks` allows one cycle. In `gpio_modes` two pins are
enough to tell "this pin" from "another one" and the two alternate function
registers apart; two alternate functions, neither of whose bits include the
other's, tell "selected" from the reset value and from what is left of the other.

Deadlock is checked in every run.

### Fairness

* `WF(flash_process)` or `WF(MainLoop)`: the main loop calls `flash_process`
  on every turn and contains no wait.
* `WF(HwDone)`: the hardware completes a command it accepted.
* `WF(Poll)`: a host with a request pending keeps polling. An answer may be
  lost, but not for ever; the host is not assumed to send, abort or end
  anything.
* `WF(Processor)` and `WF(Hardware)` in Firmware: the processor runs, and
  regulator, PLLs and clock switch reach the state they are set to. The crystal
  only does if it is not dead, and a dead one is part of the model: `BootEnds`
  names the wait for it as the one place where a boot may stay, on the way to DFU
  mode, never on the way to the application; `LockupIsRecoverable` needs a
  working one. Both assume in addition that power cuts, exceptions and resets by
  the application stop at some point (`<>[][Calm]_vars`), without which no boot
  ends. `WF(Rescue)` is the user.

### Findings

The five violation runs show disagreements between a comment and the code;
`PROJECT.json` gives the lines.

1. `flash_init`, called on every mount, declares the driver idle while the
   hardware is not: SER or PG stay set, or the write buffer stays partly filled.
2. A class driver reset without a callback leaves `dfuse_ctx.op` set; the next
   block is not started by its first GETSTATUS and no error is reported.
3. Flash error flags are never read: a refused erase is reported complete.
4. The guard `pin > 24` lets pin 24 pass, which drives pin 16.
5. OPEN_DRAIN_PU sets no pull-up, although the comment on the line and the enum
   both promise one. No caller in the bootloader uses the mode.

Two more have no run. The comment on the range of the first PLL (`clock.c:22`) says 8 to
16 MHz; the reference is 5 MHz, and the setting is the one for 4 to 8 MHz, as
`clock.c:53` says of the same setting of the third PLL. `ClockWithinLimits` reads the
range from the register, and `CommentOnRangeIsWrong` is proved: the registers agree with
each other, the comment does not agree with them. And `cdc_task` takes bytes from the host
before it knows of room to echo them, without a look at what `tud_cdc_write` accepted
(`main.c:117`, under "Echo back"): with a host that does not read, the echo has gaps.

What 1 and 2 do not break is shown by `dfu_any_event` and by the proofs: no
command is given to a busy queue, and `op` still never stands for an operation
other than the driver's.

## 4. Proofs

Each theorem holds for every value of the constants that satisfies the named
assumptions: `GeometryAssumption` (positive sizes, a sector is a whole number of
flash words), `PayloadAssumption`, `XferAssumption`, `LengthsAssumption`,
`EventsAssumption`, `LoopAssumption`, `TickAssumption`, `PortAssumption` and those of
ShiftReg. TLC evaluates them in every run that extends their module. Further
assumptions of a theorem stand in its ASSUME and are named below; those about the
environment rule out the situations of the findings in section 3.

`DfuFlashProofs` has the lemmas about the driver and the bank on which the next
four modules rest: types, what every state of the driver has left in the
hardware (`Settled`), and, on hardware that refuses nothing, that a write goes word by
word (`WordByWord`), with the exact effect of each path of `flash_process`.

`FlashDriverProofs` (driver with any caller):

* `DriverQuietWhenIdle`: `Safety => []QuietWhenIdle` (`Safety` is `Spec` without its
  fairness), by `Settled` and the fact that no
  request is taken while CR2 is locked. Refused commands included.
* `DriverKeepsItsPromise`: if `Faults = FALSE`, `Safety` implies the `Safety` of
  AsyncFlash under the refinement mapping: the safety half of
  `ImplementsAsyncFlash`. Besides `Settled` and `WordByWord` the invariant needs `InFlight`: the command in flight is a part of the job, and no
  byte of it is still waiting to be programmed. Then a chunk that moves from the
  request to the write buffer and on to the command in flight leaves the abstract
  job as it is, completion is a `Work`, and the last call of `flash_process` finds
  all of the job in the memory.

`DfuDeviceProofs` (device, any USB side and any set of disturbances):

* `DeviceTypeCorrect`: `DeviceSpec => []DeviceTypeOK`.
* `OpAlwaysMatchesDriver`: `DeviceSpec => []OpMatchesDriver`. By itself
  `OpMatchesDriver` is inductive over the type invariant: an operation is
  recorded together with the driver's acceptance; everything that moves the
  driver back to idle keeps its address; a mount, abort or power cut clears `op`.
* `CommandsWaitForTheQueue`: `DeviceSpec => LaunchOnlyWhenReady`, an action
  property: each action of `flash_process` that changes the command in flight
  has `flash_op_complete` in its guard, and nothing else but the hardware and a
  power cut changes it.
* `JobAlwaysWindsDown`: `DeviceSpec => JobWindsDown`, with every disturbance and
  refused commands. `Left` (in DfuFlash) weighs what a job still needs: the
  bytes not yet taken, the write buffer, the command in flight, the last call.
  Each of the paths of `flash_process` and each completion lowers it and nothing raises it (`FlashProcessWindsDown`, `HwDoneWindsDown`,
  `StepWindsDown`). That it is a natural number needs `Metered`: the offset never
  passes the length. With the fairness of MainLoop and of the hardware this is what
  makes `DriverDrains` true; that the steps stay enabled is left to TLC.

With one disturbance ruled out at a time:

* `DeviceUsesDriverAsAgreed`: if no enumeration comes during an operation,
  `DeviceSpec => UsesDriverAsAgreed`. `Confined` is the invariant: a data block in the class
  driver's buffer lies inside the bank at the base the device has, for as long as it
  may still be started, and CR2 is locked exactly while the device is off.
* `DeviceKeepsFlashPromise`: from that and `DriverKeepsItsPromise`, which is cited
  through an instance of FlashDriverProofs: if in addition `Faults = FALSE`, the device
  implements the safety of AsyncFlash. The chain from the USB requests down to
  the header's promise is closed without a proof about both layers at once.
* `PollAlwaysFindsItsOp`, `FirstPollStartsTheWrite`: if the class driver is not
  reset without a callback, `[]PollFindsItsOp` and `WriteStartsAtFirstPoll`. The
  inductive invariant is `Coupled`: an operation is recorded exactly while the
  class driver is in dfuDNBUSY with a request of that kind (or detached), and a
  mounted device has an address. `PollFindsItsOp` alone is not inductive: that
  op is idle at DNLOAD_SYNC depends on its being idle in all states a DNLOAD is
  accepted in.
* `EveryPollAdvances`: under the same assumption `PollsAdvance`: a poll never falls
  through every branch. It is the other half of `DownloadAnswered`: after the
  first poll only the driver can keep a request from being answered. It needs
  `Prompt` besides `Coupled`: the commands that are answered at once never reach
  dfuDNBUSY.
* `QuietWithoutRemount`: if no enumeration comes during an operation,
  `[]QuietWhenIdle`. `IdleWhenOff` carries `Settled` across a reset.

`DfuSystemProofs`:

* `SystemIsADevice`: `Spec => DeviceSpec`. Every step of the system is a step of
  the device, so the theorems above hold with the host as well
  (`HostPollFindsItsOp`, `HostWriteStartsAtFirstPoll`).
* `SystemTypeCorrect`: `Spec => []TypeOK`.
* `AcknowledgedIsInFlash`: `Spec => []ReadBack`, what the whole system is for. It
  assumes that no enumeration comes during an operation, that the class driver is
  not reset without a callback and that the hardware refuses nothing; lost
  answers, aborts, unplugging and power cuts are covered. The invariant has two halves.
  *Order*: `Settled`, `IdleWhenOff`, `Coupled`, `Orderly` (the buffered request is one
  a DfuSe host sends, and lies in the bank) and `WordByWord`. *Reliance*:
  `Cautious` (the host relies on no byte that the buffered request, the driver,
  the write buffer or the command in flight may still change), `BaseKnown` (a base
  address the host knows is the one the device has) and
  `Promised` (the claim of a pending request is asked for by the request in the
  class driver's buffer, then carried by the driver, the buffer or the command in
  flight, and in the array by the time the device goes idle). Every step of the
  device either leaves what the host relies on alone (`Restrained`) or is the
  acknowledgement that turns a met claim into reliance.

`BootloaderProofs` (the whole chip):

* `UpdateIsASystem`: `UpdateSpec => Spec` of DfuSystem, so that everything above holds
  in the place `main()` gives it.
* `FlashAtRestOutsideLoop`: `UpdateSpec => []FlashOnlyInLoop`, whatever the
  disturbances and even if commands are refused. `DeviceTypeOK` and `Unlocked` (a
  mounted device has the bank unlocked) are what it needs besides itself.
* `UpdateImplementsBootFlow`: `UpdateSpec => ImplementsBootFlow`. Every step outside the loop
  leaves the bank alone because of `FlashOnlyInLoop`: nothing is in flight that the
  hardware could complete.
* `UpdateJumpIsClean`, `UpdateFlagInTransit`, `UpdateNeverLoops`: what is proved of BootFlow
  (below) holds in Bootloader, by the refinement and an instance of FirmwareProofs.
  `ApplicationFindsFlashReset` adds the flash to it: where the application starts, bank 2
  is as a reset leaves it.
* `AcknowledgedUpdateAlwaysBoots`: `UpdateSpec => []AcknowledgedUpdateBoots`, under the
  assumptions of `AcknowledgedIsInFlash`. Needs `LockedUp`: the core locks up only in
  an image that is not complete, and nothing changes the image after that.

  Neither assumption about the USB side can go: with "earlyMount" alone, or
  "classReset" alone, TLC finds behaviours of DfuSystem in which `ReadBack` fails.
  Both are the situations of findings 1 and 2.

`FirmwareProofs`:

* BootFlow: `BootTypeCorrect`, and `FlagOnlyInTransit` and
  `ApplicationEnteredClean`, `[]FlagInTransit` and `[]JumpIsClean`. Neither is inductive
  alone: that the application finds a clean chip depends on the path to the
  jump, which leads through the reset. `BootInv` adds `Untouched`: until `main()`
  has read the button, only the backup domain is out of its reset state and
  interrupts are masked.
* `BootNeverLoops`: `Spec => NoResetLoop`. `StepsLeft` is how far a boot is from its
  end; every step of `main()` lowers it, also the reset by which the bootloader
  gets to the application, because the flag is set by then (`FlagInTransit`).
* `FirmwareImplementsBoot`: `FirmwareSpec => Spec`, so that these hold in the firmware
  (`FirmwareFlagInTransit`, `FirmwareJumpIsClean`, `FirmwareNeverLoops`).
* `BeatsAlwaysOnTime`, for every width of the tick and every interval below it, by
  `LoopInv`: the difference of counter and start time, modulo the wrap, is the
  true time since the last beat.
* `ClocksWithinLimits`, `CommentOnRangeIsWrong`, `Pll1LeftAlone`, `ClockAlwaysUntouched`,
  `PeripheralsClocked` by
  `ClkInv` and `Placed` (which step of `main()` finds which state of the clock tree).
  `ClkInv` says what each register holds after each number of writes, bit by bit for the shared
  ones; that the masked and unmasked writes lead from one set of bits to the next is
  `Pll1Bits`, `Pll3Bits` and `ConfigBits`. What the hardware makes of the bits is
  `Pll1Set`, `CpuFromPll1` and `Pll3Set`: source, divider, range and oscillator of each PLL. For
  `Pll1LeftAlone` the first PLL has these settings before and after every step
  from its start on (`Pll1Runs`), although the registers they are read from change.
  `PeripheralsClocked` assumes TICK = 399999, the value in `init.c`.

`GpioProofs`: `GpioTypeCorrect`, `NeverAStrayDrive` for ports of any size, and
`PinsAlwaysAsAsked` if OPEN_DRAIN_PU is not among `Modes`. `GpioInv` says for the pin
of the call which fields are empty and which written at each step, and for all others that
they are settled; two pins never share a field.

`ShiftRegProofs`: `ShiftRegTypeCorrect` and, if the pins asked for are
numbers of outputs (`Pins \subseteq Pin`, which the guard of the code does not ensure),
`OutputsAlwaysMatch`, `ReadAlwaysMatches`, `OnlyTheRequestedPinChanges`, for any number
and width of registers. `ShiftInv` says where each bit of the image is while it
is being shifted.

Model-checked only: liveness (`ImplementsAsyncFlash` beyond its steps,
`DownloadAnswered`, `DriverDrains`, `BootEnds`, `LockupIsRecoverable`), because fairness
and ENABLED are out of the prover's reach. What safety has to contribute to the first
four is proved: each step is a step of AsyncFlash, the job winds down, no poll is
wasted, and the boot comes nearer to its end.

## 5. Not modelled

* `flash_erase_sector_blocking`, `flash_write_blocking` and `flash_get_state`:
  no callers.
* Addresses outside bank 2, and 32-bit wrap-around of addresses: the host is
  told the layout by the interface string, and what a store elsewhere does is
  not a matter of this code.
* Alternate settings other than 0: the callbacks return at once and the
  descriptor declares one.
* The USB interrupt: `tud_int_handler` queues events for `tud_task`, which
  DfuDevice has as requests in any order.
* USB descriptors: constant tables, and one callback that fills a static buffer
  before every use. Nothing in it depends on what was called before.
* Reading a pin (no state; it is the input `button`), the `gpioPin_*` wrappers (no
  callers), pin numbers above 15 on a native port.
* The wait for the USB supply in `usb_init`, which the chip itself provides on
  this board.
* A main loop held up for a whole turn of the tick (49 days).
* The contents of console lines, the pin map, debug output, delays, linker
  script, system calls: no state.

## 6. What is left

* `ReadBack` with refused commands, once the driver reads the error flags.
* OPEN_DRAIN_PU in `GpioProofs` and `Pins \subseteq Pin` in `ShiftRegProofs`: the
  assumptions go when the findings are fixed.
