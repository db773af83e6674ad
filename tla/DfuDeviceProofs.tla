--------------------------- MODULE DfuDeviceProofs ---------------------------
(***************************************************************************)
(* DfuDevice proved for every geometry and payload.  Whatever the USB side *)
(* and the power supply do: types, that the protocol layer and the driver  *)
(* stand for the same operation, that no command reaches a busy flash, and *)
(* that a job winds down.  Then what holds as long as the USB side does    *)
(* not take the class driver or the driver by surprise; the runs           *)
(* dfu_class_reset and dfu_remount show that each assumption is needed.    *)
(***************************************************************************)
EXTENDS DfuDevice, DfuFlashProofs

(***************************************************************************)
(* Types of the parts.                                                     *)
(***************************************************************************)

\* What static storage holds after reset is well typed.
LEMMA ZeroTypes ==
  /\ ZeroFlashCtx \in FlashCtxType
  /\ IsDfuseCtx(ZeroDfuseCtx)
  /\ IsRequest(NoRequest)
<1>1. ZeroFlashCtx \in FlashCtxType /\ ZeroFlashCtx.buffer \in Payload
  BY ZeroFlashCtxType
<1>2. IsDfuseCtx(ZeroDfuseCtx)
  BY DEF IsDfuseCtx, ZeroDfuseCtx, DfuseOp
<1>3. IsRequest(NoRequest)
  BY <1>1 DEF IsRequest, NoRequest, Command, Request, ReqKind
<1> QED
  BY <1>1, <1>2, <1>3

\* The base of a sector is a number.
LEMMA SectorBaseIsNat == \A addr \in SectorBases : addr \in Nat
<1> SUFFICES ASSUME NEW s \in 0 .. NSECT - 1 PROVE s * SECTOR \in Nat
  BY DEF SectorBases
<1> QED
  BY GeometryAssumption, SMT

\* Data blocks are counted from 2, so their address is a number again.
LEMMA BlockAddrIsNat ==
  ASSUME NEW base \in Nat, NEW block \in Nat, block >= 2
  PROVE  BlockAddr(base, block) \in Nat
<1>1. block - 2 \in Nat /\ XFER \in Nat
  BY XferAssumption
<1>2. \A m, n \in Nat : m * n \in Nat
  BY SMT
<1>3. (block - 2) * XFER \in Nat
  BY <1>1, <1>2
<1> QED
  BY <1>3 DEF BlockAddr

\* Every request of the USB side is one tud_dfu_get_status_cb can be given.
LEMMA RequestsAreRequests == \A req \in Requests : IsRequest(req)
<1> USE DEF IsRequest, Request, Command, ReqKind
<1>0. ZeroFlashCtx.buffer \in Payload
  BY ZeroTypes DEF FlashCtxType
<1>1. \A kind \in {"GET_COMMANDS", "MASS_ERASE", "OTHER"} : IsRequest(Command(kind, 0))
  BY <1>0
<1>2. \A kind \in {"SET_ADDRESS", "ERASE"}, addr \in SectorBases : IsRequest(Command(kind, addr))
  BY <1>0, SectorBaseIsNat
<1>3. ASSUME NEW block \in Blocks, NEW length \in Lengths, NEW data \in Payload
      PROVE  IsRequest(Request("DATA", 0, block, length, data))
  <2>1. length \in Nat /\ length > 0
    BY LengthsAssumption, XferAssumption
  <2>2. block \in Nat /\ block >= 2
    BY DEF Blocks
  <2> QED
    BY <2>1, <2>2
<1> QED
  BY <1>1, <1>2, <1>3 DEF Requests

\* A reset of the class driver keeps its type.
LEMMA ResetClassType ==
  ASSUME IsClass(class), NEW state \in DfuState \cup Detached, ResetClass(state)
  PROVE  IsClass(class')
BY ZeroTypes DEF IsClass, ResetClass, Status

\* Answering GETSTATUS: one step per branch of tud_dfu_get_status_cb.
LEMMA GetStatusType ==
  ASSUME DeviceTypeOK, GetStatus
  PROVE  DeviceTypeOK' /\ bank' = bank
<1>0. class.state \in DfuState /\ bank' = bank
  BY DEF GetStatus, tud_dfu_get_status_cb
<1>1. ASSUME NEW status \in Status, NEW state \in DfuState, reply(status, state)
      PROVE  IsClass(class')
  BY <1>1 DEF DeviceTypeOK, IsClass, reply
<1>2. ASSUME NEW op \in DfuseOp, dfuse_ctx' = [dfuse_ctx EXCEPT !.op = op]
      PROVE  IsDfuseCtx(dfuse_ctx')
  BY <1>2 DEF DeviceTypeOK, IsDfuseCtx
<1>3. /\ {"OK", "ERR_TARGET", "ERR_ADDRESS"} \subseteq Status
      /\ {"DNLOAD_IDLE", "DNBUSY", "ERROR"} \subseteq DfuState
  BY DEF Status, DfuState
<1>4. IsDfuseCtx(dfuse_ctx') /\ flash_ctx' \in FlashCtxType /\ IsClass(class')
  <2> USE DEF DeviceTypeOK
  <2>1. CASE GetCommands
    BY <1>1, <1>3, <2>1 DEF GetCommands, IsDfuseCtx
  <2>2. CASE SetAddress
    <3>1. class.req.addr \in Nat
      BY DEF IsClass, IsRequest
    <3> QED
      BY <1>1, <1>3, <2>2, <3>1 DEF SetAddress, IsDfuseCtx, DfuseOp
  <2>3. CASE PollSetAddress
    BY <1>1, <1>2, <1>3, <2>3 DEF PollSetAddress, DfuseOp
  <2>4. CASE MassErase
    BY <1>1, <1>3, <2>4 DEF MassErase
  <2>5. CASE Erase
    <3>1. class.req.addr \in Nat
      BY DEF IsClass, IsRequest
    <3>2. flash_ctx' \in FlashCtxType
      BY <2>5, <3>1 DEF Erase, flash_erase_sector_async, FlashCtxType, OpState
    <3>3. IsDfuseCtx(dfuse_ctx')
      BY <2>5, <3>1 DEF Erase, IsDfuseCtx, DfuseOp
    <3> QED
      BY <1>1, <1>3, <2>5, <3>2, <3>3 DEF Erase
  <2>6. CASE WriteMemory
    <3> DEFINE addr == BlockAddr(dfuse_ctx.base_addr, class.req.block)
    <3>1. /\ class.req.block \in Nat /\ class.req.block >= 2
          /\ class.req.buffer \in Payload /\ class.req.length \in Nat
      BY <2>6 DEF WriteMemory, IsClass, IsRequest
    <3>2. addr \in Nat
      BY <3>1, BlockAddrIsNat DEF IsDfuseCtx
    <3> HIDE DEF addr
    <3>3. PICK ok \in BOOLEAN :
            /\ flash_write_async(addr, class.req.buffer, class.req.length, ok)
            /\ IF ok
               THEN /\ dfuse_ctx' = [dfuse_ctx EXCEPT !.op = "WRITE_BUSY",
                                                      !.current_addr = addr]
                    /\ reply("OK", "DNBUSY")
               ELSE /\ reply("ERR_ADDRESS", "ERROR")
                    /\ UNCHANGED dfuse_ctx
      BY <2>6 DEF WriteMemory, addr
    <3>4. flash_ctx' \in FlashCtxType
      BY <3>1, <3>2, <3>3 DEF flash_write_async, FlashCtxType, OpState
    <3>5. IsDfuseCtx(dfuse_ctx')
      BY <3>2, <3>3 DEF IsDfuseCtx, DfuseOp
    <3> QED
      BY <1>1, <1>3, <3>3, <3>4, <3>5
  <2>7. CASE PollFlash
    <3>1. IsClass(class')
      BY <1>1, <1>3, <2>7 DEF PollFlash
    <3>2. IsDfuseCtx(dfuse_ctx')
      BY <1>2, <2>7 DEF PollFlash, DfuseOp
    <3> QED
      BY <2>7, <3>1, <3>2 DEF PollFlash
  <2>8. CASE Unhandled
    <3>1. DefaultNext(class.state) \subseteq DfuState
      BY <1>0 DEF DefaultNext, DfuState
    <3>2. IsClass(class')
      BY <2>8, <3>1 DEF Unhandled, IsClass
    <3> QED
      BY <2>8, <3>2 DEF Unhandled
  <2> QED
    BY <2>1, <2>2, <2>3, <2>4, <2>5, <2>6, <2>7, <2>8 DEF GetStatus, tud_dfu_get_status_cb
<1> QED
  BY <1>0, <1>4 DEF DeviceTypeOK

\* The class requests that leave the driver and the bank alone.
LEMMA ClassRequestType ==
  ASSUME DeviceTypeOK,
         \/ \E req \in Requests : Download(req)
         \/ DnloadEnd \/ Upload \/ Abort \/ ClrStatus \/ Reselect \/ Unplug
  PROVE  DeviceTypeOK' /\ UNCHANGED <<flash_ctx, bank>>
<1> USE DEF DeviceTypeOK
<1>0. {"DFU_IDLE", "DNLOAD_SYNC", "MANIFEST_SYNC", "UPLOAD_IDLE", "UNMOUNTED"}
        \subseteq DfuState \cup Detached
  BY DEF DfuState, Detached
<1>1. CASE \E req \in Requests : Download(req)
  BY <1>0, <1>1, RequestsAreRequests DEF Download, Dnload, IsClass
<1>2. CASE DnloadEnd
  BY <1>0, <1>2, ZeroTypes DEF DnloadEnd, IsClass
<1>3. CASE Upload
  <2>1. IsClass(class')
    BY <1>0, <1>3 DEF Upload, IsClass
  <2>2. IsDfuseCtx(dfuse_ctx')
    BY <1>3 DEF Upload, tud_dfu_upload_cb, IsDfuseCtx
  <2> QED
    BY <1>3, <2>1, <2>2 DEF Upload
<1>4. CASE Abort
  <2>1. IsDfuseCtx(dfuse_ctx')
    BY <1>4 DEF Abort, tud_dfu_abort_cb, IsDfuseCtx, DfuseOp
  <2> QED
    BY <1>0, <1>4, <2>1, ResetClassType DEF Abort
<1>5. CASE ClrStatus \/ Reselect \/ Unplug
  BY <1>0, <1>5, ResetClassType DEF ClrStatus, Reselect, ClassReset, Unplug
<1> QED
  BY <1>1, <1>2, <1>3, <1>4, <1>5

\* An enumeration keeps the types and leaves the command in flight alone.
LEMMA MountType ==
  ASSUME DeviceTypeOK, Enumerate
  PROVE  DeviceTypeOK' /\ bank'.running = bank.running
<1>1. IsDfuseCtx(dfuse_ctx')
  BY DEF Enumerate, Mount, tud_mount_cb, ZeroDfuseCtx, IsDfuseCtx, DfuseOp
<1>2. IsBank(bank') /\ bank'.running = bank.running /\ flash_ctx' \in FlashCtxType
  BY FlashInitType DEF Enumerate, Mount, tud_mount_cb, DeviceTypeOK
<1>3. IsClass(class')
  BY ResetClassType DEF Enumerate, Mount, DeviceTypeOK, DfuState
<1> QED
  BY <1>1, <1>2, <1>3 DEF DeviceTypeOK

\* Reset and power on.
LEMMA StartType ==
  ASSUME DeviceTypeOK, Start
  PROVE  DeviceTypeOK' /\ bank'.running = bank.running
<1>1. IsClass(class')
  BY ZeroTypes DEF Start, ClassAt, IsClass, Detached, Status
<1>2. IsBank(bank') /\ bank'.running = bank.running /\ flash_ctx' \in FlashCtxType
  BY FlashInitType DEF Start, DeviceTypeOK
<1> QED
  BY <1>1, <1>2 DEF Start, DeviceTypeOK

\* A power cut keeps the types.
LEMMA PowerCutType ==
  ASSUME DeviceTypeOK, PowerCut
  PROVE  DeviceTypeOK'
<1>1. IsClass(class')
  BY ZeroTypes DEF PowerCut, ClassAt, IsClass, Detached, Status
<1> QED
  BY <1>1, ZeroTypes, CutOffIsBank DEF PowerCut, DeviceTypeOK

(***************************************************************************)
(* Type correctness.                                                       *)
(***************************************************************************)

\* The device out of reset is well typed.
LEMMA DeviceInitType == DeviceInit => DeviceTypeOK
<1> SUFFICES ASSUME DeviceInit PROVE DeviceTypeOK
  OBVIOUS
<1>1. IsBank(bank)
  BY ResetBankIsBank DEF DeviceInit, Cell
<1>2. IsClass(class)
  BY ZeroTypes DEF DeviceInit, ClassAt, IsClass, Detached, Status
<1> QED
  BY <1>1, <1>2, ZeroTypes DEF DeviceInit, DeviceTypeOK

\* Every step of the device keeps the types.
LEMMA DeviceStepType == DeviceTypeOK /\ [DeviceNext]_device => DeviceTypeOK'
<1> SUFFICES ASSUME DeviceTypeOK, [DeviceNext]_device PROVE DeviceTypeOK'
  OBVIOUS
<1>1. CASE GetStatus
  BY <1>1, GetStatusType
<1>2. CASE \/ \E req \in Requests : Download(req)
           \/ DnloadEnd \/ Upload \/ Abort \/ ClrStatus \/ Reselect \/ Unplug
  BY <1>2, ClassRequestType
<1>3. CASE Enumerate
  BY <1>3, MountType
<1>4. CASE Start
  BY <1>4, StartType
<1>5. CASE MainLoop
  BY <1>5, FlashProcessType DEF MainLoop, DeviceTypeOK
<1>6. CASE Hardware
  BY <1>6, HwDoneIsBank DEF Hardware, DeviceTypeOK
<1>7. CASE PowerCut
  BY <1>7, PowerCutType
<1>8. CASE UNCHANGED device
  BY <1>8 DEF device, DeviceTypeOK
<1> QED
  BY <1>1, <1>2, <1>3, <1>4, <1>5, <1>6, <1>7, <1>8 DEF DeviceNext, UsbNext

\* The bank, the driver, the protocol layer and the class driver keep their
\* types; in particular every address the protocol layer computes is a number
\* and no step leaves the driver in a state flash_process does not know.
THEOREM DeviceTypeCorrect == DeviceSpec => []DeviceTypeOK
BY DeviceInitType, DeviceStepType, PTL DEF DeviceSpec

(***************************************************************************)
(* The protocol layer and the driver.  OpMatchesDriver is inductive with   *)
(* the types: the protocol layer sets its operation only when the driver   *)
(* has taken the request, and the driver, once busy, takes no other.       *)
(***************************************************************************)

\* flash_process moves an operation forward and keeps its kind and address.
LEMMA DriverStepKeepsOp ==
  ASSUME DeviceTypeOK, OpMatchesDriver, MainLoop
  PROVE  OpMatchesDriver'
<1>1. /\ flash_ctx'.addr = flash_ctx.addr
      /\ flash_ctx.state \in {"ERASE_PENDING", "ERASE_BUSY"} =>
           flash_ctx'.state \in {"IDLE", "ERASE_BUSY"}
      /\ flash_ctx.state \in {"WRITE_PENDING", "WRITE_BUSY"} =>
           flash_ctx'.state \in {"IDLE", "WRITE_BUSY"}
      /\ flash_ctx.state # "IDLE"
  BY DEF MainLoop, flash_process, StartErase, FinishErase, WriteChunk, ForceWrite,
         FinishWrite, Writing, DeviceTypeOK, FlashCtxType, OpState
<1>2. dfuse_ctx' = dfuse_ctx
  BY DEF MainLoop
<1> QED
  BY <1>1, <1>2 DEF OpMatchesDriver, DeviceTypeOK, FlashCtxType, OpState

\* The callback records an operation only as the driver takes it.
LEMMA GetStatusKeepsOp ==
  ASSUME DeviceTypeOK, OpMatchesDriver, GetStatus
  PROVE  OpMatchesDriver'
<1> USE DEF OpMatchesDriver, DeviceTypeOK, IsDfuseCtx
<1>1. CASE GetCommands
  BY <1>1 DEF GetCommands
<1>2. CASE SetAddress
  BY <1>2 DEF SetAddress
<1>3. CASE PollSetAddress
  BY <1>3 DEF PollSetAddress
<1>4. CASE MassErase \/ Unhandled
  BY <1>4 DEF MassErase, Unhandled
<1>5. CASE Erase
  BY <1>5 DEF Erase, flash_erase_sector_async, FlashCtxType
<1>6. CASE WriteMemory
  <2> DEFINE addr == BlockAddr(dfuse_ctx.base_addr, class.req.block)
  <2> HIDE DEF addr
  <2>1. PICK ok \in BOOLEAN :
          /\ flash_write_async(addr, class.req.buffer, class.req.length, ok)
          /\ dfuse_ctx' = IF ok THEN [dfuse_ctx EXCEPT !.op = "WRITE_BUSY",
                                                       !.current_addr = addr]
                          ELSE dfuse_ctx
    BY <1>6 DEF WriteMemory, addr
  <2> QED
    BY <2>1 DEF flash_write_async, FlashCtxType
<1>7. CASE PollFlash
  BY <1>7 DEF PollFlash
<1> QED
  BY <1>1, <1>2, <1>3, <1>4, <1>5, <1>6, <1>7 DEF GetStatus, tud_dfu_get_status_cb

\* No step sets the protocol layer and the driver apart.
LEMMA DeviceStepKeepsOp ==
  DeviceTypeOK /\ OpMatchesDriver /\ [DeviceNext]_device => OpMatchesDriver'
<1> SUFFICES ASSUME DeviceTypeOK, OpMatchesDriver, [DeviceNext]_device
             PROVE  OpMatchesDriver'
  OBVIOUS
<1>1. CASE GetStatus
  BY <1>1, GetStatusKeepsOp
<1>2. CASE MainLoop
  BY <1>2, DriverStepKeepsOp
<1>3. CASE UNCHANGED flash_ctx
           /\ (UNCHANGED dfuse_ctx \/ Upload \/ Abort)
  BY <1>3 DEF OpMatchesDriver, DeviceTypeOK, IsDfuseCtx, Upload, Abort, tud_dfu_upload_cb,
              tud_dfu_abort_cb
<1>4. CASE Enumerate
  BY <1>4 DEF Enumerate, Mount, tud_mount_cb, ZeroDfuseCtx, OpMatchesDriver
<1>5. CASE Start
  BY <1>5 DEF Start, flash_init, OpMatchesDriver, DeviceTypeOK, FlashCtxType
<1>6. CASE PowerCut
  BY <1>6 DEF PowerCut, ZeroDfuseCtx, OpMatchesDriver
<1> QED
  BY <1>1, <1>2, <1>3, <1>4, <1>5, <1>6
  DEF DeviceNext, UsbNext, Download, Dnload, DnloadEnd, Upload, Abort, ClrStatus, Reselect,
      ClassReset, Unplug, Hardware, device

\* Whatever the USB side, the hardware and the power supply do, the operation
\* the protocol layer polls for is the one the driver carries out, at the same
\* address: a GETSTATUS never takes the end of a write for that of an erase.
THEOREM OpAlwaysMatchesDriver == DeviceSpec => []OpMatchesDriver
<1>1. DeviceInit => OpMatchesDriver
  BY DEF DeviceInit, ZeroDfuseCtx, OpMatchesDriver
<1> QED
  BY <1>1, DeviceStepKeepsOp, DeviceTypeCorrect, PTL DEF DeviceSpec

\* No command is launched while another is in flight, even when flash_init ran
\* in the middle of it: whatever changes what is in flight is the hardware
\* completing it, or a power cut.
THEOREM CommandsWaitForTheQueue == DeviceSpec => LaunchOnlyWhenReady
<1>1. DeviceTypeOK /\ [DeviceNext]_device
        => [QW(bank) /\ bank'.running # bank.running => Hardware \/ PowerCut]_device
  <2> SUFFICES ASSUME DeviceTypeOK, DeviceNext, QW(bank), ~Hardware, ~PowerCut
               PROVE  bank'.running = bank.running
    OBVIOUS
  <2>1. CASE GetStatus
    BY <2>1, GetStatusType
  <2>2. CASE \/ \E req \in Requests : Download(req)
             \/ DnloadEnd \/ Upload \/ Abort \/ ClrStatus \/ Reselect \/ Unplug
    BY <2>2, ClassRequestType
  <2>3. CASE Enumerate
    BY <2>3, MountType
  <2>4. CASE Start
    BY <2>4, StartType
  <2>5. CASE MainLoop
    BY <2>5, FlashProcessType DEF MainLoop, DeviceTypeOK
  <2> QED
    BY <2>1, <2>2, <2>3, <2>4, <2>5 DEF DeviceNext, UsbNext
<1> QED
  BY <1>1, DeviceTypeCorrect, PTL DEF DeviceSpec, LaunchOnlyWhenReady

(***************************************************************************)
(* The job winds down.                                                     *)
(***************************************************************************)

\* Answering GETSTATUS touches no hardware; at most it hands an idle driver a
\* request.
LEMMA GetStatusHandsOver ==
  ASSUME DeviceTypeOK, GetStatus
  PROVE  \/ flash_ctx' = flash_ctx
         \/ /\ flash_ctx.state = "IDLE" /\ flash_ctx'.state \in {"ERASE_PENDING", "WRITE_PENDING"}
            /\ \/ flash_ctx'.offset = 0
               \/ flash_ctx'.offset = flash_ctx.offset /\ flash_ctx'.length = flash_ctx.length
<1> USE DEF DeviceTypeOK, FlashCtxType
<1>1. CASE Erase
  BY <1>1 DEF Erase, flash_erase_sector_async, flash_is_busy
<1>2. CASE WriteMemory
  <2> DEFINE addr == BlockAddr(dfuse_ctx.base_addr, class.req.block)
  <2> HIDE DEF addr
  <2>1. PICK ok \in BOOLEAN :
          flash_write_async(addr, class.req.buffer, class.req.length, ok)
    BY <1>2 DEF WriteMemory, addr
  <2> QED
    BY <2>1 DEF flash_write_async, flash_is_busy
<1> QED
  BY <1>1, <1>2 DEF GetStatus, tud_dfu_get_status_cb, GetCommands, SetAddress, PollSetAddress,
                    MassErase, PollFlash, Unhandled

\* CR2 is unlocked from flash_init to the next reset.
Unlocked == bank.LOCK => class.state = "OFF"

\* A step leaves the measure sound, and what is left of a job no greater.
LEMMA StepWindsDown ==
  ASSUME DeviceTypeOK, Metered, Unlocked, [DeviceNext]_device
  PROVE  /\ Metered' /\ Unlocked'
         /\ flash_is_busy => Left' \in 0 .. (IF MainLoop \/ Hardware THEN Left - 1 ELSE Left)
<1> USE DEF DeviceTypeOK
<1>0. Left \in Nat /\ Bit(QW(bank)) \in 0 .. Left
  BY LeftIsNat
<1> SUFFICES ASSUME ~MainLoop, ~Hardware
             PROVE  /\ Metered' /\ Unlocked'
                    /\ flash_is_busy => Left' \in 0 .. Left
  <2>1. CASE MainLoop
    BY <2>1, FlashProcessWindsDown, FlashProcessKeepsLock DEF MainLoop, Unlocked
  <2>2. CASE Hardware
    BY <2>2, HwDoneWindsDown DEF Hardware, Unlocked, HwDone, IsBank
  <2> QED
    BY <2>1, <2>2
<1>1. CASE UNCHANGED <<bank, flash_ctx>> /\ (class.state # "OFF" \/ class' = class)
  BY <1>0, <1>1 DEF Metered, Unlocked, Left, flash_is_busy
<1>2. CASE GetStatus
  <2>1. bank' = bank /\ flash_ctx' \in FlashCtxType /\ class.state # "OFF"
    BY <1>2, GetStatusType DEF GetStatus, DfuState
  <2>2. CASE flash_ctx' = flash_ctx
    BY <1>1, <2>1, <2>2
  <2>3. CASE flash_ctx' # flash_ctx
    BY <1>2, <2>1, <2>3, GetStatusHandsOver DEF Metered, Unlocked, flash_is_busy, FlashCtxType
  <2> QED
    BY <2>2, <2>3
<1>3. CASE \/ \E req \in Requests : Download(req)
           \/ DnloadEnd \/ Upload \/ Abort \/ ClrStatus \/ Reselect \/ Unplug
  <2>1. UNCHANGED <<bank, flash_ctx>>
    BY <1>3, ClassRequestType
  <2>2. class.state # "OFF"
    BY <1>3 DEF Download, Dnload, DnloadEnd, Upload, Abort, ClrStatus, Reselect, ClassReset,
                Unplug, DfuState
  <2> QED
    BY <1>1, <2>1, <2>2
<1>4. CASE flash_init
  <2>1. /\ flash_ctx'.state = "IDLE" /\ flash_ctx'.offset = flash_ctx.offset
        /\ flash_ctx'.length = flash_ctx.length
        /\ ~bank'.LOCK /\ bank'.running = bank.running
    BY <1>4 DEF flash_init, FlashCtxType, IsBank
  <2>2. Left' = Bit(QW(bank))
    BY <2>1 DEF Left, Bit, QW
  <2> QED
    BY <1>0, <2>1, <2>2 DEF Metered, Unlocked, flash_is_busy
<1>5. CASE PowerCut
  <2>1. flash_ctx' = ZeroFlashCtx /\ ~QW(bank') /\ class'.state = "OFF"
    BY <1>5 DEF PowerCut, CutOff, ResetBank, Empty, QW, ClassAt
  <2>2. Left' = 0
    BY <2>1 DEF Left, Bit, ZeroFlashCtx
  <2> QED
    BY <1>0, <2>1, <2>2 DEF Metered, Unlocked, flash_is_busy, ZeroFlashCtx
<1> QED
  BY <1>1, <1>2, <1>3, <1>4, <1>5
  DEF DeviceNext, UsbNext, Enumerate, Mount, tud_mount_cb, Start, device

\* The measure is sound and CR2 unlocked whenever the device runs.
LEMMA MeteredAlways == DeviceSpec => [](Metered /\ Unlocked)
<1>1. DeviceInit => Metered /\ Unlocked
  BY DEF DeviceInit, ZeroFlashCtx, ClassAt, Metered, Unlocked, flash_is_busy
<1>2. DeviceTypeOK /\ Metered /\ Unlocked /\ [DeviceNext]_device => (Metered /\ Unlocked)'
  BY StepWindsDown
<1> QED
  BY <1>1, <1>2, DeviceTypeCorrect, PTL DEF DeviceSpec

\* An operation the driver took ends after at most as many turns of the main loop
\* and completions of the hardware as Left counts when it is taken, whatever the
\* USB side does, whichever commands the hardware refuses, and also if it is
\* enumerated again meanwhile: the argument behind DriverDrains, with the
\* fairness left out.
THEOREM JobAlwaysWindsDown == DeviceSpec => JobWindsDown
<1>1. DeviceTypeOK /\ Metered /\ Unlocked /\ [DeviceNext]_device
        => [flash_is_busy =>
              Left' \in 0 .. (IF MainLoop \/ Hardware THEN Left - 1 ELSE Left)]_device
  BY StepWindsDown
<1> QED
  BY <1>1, MeteredAlways, DeviceTypeCorrect, PTL DEF DeviceSpec, JobWindsDown

(***************************************************************************)
(* The device is a caller FlashDriver allows for.                          *)
(***************************************************************************)

\* Data blocks begin on a flash word.
LEMMA BlocksAligned ==
  ASSUME NEW base \in SectorBases, NEW block \in Nat, block >= 2
  PROVE  Multiple(BlockAddr(base, block))
<1>1. PICK s \in 0 .. NSECT - 1 : base = s * SECTOR
  BY DEF SectorBases
<1>2. PICK k \in Nat : SECTOR = k * WORD
  BY DivisibleIsMultiple, GeometryAssumption DEF Multiple
<1>3. PICK m \in Nat : XFER = m * WORD
  BY DivisibleIsMultiple, XferAssumption DEF Multiple
<1>4. s * k \in Nat /\ (block - 2) * m \in Nat /\ s \in Nat /\ block - 2 \in Nat
  BY <1>1, GeometryAssumption
<1>5. base = (s * k) * WORD /\ (block - 2) * XFER = ((block - 2) * m) * WORD
  BY <1>1, <1>2, <1>3, <1>4, GeometryAssumption
<1>6. Multiple(base) /\ Multiple((block - 2) * XFER)
  BY <1>4, <1>5 DEF Multiple
<1> QED
  BY <1>6, MultiplesAdd DEF BlockAddr

\* What a DfuSe host sends: operands are bases of sectors, data blocks have bytes.
LEMMA RequestsInOrder ==
  ASSUME NEW req \in Requests \cup {NoRequest}
  PROVE  /\ req.kind \in {"ERASE", "SET_ADDRESS"} => req.addr \in SectorBases
         /\ req.kind = "DATA" => /\ req.block \in Nat /\ req.block >= 2
                                 /\ req.length \in Nat /\ req.length > 0
BY LengthsAssumption, XferAssumption, GeometryAssumption
DEF Requests, NoRequest, Command, Request, Blocks

\* The first sector begins at 0, the base after an enumeration.
LEMMA ZeroIsBase == 0 \in SectorBases
<1>1. 0 \in 0 .. NSECT - 1 /\ 0 = 0 * SECTOR
  BY GeometryAssumption
<1> QED
  BY <1>1 DEF SectorBases

\* The converse of DivisibleIsMultiple.
LEMMA MultipleIsDivisible ==
  ASSUME NEW n \in Nat, Multiple(n)
  PROVE  n % WORD = 0
<1>1. PICK k \in Nat : n = k * WORD
  BY DEF Multiple
<1>2. (k * WORD) % WORD = 0
  BY GeometryAssumption
<1> QED
  BY <1>1, <1>2

\* The bases of sectors lie in the bank.
LEMMA BasesInBank == SectorBases \subseteq Addr
<1> SUFFICES ASSUME NEW s \in 0 .. NSECT - 1 PROVE s * SECTOR \in Addr
  BY DEF SectorBases
<1>1. s + 1 \in 1 .. NSECT /\ SECTOR \in Nat /\ SECTOR > 0
  BY GeometryAssumption
<1>2. (s + 1) * SECTOR <= NSECT * SECTOR
  BY <1>1, GeometryAssumption
<1>3. s * SECTOR \in Nat /\ s * SECTOR + SECTOR <= NSECT * SECTOR
  BY <1>1, <1>2, GeometryAssumption
<1> QED
  BY <1>1, <1>3, GeometryAssumption DEF Addr

\* A data block in the class driver's buffer lies inside the bank, at the base the
\* device has, for as long as it may still be started.
Confined ==
  /\ class.req \in Requests \cup {NoRequest}
  /\ dfuse_ctx.base_addr \in SectorBases
  /\ class.state \in {"DNLOAD_SYNC", "DNBUSY"} /\ class.req.kind = "DATA"
       => BlockBytes(dfuse_ctx.base_addr, class.req) \subseteq Addr
  /\ class.state = "OFF" <=> bank.LOCK

\* FlashDriver runs the same flash_process on the same hardware.
LEMMA SameDriver ==
  /\ flash_process => Driver!flash_process
  /\ HwDone => Driver!HwDone
  /\ CutOff => Driver!CutOff
  /\ ZeroFlashCtx = Driver!ZeroFlashCtx
BY Zenon
DEF Addr, WordOf, SectorAddrs, Over, Empty, ResetBank, QW, WBNE, Refusals, Program, Stores,
    ForceWrites, Erases, SetCR2, HwDone, CutOff, ZeroFlashCtx, flash_is_busy, addr_to_sector,
    flash_op_complete, StartErase, FinishErase, Chunk, NextOffset, WriteBank, Writing, WriteChunk,
    ForceWrite, FinishWrite, flash_process,
    Driver!Addr, Driver!WordOf, Driver!SectorAddrs, Driver!Over, Driver!Empty, Driver!ResetBank,
    Driver!QW, Driver!WBNE, Driver!Refusals, Driver!Program, Driver!Stores, Driver!ForceWrites,
    Driver!Erases, Driver!SetCR2, Driver!HwDone, Driver!CutOff, Driver!ZeroFlashCtx,
    Driver!flash_is_busy, Driver!addr_to_sector, Driver!flash_op_complete, Driver!StartErase,
    Driver!FinishErase, Driver!Chunk, Driver!NextOffset, Driver!WriteBank, Driver!Writing,
    Driver!WriteChunk, Driver!ForceWrite, Driver!FinishWrite, Driver!flash_process

\* What GETSTATUS does to the driver is nothing, or a request it may make.
LEMMA GetStatusAsks ==
  ASSUME DeviceTypeOK, Confined, GetStatus
  PROVE  Driver!RequestErase \/ Driver!RequestWrite \/ UNCHANGED <<bank, flash_ctx>>
<1> USE DEF DeviceTypeOK
<1>1. bank' = bank /\ ~bank.LOCK
  BY DEF GetStatus, tud_dfu_get_status_cb, Confined, DfuState
<1>2. CASE Erase
  <2>1. class.req.addr \in Addr
    BY <1>2, RequestsInOrder, BasesInBank DEF Confined, Erase
  <2>2. PICK ok \in BOOLEAN : flash_erase_sector_async(class.req.addr, ok)
    BY <1>2 DEF Erase
  <2> QED
    BY <1>1, <2>1, <2>2
    DEF Driver!RequestErase, Driver!flash_erase_sector_async, flash_erase_sector_async,
        flash_is_busy, Driver!flash_is_busy, Driver!Addr, Addr
<1>3. CASE WriteMemory
  <2> DEFINE addr == BlockAddr(dfuse_ctx.base_addr, class.req.block)
             length == class.req.length
  <2>1. class.req.kind = "DATA" /\ class.state = "DNLOAD_SYNC"
    BY <1>3 DEF WriteMemory
  <2>2. class.req.buffer \in Payload /\ length \in 1 .. XFER
    <3>1. \A req \in Requests \cup {NoRequest} : req.kind = "DATA" => req.length \in 1 .. XFER
      BY LengthsAssumption DEF Requests, NoRequest, Command, Request
    <3> QED
      BY <2>1, <3>1 DEF IsClass, IsRequest, Confined
  <2>3. addr \in Addr /\ addr + length - 1 \in Addr
    <3>1. BlockBytes(dfuse_ctx.base_addr, class.req) \subseteq Addr
      BY <2>1 DEF Confined
    <3>2. BlockBytes(dfuse_ctx.base_addr, class.req) = addr .. addr + length - 1
      BY DEF BlockBytes, HostAddr, BlockAddr
    <3>3. addr \in Nat
      <4>1. dfuse_ctx.base_addr \in Nat
        BY SectorBaseIsNat DEF Confined
      <4>2. class.req.block \in Nat /\ class.req.block >= 2
        BY <2>1 DEF IsClass, IsRequest
      <4> QED
        BY <4>1, <4>2, BlockAddrIsNat
    <3>4. addr \in addr .. addr + length - 1 /\ addr + length - 1 \in addr .. addr + length - 1
      BY <2>2, <3>3, XferAssumption
    <3> QED
      BY <3>1, <3>2, <3>4
  <2>4. addr % WORD = 0
    <3>1. class.req.block \in Nat /\ class.req.block >= 2
      BY <2>1 DEF IsClass, IsRequest
    <3>2. Multiple(addr)
      BY <3>1, BlocksAligned DEF Confined
    <3>3. addr \in Nat
      BY <2>3 DEF Addr
    <3> QED
      BY <3>2, <3>3, MultipleIsDivisible
  <2> HIDE DEF addr, length
  <2>5. PICK ok \in BOOLEAN : flash_write_async(addr, class.req.buffer, length, ok)
    BY <1>3 DEF WriteMemory, addr, length
  <2>6. Driver!flash_write_async(addr, class.req.buffer, length, ok)
    BY <2>5 DEF Driver!flash_write_async, flash_write_async, flash_is_busy,
                Driver!flash_is_busy
  <2> QED
    BY <1>1, <2>2, <2>3, <2>4, <2>6 DEF Driver!RequestWrite, Driver!Addr, Addr
<1> QED
  BY <1>1, <1>2, <1>3 DEF GetStatus, tud_dfu_get_status_cb, GetCommands, SetAddress,
                          PollSetAddress, MassErase, PollFlash, Unhandled

\* GETSTATUS moves the base by a SetAddress alone, and starts no data block anew.
LEMMA GetStatusKeepsData ==
  ASSUME DeviceTypeOK, GetStatus
  PROVE  /\ bank' = bank /\ class'.req = class.req
         /\ class'.state # "OFF" /\ class.state # "OFF"
         /\ \/ dfuse_ctx'.base_addr = dfuse_ctx.base_addr
            \/ class.req.kind = "SET_ADDRESS" /\ dfuse_ctx'.base_addr = class.req.addr
         /\ class'.state \in {"DNLOAD_SYNC", "DNBUSY"} /\ class.req.kind = "DATA"
              => class.state \in {"DNLOAD_SYNC", "DNBUSY"}
<1> USE DEF DeviceTypeOK, IsClass, IsDfuseCtx, reply
<1>1. bank' = bank /\ class.state \in DfuState /\ class.state # "OFF"
  BY DEF GetStatus, tud_dfu_get_status_cb, DfuState
<1>2. CASE GetCommands \/ SetAddress \/ PollSetAddress \/ MassErase
  BY <1>1, <1>2 DEF GetCommands, SetAddress, PollSetAddress, MassErase
<1>3. CASE Erase \/ WriteMemory
  BY <1>1, <1>3 DEF Erase, WriteMemory
<1>4. CASE PollFlash
  BY <1>1, <1>4 DEF PollFlash
<1>5. CASE Unhandled
  BY <1>1, <1>5 DEF Unhandled, DefaultNext, DfuState
<1> QED
  BY <1>2, <1>3, <1>4, <1>5 DEF GetStatus, tud_dfu_get_status_cb

\* A step leaves the requests confined, and is one that FlashDriver allows.
LEMMA StepAsAgreed ==
  ASSUME "earlyMount" \notin Events, DeviceTypeOK, Confined, [DeviceNext]_device
  PROVE  Confined' /\ [Driver!Next]_(Driver!vars)
<1> USE DEF DeviceTypeOK, Driver!vars
<1>0. Confined' <=>
        /\ class'.req \in Requests \cup {NoRequest}
        /\ dfuse_ctx'.base_addr \in SectorBases
        /\ class'.state \in {"DNLOAD_SYNC", "DNBUSY"} /\ class'.req.kind = "DATA"
             => BlockBytes(dfuse_ctx'.base_addr, class'.req) \subseteq Addr
        /\ class'.state = "OFF" <=> bank'.LOCK
  BY DEF Confined, BlockBytes, HostAddr, Addr, Requests, NoRequest, Command, Request,
         SectorBases, Blocks, ZeroFlashCtx
<1>1. CASE GetStatus
  <2>1. /\ bank' = bank /\ class'.req = class.req /\ class'.state # "OFF" /\ class.state # "OFF"
        /\ \/ dfuse_ctx'.base_addr = dfuse_ctx.base_addr
           \/ class.req.kind = "SET_ADDRESS" /\ dfuse_ctx'.base_addr = class.req.addr
        /\ class'.state \in {"DNLOAD_SYNC", "DNBUSY"} /\ class.req.kind = "DATA"
             => class.state \in {"DNLOAD_SYNC", "DNBUSY"}
    BY <1>1, GetStatusKeepsData
  <2>4. Confined'
    BY <1>0, <2>1, RequestsInOrder DEF Confined
  <2> QED
    BY <1>1, <2>4, GetStatusAsks DEF Driver!Next
<1>2. CASE \E req \in Requests : Download(req)
  <2>1. PICK req \in Requests : Download(req)
    BY <1>2
  <2>2. /\ class'.req = req /\ class'.state = "DNLOAD_SYNC" /\ class.state # "OFF"
        /\ UNCHANGED <<dfuse_ctx, bank, flash_ctx>>
    BY <2>1 DEF Download, Dnload, IsClass
  <2> QED
    BY <1>0, <2>1, <2>2 DEF Download, Confined
<1>3. CASE DnloadEnd \/ Upload \/ Abort \/ ClrStatus \/ Reselect \/ Unplug
  <2>1. /\ class'.req \in {class.req, NoRequest}
        /\ class'.state \notin {"DNLOAD_SYNC", "DNBUSY", "OFF"} /\ class.state # "OFF"
        /\ UNCHANGED <<bank, flash_ctx>>
    <3>1. CASE DnloadEnd \/ Upload
      BY <3>1 DEF DnloadEnd, Upload, IsClass
    <3>2. CASE Abort \/ ClrStatus \/ Reselect \/ Unplug
      BY <3>2 DEF Abort, ClrStatus, Reselect, ClassReset, Unplug, ResetClass, DfuState
    <3> QED
      BY <1>3, <3>1, <3>2
  <2>2. dfuse_ctx'.base_addr = dfuse_ctx.base_addr
    BY <1>3 DEF DnloadEnd, Upload, Abort, ClrStatus, Reselect, ClassReset, Unplug,
                tud_dfu_upload_cb, tud_dfu_abort_cb, IsDfuseCtx
  <2> QED
    BY <1>0, <2>1, <2>2 DEF Confined
<1>4. CASE Enumerate
  <2>1. /\ class'.req \in {class.req, NoRequest} /\ class'.state = "DFU_IDLE"
        /\ dfuse_ctx'.base_addr = 0 /\ flash_init /\ flash_ctx.state = "IDLE"
        /\ class.state # "OFF"
    BY <1>4 DEF Enumerate, Mount, tud_mount_cb, ZeroDfuseCtx, ResetClass, flash_is_busy
  <2>2. UNCHANGED <<bank, flash_ctx>>
    BY <2>1 DEF flash_init, Confined, IsBank, FlashCtxType
  <2> QED
    BY <1>0, <2>1, <2>2, ZeroIsBase DEF Confined
<1>5. CASE Start
  <2>1. /\ class' = ClassAt("UNMOUNTED") /\ dfuse_ctx' = dfuse_ctx /\ ~bank'.LOCK
        /\ bank.LOCK /\ flash_init
    BY <1>5 DEF Start, flash_init, IsBank, Confined
  <2>2. Driver!Open
    BY <2>1 DEF Driver!Open, Driver!flash_init, flash_init
  <2> QED
    BY <1>0, <2>1, <2>2 DEF Confined, ClassAt, NoRequest, Request, Driver!Next
<1>6. CASE PowerCut
  <2>1. class' = ClassAt("OFF") /\ dfuse_ctx'.base_addr = 0 /\ bank'.LOCK
    BY <1>6 DEF PowerCut, ZeroDfuseCtx, CutOff, ResetBank
  <2>2. Driver!PowerCut
    BY <1>6, SameDriver DEF PowerCut, Driver!PowerCut
  <2> QED
    BY <1>0, <2>1, <2>2, ZeroIsBase DEF ClassAt, NoRequest, Request, Driver!Next
<1>7. CASE MainLoop
  <2>1. bank'.LOCK = bank.LOCK /\ UNCHANGED <<dfuse_ctx, class>>
    BY <1>7, FlashProcessKeepsLock DEF MainLoop
  <2>2. Driver!flash_process
    BY <1>7, SameDriver DEF MainLoop
  <2> QED
    BY <1>0, <2>1, <2>2 DEF Confined, Driver!Next
<1>8. CASE Hardware
  <2>1. bank'.LOCK = bank.LOCK /\ UNCHANGED <<dfuse_ctx, class>>
    BY <1>8 DEF Hardware, HwDone, IsBank
  <2>2. Driver!Complete
    BY <1>8, SameDriver DEF Hardware, Driver!Complete
  <2> QED
    BY <1>0, <2>1, <2>2 DEF Confined, Driver!Next
<1>9. CASE UNCHANGED device
  BY <1>0, <1>9 DEF device, Confined
<1> QED
  BY <1>1, <1>2, <1>3, <1>4, <1>5, <1>6, <1>7, <1>8, <1>9 DEF DeviceNext, UsbNext

\* Unless it is enumerated during an operation, the device is a caller FlashDriver
\* allows for, for any geometry and whatever else happens: what is proved of the
\* driver under any caller holds in the device.
THEOREM DeviceUsesDriverAsAgreed ==
  ASSUME "earlyMount" \notin Events
  PROVE  DeviceSpec => UsesDriverAsAgreed
<1>1. DeviceInit => Confined /\ Driver!Init
  BY ZeroIsBase
  DEF DeviceInit, ZeroDfuseCtx, ClassAt, NoRequest, Request, ResetBank, Confined, Driver!Init,
      Driver!ResetBank, Driver!ZeroFlashCtx, ZeroFlashCtx, Driver!Addr, Addr, Driver!Empty, Empty
<1>2. DeviceTypeOK /\ Confined /\ [DeviceNext]_device => Confined' /\ [Driver!Next]_(Driver!vars)
  BY StepAsAgreed
<1> QED
  BY <1>1, <1>2, DeviceTypeCorrect, PTL DEF DeviceSpec, UsesDriverAsAgreed, Driver!Safety

DriverProofs == INSTANCE FlashDriverProofs

\* Both instances are the same driver.
LEMMA SameInstance ==
  /\ Driver!Init <=> DriverProofs!Init
  /\ [Driver!Next]_(Driver!vars) <=> [DriverProofs!Next]_(DriverProofs!vars)
  /\ Driver!Abstract!Init <=> DriverProofs!Abstract!Init
  /\ [Driver!Abstract!Next]_(Driver!Abstract!vars)
       <=> [DriverProofs!Abstract!Next]_(DriverProofs!Abstract!vars)
BY Zenon
DEF
    Driver!Addr, Driver!WordOf, Driver!SectorAddrs, Driver!Cell, Driver!Over, Driver!Empty,
    Driver!ResetBank, Driver!QW, Driver!WBNE, Driver!Refusals, Driver!Program,
    Driver!Stores, Driver!ForceWrites, Driver!Erases, Driver!SetCR2, Driver!HwDone,
    Driver!CutOff, Driver!ZeroFlashCtx, Driver!flash_is_busy, Driver!addr_to_sector,
    Driver!flash_op_complete, Driver!StartErase, Driver!FinishErase, Driver!Chunk,
    Driver!NextOffset, Driver!WriteBank, Driver!Writing, Driver!WriteChunk,
    Driver!ForceWrite, Driver!FinishWrite, Driver!flash_process, Driver!flash_init,
    Driver!flash_erase_sector_async, Driver!flash_write_async, Driver!Open,
    Driver!RequestErase, Driver!RequestWrite, Driver!PowerCut, Driver!Complete, Driver!Next,
    Driver!Init, Driver!vars, Driver!Requested, Driver!Waiting, Driver!Blank,
    Driver!WriteLeaves, Driver!JobBar, Driver!Abstract!Init, Driver!Abstract!Next,
    Driver!Abstract!vars, Driver!Abstract!Start, Driver!Abstract!Work,
    Driver!Abstract!Finish, Driver!Abstract!PowerLoss, Driver!Abstract!Busy,
    Driver!Abstract!NoJob, Driver!Abstract!Range, Driver!Abstract!Update, DriverProofs!Addr,
    DriverProofs!WordOf, DriverProofs!SectorAddrs, DriverProofs!Cell, DriverProofs!Over,
    DriverProofs!Empty, DriverProofs!ResetBank, DriverProofs!QW, DriverProofs!WBNE,
    DriverProofs!Refusals, DriverProofs!Program, DriverProofs!Stores,
    DriverProofs!ForceWrites, DriverProofs!Erases, DriverProofs!SetCR2, DriverProofs!HwDone,
    DriverProofs!CutOff, DriverProofs!ZeroFlashCtx, DriverProofs!flash_is_busy,
    DriverProofs!addr_to_sector, DriverProofs!flash_op_complete, DriverProofs!StartErase,
    DriverProofs!FinishErase, DriverProofs!Chunk, DriverProofs!NextOffset,
    DriverProofs!WriteBank, DriverProofs!Writing, DriverProofs!WriteChunk,
    DriverProofs!ForceWrite, DriverProofs!FinishWrite, DriverProofs!flash_process,
    DriverProofs!flash_init, DriverProofs!flash_erase_sector_async,
    DriverProofs!flash_write_async, DriverProofs!Open, DriverProofs!RequestErase,
    DriverProofs!RequestWrite, DriverProofs!PowerCut, DriverProofs!Complete,
    DriverProofs!Next, DriverProofs!Init, DriverProofs!vars, DriverProofs!Requested,
    DriverProofs!Waiting, DriverProofs!Blank, DriverProofs!WriteLeaves, DriverProofs!JobBar,
    DriverProofs!Abstract!Init, DriverProofs!Abstract!Next, DriverProofs!Abstract!vars,
    DriverProofs!Abstract!Start, DriverProofs!Abstract!Work, DriverProofs!Abstract!Finish,
    DriverProofs!Abstract!PowerLoss, DriverProofs!Abstract!Busy,
    DriverProofs!Abstract!NoJob, DriverProofs!Abstract!Range, DriverProofs!Abstract!Update

\* Through the driver the device keeps the promise of dfu_flash.h, on hardware
\* that refuses nothing and unless it is enumerated during an operation: whatever
\* the host sends, the bank changes only as AsyncFlash lets a job change it.
THEOREM DeviceKeepsFlashPromise ==
  ASSUME "earlyMount" \notin Events, Faults = FALSE
  PROVE  DeviceSpec => Driver!Abstract!Safety
<1>1. DriverProofs!Safety => DriverProofs!Abstract!Safety
  BY DriverProofs!DriverKeepsItsPromise, GeometryAssumption, PayloadAssumption, XferAssumption
<1>2. Driver!Safety => DriverProofs!Safety
  BY SameInstance, PTL DEF Driver!Safety, DriverProofs!Safety
<1>3. DriverProofs!Abstract!Safety => Driver!Abstract!Safety
  BY SameInstance, PTL DEF Driver!Abstract!Safety, DriverProofs!Abstract!Safety
<1> QED
  BY <1>1, <1>2, <1>3, DeviceUsesDriverAsAgreed, PTL DEF UsesDriverAsAgreed

(***************************************************************************)
(* Without a reset of the class driver behind the callbacks' back, its     *)
(* state and dfuse_ctx move together.                                      *)
(***************************************************************************)

\* dfuse_ctx holds an operation exactly while the class driver waits for one of
\* that kind, or is detached; a mounted device has an address pointer.
Coupled ==
  /\ dfuse_ctx.op # "IDLE" => class.state \in {"DNBUSY", "UNMOUNTED"}
  /\ class.state = "DNBUSY" =>
       /\ class.req.kind = "SET_ADDRESS" <=> dfuse_ctx.op = "SET_ADDR_BUSY"
       /\ class.req.kind = "ERASE" <=> dfuse_ctx.op = "ERASE_BUSY"
       /\ class.req.kind = "DATA" <=> dfuse_ctx.op = "WRITE_BUSY"
  /\ class.state \in DfuState => dfuse_ctx.have_addr

\* Every branch of tud_dfu_get_status_cb leaves the two coupled.
LEMMA GetStatusKeepsCoupled ==
  ASSUME DeviceTypeOK, Coupled, GetStatus
  PROVE  Coupled'
<1> USE DEF Coupled, DeviceTypeOK, IsDfuseCtx, IsClass, DfuState, Detached, reply
<1>0. class.state \in DfuState /\ class.state \notin Detached
  BY DEF GetStatus
<1>1. CASE GetCommands
  BY <1>0, <1>1 DEF GetCommands, DfuseOp
<1>2. CASE SetAddress
  BY <1>0, <1>2 DEF SetAddress
<1>3. CASE PollSetAddress
  BY <1>0, <1>3 DEF PollSetAddress
<1>4. CASE MassErase
  BY <1>0, <1>4 DEF MassErase
<1>5. CASE Erase
  BY <1>0, <1>5 DEF Erase
<1>6. CASE WriteMemory
  BY <1>0, <1>6 DEF WriteMemory
<1>7. CASE PollFlash
  BY <1>0, <1>7 DEF PollFlash
<1>8. CASE Unhandled
  <2>1. dfuse_ctx' = dfuse_ctx /\ class'.req = class.req
        /\ class'.state \in DefaultNext(class.state)
    BY <1>8 DEF Unhandled
  <2>2. CASE class.state = "DNLOAD_SYNC"
    BY <1>0, <1>8, <2>1, <2>2 DEF Unhandled, Handled, DefaultNext
  <2>3. CASE class.state = "DNBUSY"
    BY <1>0, <1>8, <2>1, <2>3 DEF Unhandled, Handled, DefaultNext, IsRequest, ReqKind, DfuseOp
  <2>4. CASE class.state \notin {"DNLOAD_SYNC", "DNBUSY"}
    <3>1. class'.state \in DfuState \ {"DNLOAD_SYNC", "DNBUSY"}
      BY <1>0, <2>1, <2>4 DEF DefaultNext
    <3> QED
      BY <1>0, <2>1, <2>4, <3>1
  <2> QED
    BY <2>2, <2>3, <2>4
<1> QED
  BY <1>1, <1>2, <1>3, <1>4, <1>5, <1>6, <1>7, <1>8 DEF GetStatus, tud_dfu_get_status_cb

\* No step of the device uncouples them, class resets excepted.
LEMMA StepKeepsCoupled ==
  ASSUME "classReset" \notin Events, DeviceTypeOK, Coupled, [DeviceNext]_device
  PROVE  Coupled'
<1> USE DEF Coupled, DeviceTypeOK, IsDfuseCtx, IsClass, DfuState, Detached
<1>1. CASE GetStatus
  BY <1>1, GetStatusKeepsCoupled
<1>2. CASE \E req \in Requests : Download(req)
  BY <1>2 DEF Download, Dnload
<1>3. CASE DnloadEnd
  BY <1>3 DEF DnloadEnd
<1>4. CASE Upload
  <2>1. dfuse_ctx'.op = dfuse_ctx.op /\ dfuse_ctx'.have_addr = dfuse_ctx.have_addr
    BY <1>4 DEF Upload, tud_dfu_upload_cb
  <2>2. class.state \in DfuState \ {"DNBUSY"} /\ class'.state \in {"DFU_IDLE", "UPLOAD_IDLE"}
    BY <1>4 DEF Upload
  <2> QED
    BY <2>1, <2>2
<1>5. CASE Abort
  BY <1>5 DEF Abort, tud_dfu_abort_cb, ResetClass
<1>6. CASE ClrStatus
  BY <1>6 DEF ClrStatus, ResetClass
<1>7. CASE Enumerate
  BY <1>7 DEF Enumerate, Mount, tud_mount_cb, ZeroDfuseCtx, ResetClass
<1>8. CASE Unplug
  BY <1>8 DEF Unplug, ResetClass
<1>9. CASE Start
  BY <1>9 DEF Start, ClassAt
<1>10. CASE PowerCut
  BY <1>10 DEF PowerCut, ClassAt, ZeroDfuseCtx
<1>11. CASE MainLoop \/ Hardware \/ UNCHANGED device
  BY <1>11 DEF MainLoop, Hardware, device
<1> QED
  BY <1>1, <1>2, <1>3, <1>4, <1>5, <1>6, <1>7, <1>8, <1>9, <1>10, <1>11
  DEF DeviceNext, UsbNext, Reselect

\* Unless the class driver is reset behind the callbacks' back, dfuse_ctx and
\* the class driver stay coupled.
LEMMA CoupledAlways ==
  ASSUME "classReset" \notin Events
  PROVE  DeviceSpec => []Coupled
<1>1. DeviceInit => Coupled
  BY DEF DeviceInit, ClassAt, ZeroDfuseCtx, Coupled, DfuState
<1>2. DeviceTypeOK /\ Coupled /\ [DeviceNext]_device => Coupled'
  BY StepKeepsCoupled
<1> QED
  BY <1>1, <1>2, DeviceTypeCorrect, PTL DEF DeviceSpec

\* Unless the class driver is reset behind the callbacks' back, a poll finds in
\* dfuse_ctx the operation the class driver waits for, through aborts,
\* enumerations at any moment, unplugging and power cuts.
THEOREM PollAlwaysFindsItsOp ==
  ASSUME "classReset" \notin Events
  PROVE  DeviceSpec => []PollFindsItsOp
<1>1. Coupled => PollFindsItsOp
  BY DEF Coupled, PollFindsItsOp
<1> QED
  BY <1>1, CoupledAlways, PTL

\* Under the same assumption, the first GETSTATUS after a data block starts its
\* write, or reports that the driver is busy.
THEOREM FirstPollStartsTheWrite ==
  ASSUME "classReset" \notin Events
  PROVE  DeviceSpec => WriteStartsAtFirstPoll
<1>1. DeviceTypeOK /\ Coupled /\ [DeviceNext]_device
        => [FirstPoll => flash_ctx'.state = "WRITE_PENDING" \/ class'.state = "ERROR"]_device
  <2> SUFFICES ASSUME DeviceTypeOK, Coupled, FirstPoll
               PROVE  flash_ctx'.state = "WRITE_PENDING" \/ class'.state = "ERROR"
    OBVIOUS
  <2>1. dfuse_ctx.op = "IDLE" /\ dfuse_ctx.have_addr
    BY DEF Coupled, FirstPoll, DfuState
  <2>2. WriteMemory
    BY <2>1 DEF FirstPoll, GetStatus, tud_dfu_get_status_cb, GetCommands, SetAddress,
                PollSetAddress, MassErase, Erase, PollFlash, Unhandled, Handled
  <2> DEFINE addr == BlockAddr(dfuse_ctx.base_addr, class.req.block)
  <2> HIDE DEF addr
  <2>3. PICK ok \in BOOLEAN :
          /\ flash_write_async(addr, class.req.buffer, class.req.length, ok)
          /\ ~ok => reply("ERR_ADDRESS", "ERROR")
    BY <2>2 DEF WriteMemory, addr
  <2>4. CASE ok
    BY <2>3, <2>4 DEF flash_write_async
  <2>5. CASE ~ok
    BY <2>3, <2>5 DEF reply, DeviceTypeOK, IsClass
  <2> QED
    BY <2>4, <2>5
<1> QED
  BY <1>1, CoupledAlways, DeviceTypeCorrect, PTL DEF DeviceSpec, WriteStartsAtFirstPoll

\* The kinds of request that are answered at once are never waited for.
Prompt == class.state = "DNBUSY" => class.req.kind \notin {"GET_COMMANDS", "MASS_ERASE"}

LEMMA StepKeepsPrompt ==
  ASSUME DeviceTypeOK, Prompt, [DeviceNext]_device
  PROVE  Prompt'
<1> USE DEF DeviceTypeOK, IsClass, Prompt
<1>1. CASE GetStatus
  <2>1. CASE Unhandled
    BY <2>1 DEF Unhandled, DefaultNext, Handled
  <2>2. CASE \/ GetCommands \/ SetAddress \/ PollSetAddress \/ MassErase \/ Erase \/ WriteMemory
             \/ PollFlash
    BY <2>2 DEF GetCommands, SetAddress, PollSetAddress, MassErase, Erase, WriteMemory, PollFlash,
                reply
  <2> QED
    BY <1>1, <2>1, <2>2 DEF GetStatus, tud_dfu_get_status_cb
<1>2. CASE \/ \E req \in Requests : Download(req)
           \/ DnloadEnd \/ Upload
  BY <1>2 DEF Download, Dnload, DnloadEnd, Upload
<1>3. CASE Abort \/ ClrStatus \/ Reselect \/ Unplug \/ Enumerate
  <2>1. ResetClass("DFU_IDLE") \/ ResetClass("UNMOUNTED")
    BY <1>3 DEF Abort, ClrStatus, Reselect, ClassReset, Unplug, Enumerate, Mount
  <2> QED
    BY <2>1 DEF ResetClass
<1>4. CASE Start \/ PowerCut
  BY <1>4 DEF Start, PowerCut, ClassAt
<1>5. CASE MainLoop \/ Hardware \/ UNCHANGED device
  BY <1>5 DEF MainLoop, Hardware, device
<1> QED
  BY <1>1, <1>2, <1>3, <1>4, <1>5 DEF DeviceNext, UsbNext

\* Unless the class driver is reset behind the callbacks' back, every poll of a
\* request carries it on, refuses it, or finds the driver at work: with
\* JobAlwaysWindsDown, the argument behind DownloadAnswered.
THEOREM EveryPollAdvances ==
  ASSUME "classReset" \notin Events
  PROVE  DeviceSpec => PollsAdvance
<1> DEFINE Advances ==
      \/ class.state = "DNLOAD_SYNC" /\ class'.state \in {"DNBUSY", "DNLOAD_IDLE", "ERROR"}
      \/ class.state = "DNBUSY" /\ (class'.state = "DNLOAD_IDLE" \/ flash_is_busy)
<1>1. DeviceInit => Prompt
  BY DEF DeviceInit, ClassAt, Prompt
<1>2. DeviceTypeOK /\ Coupled /\ Prompt => [GetStatus /\ InProgress => Advances]_device
  <2> SUFFICES ASSUME DeviceTypeOK, Coupled, Prompt, GetStatus, InProgress
               PROVE  Advances
    OBVIOUS
  <2> USE DEF DeviceTypeOK, IsClass
  <2>1. CASE GetCommands \/ SetAddress \/ PollSetAddress \/ MassErase \/ Erase \/ WriteMemory
    BY <2>1 DEF GetCommands, SetAddress, PollSetAddress, MassErase, Erase, WriteMemory, reply,
                InProgress, Prompt
  <2>2. CASE PollFlash
    BY <2>2 DEF PollFlash, reply
  <2>3. CASE Unhandled
    BY <2>3 DEF Unhandled, Handled, Coupled, InProgress, Prompt, DfuState
  <2> QED
    BY <2>1, <2>2, <2>3 DEF GetStatus, tud_dfu_get_status_cb
<1>3. DeviceTypeOK /\ Prompt /\ [DeviceNext]_device => Prompt'
  BY StepKeepsPrompt
<1> QED
  BY <1>1, <1>2, <1>3, CoupledAlways, DeviceTypeCorrect, PTL DEF DeviceSpec, PollsAdvance

(***************************************************************************)
(* Without an enumeration during an operation, the driver rests on quiet   *)
(* hardware.                                                               *)
(***************************************************************************)

\* Before main() reaches flash_init the driver has nothing to do.
IdleWhenOff == class.state = "OFF" => flash_ctx.state = "IDLE"

\* Only a power cut brings the device back to reset.
LEMMA StepKeepsIdleWhenOff ==
  ASSUME DeviceTypeOK, IdleWhenOff, [DeviceNext]_device
  PROVE  IdleWhenOff'
<1> USE DEF DeviceTypeOK, IsClass, IdleWhenOff
<1>1. CASE GetStatus
  <2>1. ASSUME NEW status, NEW state \in DfuState, reply(status, state)
        PROVE  class'.state # "OFF"
    BY <2>1 DEF reply, DfuState
  <2>2. CASE GetCommands \/ SetAddress \/ PollSetAddress \/ MassErase \/ Erase \/ WriteMemory
             \/ PollFlash
    BY <2>1, <2>2 DEF GetCommands, SetAddress, PollSetAddress, MassErase, Erase, WriteMemory,
                      PollFlash, DfuState
  <2>3. CASE Unhandled
    BY <1>1, <2>3 DEF Unhandled, DefaultNext, GetStatus, DfuState
  <2> QED
    BY <1>1, <2>2, <2>3 DEF GetStatus, tud_dfu_get_status_cb
<1>2. CASE MainLoop
  BY <1>2 DEF MainLoop, flash_process, StartErase, FinishErase, WriteChunk, ForceWrite,
              FinishWrite, Writing
<1>3. CASE PowerCut
  BY <1>3 DEF PowerCut, ZeroFlashCtx
<1>4. CASE Enumerate \/ Start
  BY <1>4 DEF Enumerate, Mount, Start, ClassAt, ResetClass
<1>5. CASE \/ \E req \in Requests : Download(req)
           \/ DnloadEnd \/ Upload
  BY <1>5 DEF Download, Dnload, DnloadEnd, Upload
<1>6. CASE Abort \/ ClrStatus \/ Reselect \/ Unplug
  BY <1>6 DEF Abort, ClrStatus, Reselect, ClassReset, Unplug, ResetClass
<1>7. CASE Hardware \/ UNCHANGED device
  BY <1>7 DEF Hardware, device
<1> QED
  BY <1>1, <1>2, <1>3, <1>4, <1>5, <1>6, <1>7 DEF DeviceNext, UsbNext

\* No step of the device unsettles it, an enumeration in mid-operation excepted.
LEMMA StepKeepsSettled ==
  ASSUME "earlyMount" \notin Events, DeviceTypeOK, Settled, IdleWhenOff, [DeviceNext]_device
  PROVE  Settled'
<1> USE DEF DeviceTypeOK
<1>1. CASE MainLoop
  BY <1>1, FlashProcessSettles DEF MainLoop
<1>2. CASE GetStatus
  BY <1>2, GetStatusType, GetStatusHandsOver DEF Settled
<1>3. CASE \/ \E req \in Requests : Download(req)
           \/ DnloadEnd \/ Upload \/ Abort \/ ClrStatus \/ Reselect \/ Unplug
  BY <1>3, ClassRequestType DEF Settled
<1>4. CASE flash_init /\ ~flash_is_busy
  BY <1>4 DEF flash_init, flash_is_busy, Settled, IsBank, FlashCtxType, QW, WBNE
<1>5. CASE Hardware
  BY <1>5 DEF Hardware, HwDone, Settled, IsBank, QW, WBNE
<1>6. CASE PowerCut
  BY <1>6 DEF PowerCut, CutOff, ResetBank, Empty, QW, WBNE, Settled, ZeroFlashCtx
<1>7. CASE UNCHANGED device
  BY <1>7 DEF device, Settled
<1> QED
  BY <1>1, <1>2, <1>3, <1>4, <1>5, <1>6, <1>7
  DEF DeviceNext, UsbNext, Enumerate, Mount, tud_mount_cb, Start, IdleWhenOff, flash_is_busy

\* If the host never enumerates the device during an operation, the driver
\* rests on quiet hardware: nothing in flight, the write buffer empty, PG and
\* SER clear, even if commands are refused or power is cut.
THEOREM QuietWithoutRemount ==
  ASSUME "earlyMount" \notin Events
  PROVE  DeviceSpec => []QuietWhenIdle
<1>1. DeviceInit => Settled /\ IdleWhenOff
  BY DEF DeviceInit, ResetBank, Empty, QW, WBNE, Settled, IdleWhenOff, ZeroFlashCtx
<1>2. DeviceTypeOK /\ Settled /\ IdleWhenOff /\ [DeviceNext]_device => (Settled /\ IdleWhenOff)'
  BY StepKeepsSettled, StepKeepsIdleWhenOff
<1>3. Settled => QuietWhenIdle
  BY DEF Settled, QuietWhenIdle
<1> QED
  BY <1>1, <1>2, <1>3, DeviceTypeCorrect, PTL DEF DeviceSpec
==============================================================================
