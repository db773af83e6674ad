--------------------------- MODULE DfuSystemProofs ---------------------------
(***************************************************************************)
(* The bootloader with its host is the bootloader with any USB side:       *)
(* DfuSystem implements DfuDevice, and inherits what is proved of it.      *)
(*                                                                         *)
(* Then ReadBack, the purpose of the system, by an invariant that follows  *)
(* a request on its way to the memory.                                     *)
(***************************************************************************)
EXTENDS DfuSystem, DfuDeviceProofs

\* Every request the host sends is one DfuDevice admits.
LEMMA SendsAreDownloads ==
  ASSUME \/ SendGetCommands \/ SendSetAddress \/ SendErase \/ SendUnsupported \/ SendData
  PROVE  \E req \in Requests : Download(req)
<1>1. CASE SendGetCommands
  BY <1>1 DEF SendGetCommands, Send, Requests
<1>2. CASE SendUnsupported
  BY <1>2 DEF SendUnsupported, Send, Requests
<1>3. CASE SendSetAddress
  BY <1>3 DEF SendSetAddress, Send, Requests
<1>4. CASE SendErase
  BY <1>4 DEF SendErase, Send, Requests
<1>5. CASE SendData
  BY <1>5 DEF SendData, Send, Requests
<1> QED
  BY <1>1, <1>2, <1>3, <1>4, <1>5

\* A step of the system is a step of the device, or leaves the device alone.
LEMMA SystemStepIsDeviceStep == [Next]_vars => [DeviceNext]_device
<1> SUFFICES ASSUME [Next]_vars PROVE [DeviceNext]_device
  OBVIOUS
<1>1. CASE \/ SendGetCommands \/ SendSetAddress \/ SendErase \/ SendUnsupported \/ SendData
  BY <1>1, SendsAreDownloads DEF DeviceNext, UsbNext
<1>2. CASE Poll \/ PollLost
  BY <1>2 DEF Poll, PollLost, DeviceNext, UsbNext
<1>3. CASE Quit \/ Enumerate \/ Unplug
  BY <1>3 DEF Quit, DeviceNext, UsbNext
<1>4. CASE Start \/ MainLoop \/ Hardware \/ PowerCut
  BY <1>4 DEF DeviceNext
<1>5. CASE UNCHANGED vars
  BY <1>5 DEF vars, device
<1> QED
  BY <1>1, <1>2, <1>3, <1>4, <1>5 DEF Next, HostNext

\* The device under a DfuSe host behaves as the device under any host: the
\* host's bookkeeping restricts nothing the device could not do.
THEOREM SystemIsADevice == Spec => DeviceSpec
<1>1. Init => DeviceInit
  BY DEF Init
<1> QED
  BY <1>1, SystemStepIsDeviceStep, PTL DEF Spec, DeviceSpec

\* A host that is not able to reset the class driver behind the callbacks' back
\* always polls for the operation that is recorded.
THEOREM HostPollFindsItsOp ==
  ASSUME "classReset" \notin Events
  PROVE  Spec => []PollFindsItsOp
BY SystemIsADevice, PollAlwaysFindsItsOp, PTL

\* ... and its data blocks are started, or refused, by their first GETSTATUS.
THEOREM HostWriteStartsAtFirstPoll ==
  ASSUME "classReset" \notin Events
  PROVE  Spec => WriteStartsAtFirstPoll
BY SystemIsADevice, FirstPollStartsTheWrite, PTL

(***************************************************************************)
(* Types of the host's bookkeeping.                                        *)
(***************************************************************************)

HostTypeOK ==
  /\ host = [view |-> host.view, claim |-> host.claim, base |-> host.base,
             waiting |-> host.waiting]
  /\ host.view \in [Addr -> Cell \cup {Unknown}]
  /\ IsImage(host.claim)
  /\ host.base \in Nat \cup {Unknown}
  /\ host.waiting \in BOOLEAN

\* What a request promises, and to whom, has the right type.
LEMMA SendType ==
  ASSUME HostTypeOK, NEW req, NEW area, NEW claim, NEW base,
         Send(req, area, claim, base), IsImage(claim), base \in Nat \cup {Unknown}
  PROVE  HostTypeOK'
<1> DEFINE view == [a \in Addr |-> IF a \in area THEN Unknown ELSE host.view[a]]
<1>1. view \in [Addr -> Cell \cup {Unknown}]
  BY DEF HostTypeOK
<1> HIDE DEF view
<1>2. host' = [view |-> view, claim |-> claim, base |-> base, waiting |-> TRUE]
  BY DEF Send, view
<1>3. IsImage(claim)' = IsImage(claim)
  BY DEF IsImage, Addr, Cell
<1> QED
  BY <1>1, <1>2 DEF HostTypeOK, IsImage

\* The claim of a data block: bytes of the payload, counted from its start.
LEMMA DataClaimType ==
  ASSUME NEW base \in Nat, NEW block \in Blocks, NEW length \in Lengths, NEW data \in Payload,
         NEW fresh, fresh \subseteq BlockBytes(base, Request("DATA", 0, block, length, data)),
         BlockBytes(base, Request("DATA", 0, block, length, data)) \subseteq Addr
  PROVE  IsImage([a \in fresh |-> <<data, a - HostAddr(base, block)>>])
<1>1. HostAddr(base, block) \in Nat /\ length \in Nat
  BY BlockAddrIsNat, LengthsAssumption DEF HostAddr, BlockAddr, Blocks
<1>2. \A a \in fresh : a \in Addr /\ a - HostAddr(base, block) \in Nat
  BY <1>1 DEF BlockBytes, Request
<1> QED
  BY <1>2 DEF IsImage, Cell

\* Every step of the system keeps the host's types.
LEMMA HostNextType ==
  ASSUME DeviceTypeOK, HostTypeOK, [Next]_vars
  PROVE  HostTypeOK'
<1>1. CASE SendGetCommands \/ SendUnsupported \/ SendSetAddress
  BY <1>1, SendType, EmptyIsImage DEF SendGetCommands, SendUnsupported, SendSetAddress, HostTypeOK
<1>2. CASE SendErase
  <2>1. \A s : IsImage([a \in SectorAddrs(s) |-> Erased])
    BY DEF IsImage, SectorAddrs, Cell
  <2> QED
    BY <1>2, <2>1, SendType DEF SendErase, HostTypeOK
<1>3. CASE SendData
  <2>1. host.base \in Nat
    BY <1>3 DEF SendData, HostTypeOK
  <2>2. PICK block \in Blocks, length \in Lengths, data \in Payload :
          LET req   == Request("DATA", 0, block, length, data)
              bytes == BlockBytes(host.base, req)
              fresh == {a \in bytes : \A b \in WordOf(a) : host.view[b] = Erased}
          IN /\ bytes \subseteq Addr
             /\ Send(req, UNION {WordOf(a) : a \in bytes},
                     [a \in fresh |-> <<data, a - HostAddr(host.base, block)>>], host.base)
    BY <1>3 DEF SendData
  <2> DEFINE bytes == BlockBytes(host.base, Request("DATA", 0, block, length, data))
             fresh == {a \in bytes : \A b \in WordOf(a) : host.view[b] = Erased}
             claim == [a \in fresh |-> <<data, a - HostAddr(host.base, block)>>]
  <2>3. IsImage(claim)
    BY <2>1, <2>2, DataClaimType
  <2> QED
    BY <2>1, <2>2, <2>3, SendType
<1>4. CASE Poll
  <2>1. class.req.addr \in Nat
    BY DEF DeviceTypeOK, IsClass, IsRequest
  <2>2. Over(host.claim, host.view) \in [Addr -> Cell \cup {Unknown}]
    BY DEF HostTypeOK, Over, IsImage
  <2> QED
    BY <1>4, <2>1, <2>2, EmptyIsImage DEF Poll, HostTypeOK
<1>5. ASSUME NEW base \in Nat \cup {Unknown}, GiveUp(base) PROVE HostTypeOK'
  BY <1>5, EmptyIsImage DEF GiveUp, HostTypeOK
<1>6. CASE UNCHANGED host
  BY <1>6 DEF HostTypeOK
<1> QED
  BY <1>1, <1>2, <1>3, <1>4, <1>5, <1>6 DEF Next, HostNext, PollLost, vars, HostTypeOK

\* Device and host keep their types; what the host expects to read back is
\* always something a cell of the bank can hold.
THEOREM SystemTypeCorrect == Spec => []TypeOK
<1>1. Init => HostTypeOK
  BY EmptyIsImage DEF Init, HostTypeOK
<1>2. DeviceTypeOK /\ HostTypeOK /\ [Next]_vars => HostTypeOK'
  BY HostNextType
<1>3. DeviceTypeOK /\ HostTypeOK => TypeOK
  BY DEF TypeOK, HostTypeOK
<1> QED
  BY <1>1, <1>2, <1>3, SystemIsADevice, DeviceTypeCorrect, PTL DEF Spec

(***************************************************************************)
(* ReadBack, on hardware that refuses nothing.  By itself it is far from   *)
(* inductive.  The invariant follows each request from the class driver    *)
(* into the flash driver, the write buffer, the command in flight and the  *)
(* array, and keeps what the host relies on away from all of them.         *)
(***************************************************************************)

\* The buffered request is one a DfuSe host sends, and CR2 is unlocked.
Orderly ==
  /\ class.req \in Requests \cup {NoRequest}
  /\ dfuse_ctx.base_addr \in SectorBases
  /\ class.state = "DNLOAD_SYNC" /\ class.req.kind = "DATA"
       => BlockBytes(dfuse_ctx.base_addr, class.req) \subseteq Addr
  /\ class.state # "OFF" => ~bank.LOCK

----------------------------------------------------------------------------
(* Words and sectors.                                                      *)

\* The sector of a sector's base.
LEMMA SectorOfBase ==
  ASSUME NEW addr \in SectorBases
  PROVE  Sector(addr) = SectorAddrs(addr \div SECTOR)
<1>1. PICK s \in 0 .. NSECT - 1 : addr = s * SECTOR
  BY DEF SectorBases
<1>2. addr \div SECTOR = s
  BY <1>1, GeometryAssumption
<1>3. s % NSECT = s
  BY GeometryAssumption
<1>4. addr_to_sector(addr) = addr \div SECTOR
  <2> HIDE <1>1
  <2> QED
    BY <1>2, <1>3 DEF addr_to_sector
<1> QED
  BY <1>4 DEF Sector

----------------------------------------------------------------------------
(* The device keeps its requests and its jobs in order.                    *)

\* The first GETSTATUS of an erase hands it to the idle driver.
TakesErase ==
  /\ class.state = "DNLOAD_SYNC" /\ class.req.kind = "ERASE" /\ class'.state = "DNBUSY"
  /\ flash_ctx.state = "IDLE"
  /\ flash_ctx' = [flash_ctx EXCEPT !.addr = class.req.addr, !.state = "ERASE_PENDING"]
  /\ dfuse_ctx'.base_addr = dfuse_ctx.base_addr

\* The first GETSTATUS of a data block hands it to the idle driver.
TakesWrite ==
  /\ class.state = "DNLOAD_SYNC" /\ class.req.kind = "DATA" /\ class'.state = "DNBUSY"
  /\ flash_ctx.state = "IDLE"
  /\ flash_ctx' = [state |-> "WRITE_PENDING",
                   addr |-> BlockAddr(dfuse_ctx.base_addr, class.req.block),
                   buffer |-> class.req.buffer, length |-> class.req.length, offset |-> 0]
  /\ dfuse_ctx'.base_addr = dfuse_ctx.base_addr

\* Any other GETSTATUS.
TakesNothing ==
  LET kind == class.req.kind
  IN /\ flash_ctx' = flash_ctx
     /\ \/ dfuse_ctx'.base_addr = dfuse_ctx.base_addr
        \/ /\ kind = "SET_ADDRESS" /\ class.state = "DNLOAD_SYNC" /\ class'.state = "DNBUSY"
           /\ dfuse_ctx'.base_addr = class.req.addr
     /\ class'.state = "DNLOAD_SYNC" => kind \notin {"ERASE", "DATA", "SET_ADDRESS"}
     /\ class'.state = "DNBUSY" /\ kind \in {"ERASE", "DATA"} => class.state = "DNBUSY"
     /\ class'.state = "DNBUSY" /\ kind = "SET_ADDRESS" =>
          class.state = "DNBUSY" \/ dfuse_ctx'.base_addr = class.req.addr
     /\ class'.state = "DNLOAD_IDLE" /\ kind \in {"ERASE", "DATA"} =>
          class.state = "DNLOAD_IDLE" \/ (class.state = "DNBUSY" /\ ~flash_is_busy)
     /\ class'.state = "DNLOAD_IDLE" /\ kind = "SET_ADDRESS" =>
          class.state \in {"DNLOAD_IDLE", "DNBUSY"}

\* There is no other GETSTATUS.
LEMMA GetStatusTakes ==
  ASSUME DeviceTypeOK, Coupled, GetStatus
  PROVE  /\ bank' = bank /\ class'.req = class.req
         /\ TakesErase \/ TakesWrite \/ TakesNothing
<1> USE DEF DeviceTypeOK, IsDfuseCtx, IsClass, reply
<1>0. class.state \in DfuState /\ class.state \notin Detached /\ bank' = bank
  BY DEF GetStatus, tud_dfu_get_status_cb, DfuState, Detached
<1>1. CASE GetCommands
  BY <1>0, <1>1 DEF GetCommands, TakesNothing
<1>2. CASE SetAddress
  BY <1>0, <1>2 DEF SetAddress, TakesNothing
<1>3. CASE PollSetAddress
  BY <1>0, <1>3 DEF PollSetAddress, TakesNothing
<1>4. CASE MassErase
  BY <1>0, <1>4 DEF MassErase, TakesNothing
<1>5. CASE Erase
  BY <1>0, <1>5 DEF Erase, flash_erase_sector_async, flash_is_busy, TakesErase, TakesNothing
<1>6. CASE WriteMemory
  <2> DEFINE addr == BlockAddr(dfuse_ctx.base_addr, class.req.block)
  <2> HIDE DEF addr
  <2>1. PICK ok \in BOOLEAN :
          /\ flash_write_async(addr, class.req.buffer, class.req.length, ok)
          /\ IF ok THEN /\ dfuse_ctx' = [dfuse_ctx EXCEPT !.op = "WRITE_BUSY",
                                                          !.current_addr = addr]
                        /\ reply("OK", "DNBUSY")
             ELSE reply("ERR_ADDRESS", "ERROR") /\ UNCHANGED dfuse_ctx
    BY <1>6 DEF WriteMemory, addr
  <2>2. class.state = "DNLOAD_SYNC" /\ class.req.kind = "DATA"
    BY <1>6 DEF WriteMemory
  <2>3. CASE ok
    <3>1. /\ flash_ctx.state = "IDLE"
          /\ flash_ctx' = [state |-> "WRITE_PENDING", addr |-> addr, buffer |-> class.req.buffer,
                           length |-> class.req.length, offset |-> 0]
      BY <2>1, <2>3 DEF flash_write_async, flash_is_busy
    <3>2. dfuse_ctx'.base_addr = dfuse_ctx.base_addr /\ class'.state = "DNBUSY"
          /\ class'.req = class.req
      BY <2>1, <2>3
    <3> QED
      BY <1>0, <2>2, <3>1, <3>2 DEF TakesWrite, addr
  <2>4. CASE ~ok
    <3>1. flash_ctx' = flash_ctx /\ dfuse_ctx' = dfuse_ctx /\ class'.state = "ERROR"
          /\ class'.req = class.req
      BY <2>1, <2>4 DEF flash_write_async
    <3> QED
      BY <1>0, <3>1 DEF TakesNothing
  <2> QED
    BY <2>3, <2>4
<1>7. CASE PollFlash
  BY <1>0, <1>7 DEF PollFlash, TakesNothing
<1>8. CASE Unhandled
  <2>1. /\ dfuse_ctx' = dfuse_ctx /\ flash_ctx' = flash_ctx /\ class'.req = class.req
        /\ class'.state \in DefaultNext(class.state)
    BY <1>8 DEF Unhandled
  <2>2. class.state \in {"DNLOAD_SYNC", "DNBUSY"} =>
          class.req.kind \notin {"ERASE", "DATA", "SET_ADDRESS"}
    BY <1>0, <1>8 DEF Coupled, Unhandled, Handled
  <2>3. class.state \notin {"DNLOAD_SYNC", "DNBUSY"} =>
          /\ class'.state \notin {"DNLOAD_SYNC", "DNBUSY"}
          /\ class'.state = "DNLOAD_IDLE" => class.state = "DNLOAD_IDLE"
    BY <1>0, <2>1 DEF DefaultNext, DfuState
  <2>4. CASE class.state \in {"DNLOAD_SYNC", "DNBUSY"}
    BY <1>0, <2>1, <2>2, <2>4 DEF TakesNothing
  <2>5. CASE class.state \notin {"DNLOAD_SYNC", "DNBUSY"}
    BY <1>0, <2>1, <2>3, <2>5 DEF TakesNothing
  <2> QED
    BY <2>4, <2>5
<1> QED
  BY <1>1, <1>2, <1>3, <1>4, <1>5, <1>6, <1>7, <1>8 DEF GetStatus, tud_dfu_get_status_cb

\* A request stays in order through every step of the device.
LEMMA StepKeepsOrderly ==
  ASSUME "earlyMount" \notin Events, "classReset" \notin Events, Faults = FALSE,
         DeviceTypeOK, Settled, Coupled, IdleWhenOff, Orderly, WordByWord, [DeviceNext]_device
  PROVE  Orderly'
<1> USE DEF DeviceTypeOK
<1>0. Orderly' <=>
        /\ class'.req \in Requests \cup {NoRequest}
        /\ dfuse_ctx'.base_addr \in SectorBases
        /\ class'.state = "DNLOAD_SYNC" /\ class'.req.kind = "DATA"
             => BlockBytes(dfuse_ctx'.base_addr, class'.req) \subseteq Addr
        /\ class'.state # "OFF" => ~bank'.LOCK
  BY DEF Orderly, BlockBytes, HostAddr, Addr, Requests, NoRequest, Command, Request,
         SectorBases, Blocks, ZeroFlashCtx
<1>1. CASE GetStatus
  <2>1. /\ bank' = bank /\ class'.req = class.req
        /\ TakesErase \/ TakesWrite \/ TakesNothing
        /\ class.state # "OFF"
    BY <1>1, GetStatusTakes DEF GetStatus, DfuState
  <2>2. class.req \in Requests \cup {NoRequest}
    BY DEF Orderly
  <2>3. class.req.kind = "SET_ADDRESS" => class.req.addr \in SectorBases
    BY <2>2, RequestsInOrder
  <2>4. /\ dfuse_ctx'.base_addr \in SectorBases
        /\ class'.state = "DNLOAD_SYNC" => class.req.kind # "DATA"
    BY <2>1, <2>3 DEF TakesErase, TakesWrite, TakesNothing, Orderly
  <2> QED
    BY <1>0, <2>1, <2>2, <2>4 DEF Orderly
<1>2. CASE \E req \in Requests : Download(req)
  <2>1. PICK req \in Requests : Download(req)
    BY <1>2
  <2>2. class'.req = req /\ class.state # "OFF" /\ UNCHANGED <<dfuse_ctx, bank>>
    BY <2>1 DEF Download, Dnload, IsClass
  <2> QED
    BY <1>0, <2>1, <2>2 DEF Download, Orderly
<1>3. CASE DnloadEnd \/ Upload \/ Abort \/ ClrStatus \/ Unplug
  <2>1. /\ class'.req \in {class.req, NoRequest} /\ class'.state # "DNLOAD_SYNC"
        /\ class.state # "OFF" /\ bank' = bank
    <3>1. CASE DnloadEnd \/ Upload
      BY <3>1 DEF DnloadEnd, Upload, IsClass
    <3>2. CASE Abort \/ ClrStatus \/ Unplug
      BY <3>2 DEF Abort, ClrStatus, Unplug, ResetClass, DfuState
    <3> QED
      BY <1>3, <3>1, <3>2
  <2>2. dfuse_ctx'.base_addr = dfuse_ctx.base_addr
    BY <1>3 DEF DnloadEnd, Upload, Abort, ClrStatus, Unplug, tud_dfu_upload_cb,
                tud_dfu_abort_cb, IsDfuseCtx
  <2> QED
    BY <1>0, <2>1, <2>2 DEF Orderly
<1>4. CASE Enumerate
  <2>1. /\ class'.req \in {class.req, NoRequest} /\ class'.state = "DFU_IDLE"
        /\ dfuse_ctx'.base_addr = 0 /\ ~bank'.LOCK
    BY <1>4 DEF Enumerate, Mount, tud_mount_cb, ZeroDfuseCtx, ResetClass, flash_init, IsBank
  <2> QED
    BY <1>0, <2>1, ZeroIsBase DEF Orderly
<1>5. CASE Start
  <2>1. class' = ClassAt("UNMOUNTED") /\ dfuse_ctx' = dfuse_ctx /\ ~bank'.LOCK
    BY <1>5 DEF Start, flash_init, IsBank
  <2> QED
    BY <1>0, <2>1 DEF Orderly, ClassAt
<1>6. CASE PowerCut
  <2>1. class' = ClassAt("OFF") /\ dfuse_ctx'.base_addr = 0
    BY <1>6 DEF PowerCut, ZeroDfuseCtx
  <2> QED
    BY <1>0, <2>1, ZeroIsBase DEF ClassAt
<1>7. CASE MainLoop
  <2>1. flash_ctx.state # "IDLE"
    BY <1>7 DEF MainLoop, flash_process, StartErase, FinishErase, WriteChunk, ForceWrite,
                FinishWrite, Writing
  <2>2. ~bank.LOCK
    BY <2>1 DEF IdleWhenOff, Orderly
  <2>3. ~bank'.LOCK /\ UNCHANGED <<dfuse_ctx, class>>
    BY <1>7, <2>2, FlashProcessWordByWord DEF MainLoop
  <2> QED
    BY <1>0, <2>3 DEF Orderly
<1>8. CASE Hardware
  <2>1. bank'.LOCK = bank.LOCK /\ UNCHANGED <<dfuse_ctx, class>>
    BY <1>8 DEF Hardware, HwDone, IsBank
  <2> QED
    BY <1>0, <2>1 DEF Orderly
<1>9. CASE UNCHANGED device
  BY <1>0, <1>9 DEF device, Orderly
<1> QED
  BY <1>1, <1>2, <1>3, <1>4, <1>5, <1>6, <1>7, <1>8, <1>9 DEF DeviceNext, UsbNext, Reselect

\* ... and a job, too.
LEMMA StepKeepsWordByWord ==
  ASSUME "earlyMount" \notin Events, "classReset" \notin Events, Faults = FALSE,
         DeviceTypeOK, Settled, Coupled, IdleWhenOff, Orderly, WordByWord, [DeviceNext]_device
  PROVE  WordByWord'
<1> USE DEF DeviceTypeOK
<1>0. ASSUME flash_ctx' = flash_ctx, bank'.wb = bank.wb, bank'.PG = bank.PG PROVE WordByWord'
  BY <1>0 DEF WordByWord, WritesNow, JobBytes, Multiple, WBNE, WordOf, Addr
<1>1. ASSUME flash_ctx'.state \in {"IDLE", "ERASE_PENDING"} PROVE WordByWord'
  BY <1>1 DEF WordByWord, WritesNow
<1>2. CASE GetStatus
  <2>1. /\ bank' = bank
        /\ TakesErase \/ TakesWrite \/ TakesNothing
    BY <1>2, GetStatusTakes
  <2>2. CASE TakesErase
    BY <2>2, <1>1 DEF TakesErase, FlashCtxType
  <2>3. CASE TakesWrite
    <3> DEFINE addr == BlockAddr(dfuse_ctx.base_addr, class.req.block)
    <3>1. class.req.block \in Nat /\ class.req.block >= 2 /\ class.req.length \in Nat
          /\ class.req.length > 0
      BY <2>3, RequestsInOrder DEF TakesWrite, Orderly
    <3>2. Multiple(addr)
      BY <3>1, BlocksAligned DEF Orderly
    <3>3. BlockBytes(dfuse_ctx.base_addr, class.req) = addr .. addr + class.req.length - 1
      BY DEF BlockBytes, HostAddr, BlockAddr
    <3>4. addr .. addr + class.req.length - 1 \subseteq Addr
      BY <2>3, <3>3 DEF TakesWrite, Orderly
    <3>5. Multiple(0)
      <4>1. 0 \in Nat /\ 0 = 0 * WORD
        BY GeometryAssumption
      <4> QED
        BY <4>1, Zenon DEF Multiple
    <3>6. ~WBNE(bank)
      BY <2>3 DEF TakesWrite, Settled
    <3> HIDE DEF addr
    <3>7. /\ flash_ctx'.state = "WRITE_PENDING" /\ flash_ctx'.addr = addr
          /\ flash_ctx'.length = class.req.length /\ flash_ctx'.offset = 0
      BY <2>3 DEF TakesWrite, addr
    <3>8. JobBytes' = addr .. addr + class.req.length - 1
      BY <3>7 DEF JobBytes
    <3>9. DOMAIN bank'.wb = {}
      BY <2>1, <3>6 DEF WBNE
    <3> QED
      BY <3>1, <3>2, <3>4, <3>5, <3>7, <3>8, <3>9 DEF WordByWord, Multiple, WBNE, Addr
  <2>4. CASE TakesNothing
    BY <2>1, <2>4, <1>0 DEF TakesNothing
  <2> QED
    BY <2>1, <2>2, <2>3, <2>4
<1>3. CASE (\E req \in Requests : Download(req)) \/ DnloadEnd \/ Upload \/ Abort \/ ClrStatus
           \/ Reselect \/ Unplug
  BY <1>3, <1>0, ClassRequestType
<1>4. CASE Enumerate \/ Start
  BY <1>4, <1>1 DEF Enumerate, Mount, tud_mount_cb, Start, flash_init, FlashCtxType
<1>5. CASE PowerCut
  BY <1>5, <1>1 DEF PowerCut, ZeroFlashCtx
<1>6. CASE MainLoop
  <2>1. flash_ctx.state # "IDLE"
    BY <1>6 DEF MainLoop, flash_process, StartErase, FinishErase, WriteChunk, ForceWrite,
                FinishWrite, Writing
  <2>2. ~bank.LOCK
    BY <2>1 DEF IdleWhenOff, Orderly
  <2> QED
    BY <1>6, <2>2, FlashProcessWordByWord DEF MainLoop
<1>7. CASE Hardware
  BY <1>7, <1>0 DEF Hardware, HwDone, IsBank
<1>8. CASE UNCHANGED device
  BY <1>8, <1>0 DEF device
<1> QED
  BY <1>2, <1>3, <1>4, <1>5, <1>6, <1>7, <1>8 DEF DeviceNext, UsbNext

----------------------------------------------------------------------------
(* What the host relies on.                                                *)

\* Addresses that the driver and the hardware have not done with.
AtWork ==
  DOMAIN bank.running
    \cup {a \in Sector(flash_ctx.addr) : ErasesNow}
    \cup {a \in Words(JobBytes) : WritesNow}

\* Addresses that the request in the class driver is about.
Pending ==
  {a \in Sector(class.req.addr) : class.state = "DNLOAD_SYNC" /\ class.req.kind = "ERASE"}
    \cup {a \in Words(BlockBytes(dfuse_ctx.base_addr, class.req)) :
            class.state = "DNLOAD_SYNC" /\ class.req.kind = "DATA"}

\* The host relies on nothing there.
Cautious == \A a \in AtWork \cup Pending : host.view[a] = Unknown

\* An address pointer the host knows is the device's.
BaseKnown ==
  /\ host.base # Unknown => host.base = dfuse_ctx.base_addr
  /\ class.req.kind = "SET_ADDRESS" =>
       /\ class.state = "DNLOAD_SYNC" => host.base = Unknown
       /\ host.waiting /\ class.state \in {"DNBUSY", "DNLOAD_IDLE"} =>
            dfuse_ctx.base_addr = class.req.addr

Blank(a) == \A b \in WordOf(a) : bank.cells[b] = Erased

\* The claim is met, at the latest when the command in flight ends.
Landed(a) ==
  host.claim[a] = IF a \in DOMAIN bank.running THEN bank.running[a] ELSE bank.cells[a]

\* The claim will be met if the request is taken.
Asked(a) ==
  /\ class.req.kind = "ERASE" => a \in Sector(class.req.addr) /\ host.claim[a] = Erased
  /\ class.req.kind = "DATA" =>
       /\ a \in BlockBytes(dfuse_ctx.base_addr, class.req)
       /\ host.claim[a] =
            <<class.req.buffer, a - BlockAddr(dfuse_ctx.base_addr, class.req.block)>>
       /\ Blank(a) /\ WordOf(a) \cap AtWork = {}

\* The claim will be met by the rest of the job.
Carried(a) ==
  /\ flash_ctx.state = "ERASE_PENDING" =>
       a \in Sector(flash_ctx.addr) /\ host.claim[a] = Erased
  /\ WritesNow =>
       /\ a \in JobBytes /\ host.claim[a] = <<flash_ctx.buffer, a - flash_ctx.addr>>
       /\ \/ /\ \/ a >= flash_ctx.addr + flash_ctx.offset
                \/ a \in DOMAIN bank.wb /\ bank.wb[a] = host.claim[a]
             /\ Blank(a) /\ WordOf(a) \cap DOMAIN bank.running = {}
          \/ /\ a < flash_ctx.addr + flash_ctx.offset
             /\ a \notin DOMAIN bank.wb /\ Landed(a)
  /\ ~WritesNow /\ flash_ctx.state # "ERASE_PENDING" => Landed(a)

\* While the host waits, its claim is on its way.
Promised ==
  host.waiting =>
    /\ class.state # "OFF"
    /\ class.req.kind \notin {"ERASE", "DATA"} => DOMAIN host.claim = {}
    /\ \A a \in DOMAIN host.claim :
         /\ class.state = "DNLOAD_SYNC" => Asked(a)
         /\ class.state \in {"DNBUSY", "DNLOAD_IDLE"} => Carried(a)
         /\ class.state = "DNLOAD_IDLE" => ~flash_is_busy

----------------------------------------------------------------------------
(* Work on the memory.                                                     *)

\* A step that takes on no new work and spoils nothing else.
Restrained ==
  /\ AtWork' \cup Pending' \subseteq AtWork \cup Pending
  /\ \A a \in Addr : a \notin DOMAIN bank.running => bank'.cells[a] = bank.cells[a]

\* Each step of flash_process takes on part of its job.
LEMMA FlashProcessRestrained ==
  ASSUME IsBank(bank), flash_ctx \in FlashCtxType, Settled, WordByWord, ~bank.LOCK,
         Faults = FALSE, flash_process
  PROVE  AtWork' \subseteq AtWork /\ bank'.cells = bank.cells
<1> USE DEF FlashCtxType
<1>1. CASE StartErase
  <2>1. /\ bank'.cells = bank.cells /\ DOMAIN bank'.running = Sector(flash_ctx.addr)
        /\ flash_ctx' = [flash_ctx EXCEPT !.state = "ERASE_BUSY"]
        /\ ErasesNow
    BY <1>1, StartEraseEffect DEF StartErase, ErasesNow
  <2>2. flash_ctx'.addr = flash_ctx.addr /\ ~WritesNow'
    BY <2>1 DEF WritesNow
  <2> QED
    BY <2>1, <2>2 DEF AtWork, Sector, SectorAddrs, addr_to_sector, Addr
<1>2. CASE FinishErase \/ FinishWrite
  BY <1>2, FinishEffect DEF AtWork, ErasesNow, WritesNow
<1>3. ASSUME NEW w, w \subseteq Words(JobBytes), WritesNow, bank'.cells = bank.cells,
             DOMAIN bank'.running \subseteq w, JobBytes' = JobBytes,
             flash_ctx'.state = "WRITE_BUSY"
      PROVE  AtWork' \subseteq AtWork /\ bank'.cells = bank.cells
  BY <1>3 DEF AtWork, ErasesNow, WritesNow, Words, WordOf, Addr
<1>4. CASE WriteChunk
  <2> DEFINE next == NextOffset(flash_ctx)
             first == flash_ctx.addr + flash_ctx.offset
             last == flash_ctx.addr + next - 1
             w == Addr \cap (first .. first + WORD - 1)
  <2>1. ChunkStored(first, last, w)
    BY <1>4, WriteChunkEffect
  <2>2. first \in first .. last
    BY <1>4, GeometryAssumption DEF WriteChunk, NextOffset
  <2> HIDE DEF first, last, w
  <2>3. /\ WritesNow /\ bank'.cells = bank.cells /\ DOMAIN bank'.running \subseteq w
        /\ JobBytes' = JobBytes /\ flash_ctx'.state = "WRITE_BUSY"
    BY <1>4, <2>1 DEF ChunkStored, WriteChunk, Writing, WritesNow, JobBytes
  <2>4. first \in JobBytes /\ WordOf(first) = w
    BY <2>1, <2>2 DEF ChunkStored
  <2>5. w \subseteq Words(JobBytes)
    BY <2>4 DEF Words
  <2> QED
    BY <2>3, <2>5, <1>3
<1>5. CASE ForceWrite
  <2>1. PICK b : b \in DOMAIN bank.wb
    BY <1>5 DEF ForceWrite, WBNE
  <2>2. /\ WritesNow /\ b \in JobBytes
        /\ \A a \in DOMAIN bank.wb : WordOf(a) = WordOf(b)
    BY <1>5, <2>1 DEF ForceWrite, Writing, WordByWord, WritesNow
  <2>3. /\ bank'.cells = bank.cells /\ DOMAIN bank'.running = WordOf(b)
        /\ flash_ctx' = [flash_ctx EXCEPT !.state = "WRITE_BUSY"]
    BY <1>5, <2>2, ForceWriteEffect
  <2>4. JobBytes' = JobBytes /\ WordOf(b) \subseteq Words(JobBytes)
    BY <2>2, <2>3 DEF JobBytes, Words
  <2> QED
    BY <2>2, <2>3, <2>4, <1>3
<1> QED
  BY <1>1, <1>2, <1>4, <1>5 DEF flash_process

\* A GETSTATUS hands over no more than was asked.
LEMMA GetStatusRestrained ==
  ASSUME DeviceTypeOK, Coupled, GetStatus
  PROVE  Restrained
<1> USE DEF DeviceTypeOK, FlashCtxType
<1>1. /\ bank' = bank /\ class'.req = class.req
      /\ TakesErase \/ TakesWrite \/ TakesNothing
  BY GetStatusTakes
<1>2. CASE TakesErase
  <2>1. /\ AtWork' = DOMAIN bank.running \cup Sector(class.req.addr)
        /\ Pending' = {} /\ Sector(class.req.addr) \subseteq Pending
    BY <1>1, <1>2 DEF TakesErase, AtWork, Pending, ErasesNow, WritesNow, Sector, SectorAddrs,
                      addr_to_sector, Addr
  <2> QED
    BY <1>1, <2>1 DEF Restrained, AtWork
<1>3. CASE TakesWrite
  <2>1. JobBytes' = BlockBytes(dfuse_ctx.base_addr, class.req)
    BY <1>3 DEF TakesWrite, JobBytes, BlockBytes, HostAddr, BlockAddr
  <2>2. /\ AtWork' = DOMAIN bank.running \cup Words(BlockBytes(dfuse_ctx.base_addr, class.req))
        /\ Pending' = {} /\ Words(BlockBytes(dfuse_ctx.base_addr, class.req)) \subseteq Pending
    BY <1>1, <1>3, <2>1 DEF TakesWrite, AtWork, Pending, ErasesNow, WritesNow, Words, WordOf, Addr
  <2> QED
    BY <1>1, <2>2 DEF Restrained, AtWork
<1>4. CASE TakesNothing
  <2>1. AtWork' = AtWork
    BY <1>1, <1>4 DEF TakesNothing, AtWork, ErasesNow, WritesNow, JobBytes, Sector, SectorAddrs,
                      addr_to_sector, Words, WordOf, Addr
  <2>2. Pending' = {}
    BY <1>1, <1>4 DEF TakesNothing, Pending
  <2> QED
    BY <1>1, <2>1, <2>2 DEF Restrained
<1> QED
  BY <1>1, <1>2, <1>3, <1>4

\* A host can make the device take on work by its downloads only.
LEMMA StepRestrained ==
  ASSUME "earlyMount" \notin Events, "classReset" \notin Events, Faults = FALSE,
         DeviceTypeOK, Settled, Coupled, IdleWhenOff, Orderly, WordByWord,
         \/ GetStatus \/ DnloadEnd \/ Upload \/ Abort \/ ClrStatus \/ Enumerate \/ Unplug
         \/ Start \/ MainLoop \/ Hardware \/ PowerCut \/ UNCHANGED device
  PROVE  Restrained
<1> USE DEF DeviceTypeOK
<1>0. ASSUME flash_ctx' = flash_ctx, bank' = bank PROVE AtWork' = AtWork
  BY <1>0 DEF AtWork, ErasesNow, WritesNow, JobBytes, Sector, SectorAddrs, addr_to_sector,
              Words, WordOf, Addr
<1>1. ASSUME class'.state # "DNLOAD_SYNC" PROVE Pending' = {}
  BY <1>1 DEF Pending
<1>2. CASE GetStatus
  BY <1>2, GetStatusRestrained
<1>3. CASE DnloadEnd \/ Upload \/ Abort \/ ClrStatus \/ Unplug
  <2>1. class'.state # "DNLOAD_SYNC"
    <3>1. CASE DnloadEnd \/ Upload
      BY <3>1 DEF DnloadEnd, Upload, IsClass
    <3>2. CASE Abort \/ ClrStatus \/ Unplug
      BY <3>2 DEF Abort, ClrStatus, Unplug, ResetClass
    <3> QED
      BY <1>3, <3>1, <3>2
  <2>2. bank' = bank /\ flash_ctx' = flash_ctx
    BY <1>3 DEF DnloadEnd, Upload, Abort, ClrStatus, Unplug
  <2> QED
    BY <2>1, <2>2, <1>0, <1>1 DEF Restrained
<1>4. CASE Enumerate \/ Start
  <2>1. /\ class'.state # "DNLOAD_SYNC" /\ flash_ctx'.state = "IDLE"
        /\ bank'.running = bank.running /\ bank'.cells = bank.cells
    BY <1>4 DEF Enumerate, Mount, tud_mount_cb, Start, ClassAt, ResetClass, flash_init,
                IsBank, FlashCtxType
  <2> QED
    BY <2>1, <1>1 DEF Restrained, AtWork, ErasesNow, WritesNow
<1>5. CASE PowerCut
  <2>1. /\ class'.state # "DNLOAD_SYNC" /\ flash_ctx'.state = "IDLE"
        /\ bank' = ResetBank(Over([a \in DOMAIN bank.running |-> Junk], bank.cells))
    BY <1>5 DEF PowerCut, ClassAt, CutOff, ZeroFlashCtx
  <2>2. DOMAIN bank'.running = {}
    BY <2>1 DEF ResetBank, Empty
  <2>3. bank'.cells = Over([a \in DOMAIN bank.running |-> Junk], bank.cells)
    BY <2>1 DEF ResetBank
  <2>4. \A a \in Addr : a \notin DOMAIN bank.running => bank'.cells[a] = bank.cells[a]
    BY <2>3 DEF Over, IsBank
  <2> QED
    BY <2>1, <2>2, <2>4, <1>1 DEF Restrained, AtWork, ErasesNow, WritesNow
<1>6. CASE MainLoop
  <2>1. flash_ctx.state # "IDLE"
    BY <1>6 DEF MainLoop, flash_process, StartErase, FinishErase, WriteChunk, ForceWrite,
                FinishWrite, Writing
  <2>2. ~bank.LOCK
    BY <2>1 DEF IdleWhenOff, Orderly
  <2>3. AtWork' \subseteq AtWork /\ bank'.cells = bank.cells
    BY <1>6, <2>2, FlashProcessRestrained DEF MainLoop
  <2>4. Pending' = Pending
    BY <1>6 DEF MainLoop, Pending, Sector, SectorAddrs, addr_to_sector, Words, WordOf, Addr,
                BlockBytes, HostAddr
  <2> QED
    BY <2>3, <2>4 DEF Restrained
<1>7. CASE Hardware
  <2>1. /\ DOMAIN bank'.running = {}
        /\ \A a \in Addr : a \notin DOMAIN bank.running => bank'.cells[a] = bank.cells[a]
    BY <1>7 DEF Hardware, HwDone, IsBank, Empty, Over
  <2>2. AtWork' \subseteq AtWork
    BY <1>7, <2>1 DEF Hardware, AtWork, ErasesNow, WritesNow, JobBytes, Sector, SectorAddrs,
                      addr_to_sector, Words, WordOf, Addr
  <2>3. Pending' = Pending
    BY <1>7 DEF Hardware, Pending, Sector, SectorAddrs, addr_to_sector, Words, WordOf, Addr,
                BlockBytes, HostAddr
  <2> QED
    BY <2>1, <2>2, <2>3 DEF Restrained
<1>8. CASE UNCHANGED device
  <2>1. Pending' = Pending
    BY <1>8 DEF device, Pending, Sector, SectorAddrs, addr_to_sector, Words, WordOf, Addr,
                BlockBytes, HostAddr
  <2> QED
    BY <1>8, <2>1, <1>0 DEF device, Restrained
<1> QED
  BY <1>2, <1>3, <1>4, <1>5, <1>6, <1>7, <1>8

----------------------------------------------------------------------------
(* The claim on its way through the driver.                                *)

\* An address lies in its own word, and the words of two addresses are the same
\* or apart.
LEMMA WordsApart ==
  ASSUME NEW a \in Addr
  PROVE  a \in WordOf(a) /\ \A b \in WordOf(a) : WordOf(b) = WordOf(a)
BY DEF WordOf

\* A flash word on its way to the memory takes the claims in it along, and
\* passes by the others.
LEMMA WriteChunkCarries ==
  ASSUME IsBank(bank), flash_ctx \in FlashCtxType, Settled, WordByWord, ~bank.LOCK,
         Faults = FALSE, WriteChunk, host' = host, NEW a \in Addr, Carried(a)
  PROVE  Carried(a)'
<1> DEFINE next == NextOffset(flash_ctx)
           first == flash_ctx.addr + flash_ctx.offset
           last == flash_ctx.addr + next - 1
           w == Addr \cap (first .. first + WORD - 1)
           claim == <<flash_ctx.buffer, a - flash_ctx.addr>>
<1>1. ChunkStored(first, last, w)
  BY WriteChunkEffect
<1>2. /\ flash_ctx.addr \in Nat /\ flash_ctx.offset \in Nat /\ flash_ctx.length \in Nat
      /\ WORD \in Nat \ {0} /\ a \in Nat
  BY GeometryAssumption DEF FlashCtxType, Addr
<1>3. WritesNow /\ flash_ctx.offset < flash_ctx.length /\ DOMAIN bank.running = {}
      /\ DOMAIN bank.wb = {}
  BY DEF WriteChunk, Writing, WritesNow, WordByWord, flash_op_complete, QW, WBNE
<1>4. flash_ctx.offset <= next /\ next \in Nat
  BY <1>2, <1>3, <1>1 DEF NextOffset, ChunkStored
<1>5. /\ first \in Nat /\ first .. last \subseteq first .. first + WORD - 1
      /\ last + 1 = flash_ctx.addr + next
  BY <1>1, <1>2, <1>4 DEF ChunkStored
<1>6. a \in JobBytes /\ host.claim[a] = claim
  BY <1>3 DEF Carried
<1>7. \/ a >= first /\ Blank(a)
      \/ a < first /\ bank.cells[a] = claim
  BY <1>3, <1>6 DEF Carried, Landed
<1>8. /\ flash_ctx'.addr = flash_ctx.addr /\ flash_ctx'.buffer = flash_ctx.buffer
      /\ flash_ctx'.offset = next /\ flash_ctx'.state = "WRITE_BUSY"
      /\ JobBytes' = JobBytes /\ bank'.cells = bank.cells
  BY <1>1 DEF ChunkStored, JobBytes, FlashCtxType
<1>9. Carried(a)' <=>
        \/ /\ a >= flash_ctx.addr + next \/ (a \in DOMAIN bank'.wb /\ bank'.wb[a] = claim)
           /\ Blank(a) /\ WordOf(a) \cap DOMAIN bank'.running = {}
        \/ /\ a < flash_ctx.addr + next /\ a \notin DOMAIN bank'.wb
           /\ claim = IF a \in DOMAIN bank'.running THEN bank'.running[a] ELSE bank.cells[a]
  BY <1>6, <1>8 DEF Carried, WritesNow, Landed, Blank, WordOf, Addr
<1>10. last = flash_ctx.addr + flash_ctx.length - 1 => a <= last
  BY <1>2, <1>6 DEF JobBytes
<1>11. a >= first /\ a \in w /\ Blank(a) => \A b \in w : bank.cells[b] = Erased
  BY <1>1 DEF ChunkStored, Blank
<1>12. a \notin w => WordOf(a) \cap w = {}
  BY <1>1, WordsApart DEF ChunkStored
<1>13. \/ /\ DOMAIN bank'.wb = {} /\ DOMAIN bank'.running = w /\ w \subseteq first .. last
          /\ (\A b \in w : bank.cells[b] = Erased)
               => \A b \in w : bank'.running[b] = <<flash_ctx.buffer, b - flash_ctx.addr>>
       \/ /\ DOMAIN bank'.running = {} /\ DOMAIN bank'.wb = first .. last
          /\ last = flash_ctx.addr + flash_ctx.length - 1
          /\ \A b \in first .. last : bank'.wb[b] = <<flash_ctx.buffer, b - flash_ctx.addr>>
  BY <1>1 DEF ChunkStored
<1>14. a \in w <=> a >= first /\ a <= first + WORD - 1
  BY <1>2, <1>5
<1>15. last \in Int /\ (first <= last => last <= first + WORD - 1)
  BY <1>2, <1>4, <1>5
<1> HIDE DEF next, first, last, w
<1>16. CASE a < first /\ bank.cells[a] = claim
  <2>1. a < flash_ctx.addr + next /\ a \notin w /\ a \notin first .. last
    BY <1>2, <1>4, <1>5, <1>14, <1>16 DEF first
  <2> QED
    BY <1>9, <1>13, <1>16, <2>1
<1>17. CASE a >= first /\ Blank(a) /\ a \in w
  <2>1. CASE DOMAIN bank'.wb = {} /\ DOMAIN bank'.running = w /\ w \subseteq first .. last
    <3>1. bank'.running[a] = claim
      <4>1. \A b \in w : bank.cells[b] = Erased
        BY <1>11, <1>17
      <4>2. DOMAIN bank'.running # {}
        BY <1>17, <2>1
      <4>3. \A b \in w : bank'.running[b] = <<flash_ctx.buffer, b - flash_ctx.addr>>
        BY <1>13, <4>1, <4>2
      <4> QED
        BY <1>17, <4>3
    <3>2. a < flash_ctx.addr + next
      <4>1. a \in first .. last
        BY <1>17, <2>1
      <4>2. a <= last
        BY <1>15, <4>1
      <4>3. flash_ctx.addr + next \in Int /\ last = flash_ctx.addr + next - 1
        BY <1>2, <1>4 DEF last
      <4> QED
        BY <1>2, <1>4, <1>15, <4>2, <4>3
    <3> QED
      BY <1>9, <1>17, <2>1, <3>1, <3>2
  <2>2. CASE /\ DOMAIN bank'.running = {} /\ DOMAIN bank'.wb = first .. last
             /\ last = flash_ctx.addr + flash_ctx.length - 1
    <3>1. a \in first .. last
      BY <1>2, <1>10, <1>15, <1>17, <2>2
    <3>2. bank'.wb[a] = claim
      <4>1. w # {}
        BY <1>17
      <4> QED
        BY <1>13, <2>2, <3>1, <4>1
    <3> QED
      BY <1>9, <1>17, <2>2, <3>1, <3>2
  <2> QED
    BY <1>13, <2>1, <2>2
<1>18. CASE a >= first /\ Blank(a) /\ a \notin w
  <2>1. a > first + WORD - 1
    BY <1>2, <1>5, <1>14, <1>18
  <2>2. a >= flash_ctx.addr + next
    BY <1>2, <1>4, <1>5, <1>15, <1>18, <2>1
  <2>3. WordOf(a) \cap DOMAIN bank'.running = {}
    BY <1>12, <1>13, <1>18
  <2> QED
    BY <1>9, <1>18, <2>2, <2>3
<1> QED
  BY <1>7, <1>16, <1>17, <1>18

\* The same of the partly filled last word.
LEMMA ForceWriteCarries ==
  ASSUME IsBank(bank), flash_ctx \in FlashCtxType, Settled, WordByWord, ~bank.LOCK,
         Faults = FALSE, ForceWrite, host' = host, NEW a \in Addr, Carried(a)
  PROVE  Carried(a)'
<1> DEFINE claim == <<flash_ctx.buffer, a - flash_ctx.addr>>
<1>1. PICK b : b \in DOMAIN bank.wb
  BY DEF ForceWrite, WBNE
<1>2. /\ WritesNow /\ ~(flash_ctx.offset < flash_ctx.length) /\ DOMAIN bank.running = {}
      /\ \A c \in DOMAIN bank.wb : WordOf(c) = WordOf(b)
      /\ WordOf(b) \cap JobBytes \subseteq DOMAIN bank.wb /\ b \in Addr
  BY <1>1 DEF ForceWrite, Writing, WordByWord, WritesNow, flash_op_complete, QW
<1>3. /\ bank'.cells = bank.cells /\ DOMAIN bank'.wb = {} /\ DOMAIN bank'.running = WordOf(b)
      /\ (\A c \in WordOf(b) : bank.cells[c] = Erased)
           => \A c \in WordOf(b) \cap DOMAIN bank.wb : bank'.running[c] = bank.wb[c]
      /\ flash_ctx' = [flash_ctx EXCEPT !.state = "WRITE_BUSY"]
  BY <1>2, ForceWriteEffect
<1>4. a \in JobBytes /\ host.claim[a] = claim
  BY <1>2 DEF Carried
<1>5. a < flash_ctx.addr + flash_ctx.offset
  BY <1>2, <1>4 DEF JobBytes, FlashCtxType, Addr
<1>6. /\ flash_ctx'.addr = flash_ctx.addr /\ flash_ctx'.buffer = flash_ctx.buffer
      /\ flash_ctx'.offset = flash_ctx.offset /\ flash_ctx'.state = "WRITE_BUSY"
      /\ JobBytes' = JobBytes
  BY <1>3 DEF JobBytes, FlashCtxType
<1>7. claim = (IF a \in DOMAIN bank'.running THEN bank'.running[a] ELSE bank.cells[a])
        => Carried(a)'
  BY <1>3, <1>4, <1>5, <1>6 DEF Carried, WritesNow, Landed
<1>8. CASE a \in DOMAIN bank.wb /\ bank.wb[a] = host.claim[a] /\ Blank(a)
  <2>1. a \in WordOf(b) /\ \A c \in WordOf(b) : bank.cells[c] = Erased
    BY <1>2, <1>8, WordsApart DEF Blank
  <2> QED
    BY <1>3, <1>4, <1>7, <1>8, <2>1
<1>9. CASE a \notin DOMAIN bank.wb /\ Landed(a)
  <2>1. a \notin WordOf(b)
    BY <1>2, <1>4, <1>9
  <2> QED
    BY <1>2, <1>3, <1>4, <1>7, <1>9, <2>1 DEF Landed
<1>10. ~(a >= flash_ctx.addr + flash_ctx.offset)
  BY <1>5 DEF FlashCtxType, Addr
<1> QED
  BY <1>2, <1>8, <1>9, <1>10 DEF Carried

\* flash_process brings a claim forward, and the end of the job meets it.
LEMMA FlashProcessCarries ==
  ASSUME IsBank(bank), flash_ctx \in FlashCtxType, Settled, WordByWord, ~bank.LOCK,
         Faults = FALSE, flash_process, host' = host, NEW a \in Addr, Carried(a)
  PROVE  Carried(a)'
<1>1. CASE StartErase
  <2>1. /\ bank'.running = [c \in Sector(flash_ctx.addr) |-> Erased]
        /\ flash_ctx'.state = "ERASE_BUSY" /\ flash_ctx.state = "ERASE_PENDING"
    BY <1>1, StartEraseEffect DEF StartErase, FlashCtxType
  <2>2. a \in Sector(flash_ctx.addr) /\ host.claim[a] = Erased
    BY <2>1 DEF Carried
  <2>3. bank'.running[a] = Erased /\ a \in DOMAIN bank'.running
    BY <2>1, <2>2
  <2> QED
    BY <2>1, <2>2, <2>3 DEF Carried, WritesNow, Landed
<1>2. CASE FinishErase \/ FinishWrite
  <2>1. /\ bank'.cells = bank.cells /\ bank'.running = bank.running
        /\ flash_ctx'.state = "IDLE"
    BY <1>2, FinishEffect DEF FlashCtxType
  <2>2. Landed(a)
    <3>1. CASE FinishErase
      BY <3>1 DEF FinishErase, Carried, WritesNow
    <3>2. CASE FinishWrite
      <4>1. WritesNow /\ DOMAIN bank.wb = {} /\ flash_ctx.offset >= flash_ctx.length
        BY <3>2 DEF FinishWrite, Writing, WritesNow, WBNE
      <4>2. ~(a >= flash_ctx.addr + flash_ctx.offset)
        BY <4>1 DEF Carried, JobBytes, FlashCtxType, Addr
      <4> QED
        BY <4>1, <4>2 DEF Carried
    <3> QED
      BY <1>2, <3>1, <3>2
  <2> QED
    BY <2>1, <2>2 DEF Carried, WritesNow, Landed
<1> QED
  BY <1>1, <1>2, WriteChunkCarries, ForceWriteCarries DEF flash_process

\* The hardware brings it home.
LEMMA HwDoneCarries ==
  ASSUME IsBank(bank), HwDone, flash_ctx' = flash_ctx, host' = host,
         NEW a \in Addr, Carried(a)
  PROVE  Carried(a)'
<1>1. /\ bank'.wb = bank.wb /\ DOMAIN bank'.running = {}
      /\ bank'.cells = Over(bank.running, bank.cells)
  BY DEF HwDone, IsBank, Empty
<1>2. \A c \in Addr : bank'.cells[c] = IF c \in DOMAIN bank.running THEN bank.running[c]
                                       ELSE bank.cells[c]
  BY <1>1 DEF Over, IsBank
<1>3. Landed(a) => Landed(a)'
  BY <1>1, <1>2 DEF Landed
<1>4. Blank(a) /\ WordOf(a) \cap DOMAIN bank.running = {}
        => Blank(a)' /\ WordOf(a) \cap DOMAIN bank'.running = {}
  BY <1>1, <1>2 DEF Blank, WordOf, Addr
<1>5. WritesNow' = WritesNow /\ JobBytes' = JobBytes
  BY DEF WritesNow, JobBytes
<1> QED
  BY <1>1, <1>3, <1>4, <1>5 DEF Carried, Sector, SectorAddrs, addr_to_sector, Addr, WordOf

----------------------------------------------------------------------------
(* The host's side.                                                        *)

\* What is known of the device on its own.
InOrder ==
  DeviceTypeOK /\ Settled /\ Coupled /\ IdleWhenOff /\ Orderly /\ WordByWord

\* What the host expects survives a restrained step.
LEMMA RestraintKeepsView ==
  ASSUME HostTypeOK, Restrained, Cautious, ReadBack, host'.view = host.view
  PROVE  Cautious' /\ ReadBack'
<1>1. Cautious'
  BY DEF Restrained, Cautious
<1>2. \A a \in Addr : host.view[a] # Unknown => a \notin DOMAIN bank.running
  BY DEF Cautious, AtWork
<1>3. ReadBack'
  BY <1>2 DEF Restrained, ReadBack, Addr
<1> QED
  BY <1>1, <1>3

\* A claim is not affected where nothing moves.
LEMMA CarriedStays ==
  ASSUME UNCHANGED <<bank, flash_ctx, host>>, NEW a, Carried(a)
  PROVE  Carried(a)'
BY DEF Carried, WritesNow, Landed, Blank, JobBytes, Sector, SectorAddrs, addr_to_sector, Addr,
       WordOf

\* The host asks for what it claims, and relies on none of it meanwhile.
Honest(req, area, claim, base) ==
  LET bytes == BlockBytes(dfuse_ctx.base_addr, req)
  IN /\ base \in {host.base, Unknown}
     /\ req.kind = "SET_ADDRESS" => base = Unknown
     /\ req.kind = "ERASE" =>
          /\ Sector(req.addr) \subseteq area
          /\ \A a \in DOMAIN claim : a \in Sector(req.addr) /\ claim[a] = Erased
     /\ req.kind = "DATA" =>
          /\ Words(bytes) \subseteq area
          /\ \A a \in DOMAIN claim :
               /\ a \in bytes
               /\ claim[a] = <<req.buffer, a - BlockAddr(dfuse_ctx.base_addr, req.block)>>
               /\ \A b \in WordOf(a) : host.view[b] = Erased
     /\ req.kind \notin {"ERASE", "DATA"} => DOMAIN claim = {}

\* An honest request is promised; nothing has happened to the memory.
LEMMA HonestRequest ==
  ASSUME Unknown # Erased, InOrder, HostTypeOK, Cautious, BaseKnown, ReadBack,
         NEW req, NEW area, NEW claim, NEW base,
         Honest(req, area, claim, base), Send(req, area, claim, base)
  PROVE  Cautious' /\ BaseKnown' /\ Promised' /\ ReadBack'
<1> DEFINE bytes == BlockBytes(dfuse_ctx.base_addr, req)
           view == [a \in Addr |-> IF a \in area THEN Unknown ELSE host.view[a]]
<1>1. /\ class'.state = "DNLOAD_SYNC" /\ class'.req = req
      /\ UNCHANGED <<dfuse_ctx, flash_ctx, bank>>
  BY DEF Send, Download, Dnload, InOrder, DeviceTypeOK, IsClass
<1>2. /\ host'.view = view /\ host'.claim = claim /\ host'.base = base /\ host'.waiting = TRUE
  BY DEF Send
<1>3. \A a \in Addr : view[a] = IF a \in area THEN Unknown ELSE host.view[a]
  OBVIOUS
<1> HIDE DEF view
<1>4. AtWork' = AtWork
  BY <1>1 DEF AtWork, ErasesNow, WritesNow, JobBytes, Sector, SectorAddrs, addr_to_sector,
              Words, WordOf, Addr
<1>5. /\ BlockBytes(dfuse_ctx'.base_addr, class'.req) = bytes
      /\ BlockAddr(dfuse_ctx'.base_addr, class'.req.block)
           = BlockAddr(dfuse_ctx.base_addr, req.block)
  BY <1>1
<1>6. Pending' \subseteq area
  BY <1>1, <1>5 DEF Honest, Pending, Sector, SectorAddrs, addr_to_sector, Words, WordOf, Addr,
                    BlockBytes, HostAddr
<1>7. AtWork \subseteq Addr /\ Pending' \subseteq Addr
  BY DEF InOrder, DeviceTypeOK, IsBank, IsImage, AtWork, Pending, Sector, SectorAddrs, Words,
         WordOf, Addr
<1>8. Cautious'
  BY <1>2, <1>3, <1>4, <1>6, <1>7 DEF Cautious
<1>9. BaseKnown'
  BY <1>1, <1>2 DEF Honest, BaseKnown
<1>10. ReadBack'
  BY <1>1, <1>2, <1>3 DEF ReadBack, Addr
<1>11. ASSUME NEW a \in DOMAIN claim PROVE Asked(a)'
  <2>1. CASE req.kind = "DATA"
    <3>1. /\ a \in bytes /\ \A b \in WordOf(a) : host.view[b] = Erased
          /\ claim[a] = <<req.buffer, a - BlockAddr(dfuse_ctx.base_addr, req.block)>>
      BY <1>11, <2>1 DEF Honest
    <3>2. Blank(a)
      BY <3>1 DEF Blank, ReadBack, WordOf
    <3>3. WordOf(a) \cap AtWork = {}
      BY <3>1 DEF Cautious
    <3>4. Blank(a)' /\ WordOf(a) \cap AtWork' = {}
      BY <1>1, <1>4, <3>2, <3>3 DEF Blank, WordOf, Addr
    <3> HIDE DEF bytes
    <3> QED
      BY <1>1, <1>2, <1>5, <2>1, <3>1, <3>4
      DEF Asked, WordOf, Addr, BlockBytes, HostAddr, BlockAddr
  <2>2. CASE req.kind = "ERASE"
    <3>1. a \in Sector(req.addr) /\ claim[a] = Erased
      BY <1>11, <2>2 DEF Honest
    <3> QED
      BY <1>1, <1>2, <2>2, <3>1 DEF Asked, Sector, SectorAddrs, addr_to_sector, Addr
  <2> QED
    BY <1>11, <2>1, <2>2 DEF Honest
<1>12. Promised'
  BY <1>1, <1>2, <1>11 DEF Promised, Honest
<1> QED
  BY <1>8, <1>9, <1>10, <1>12

\* The host's requests are honest.
LEMMA SendsAreHonest ==
  ASSUME BaseKnown,
         \/ SendGetCommands \/ SendSetAddress \/ SendErase \/ SendUnsupported \/ SendData
  PROVE  \E req, area, claim, base :
           Honest(req, area, claim, base) /\ Send(req, area, claim, base)
<1>0. DOMAIN Empty = {}
  BY DEF Empty
<1>1. CASE SendGetCommands
  <2>1. Honest(Command("GET_COMMANDS", 0), {}, Empty, host.base)
    BY <1>0 DEF Honest, Command, Request
  <2> QED
    BY <1>1, <2>1 DEF SendGetCommands
<1>2. CASE SendUnsupported
  <2>1. PICK kind \in {"MASS_ERASE", "OTHER"} : Send(Command(kind, 0), {}, Empty, host.base)
    BY <1>2 DEF SendUnsupported
  <2>2. Honest(Command(kind, 0), {}, Empty, host.base)
    BY <1>0 DEF Honest, Command, Request
  <2> QED
    BY <2>1, <2>2
<1>3. CASE SendSetAddress
  <2>1. PICK addr \in SectorBases : Send(Command("SET_ADDRESS", addr), {}, Empty, Unknown)
    BY <1>3 DEF SendSetAddress
  <2>2. Honest(Command("SET_ADDRESS", addr), {}, Empty, Unknown)
    BY <1>0 DEF Honest, Command, Request
  <2> QED
    BY <2>1, <2>2
<1>4. CASE SendErase
  <2>1. PICK addr \in SectorBases :
          Send(Command("ERASE", addr), SectorAddrs(addr \div SECTOR),
               [a \in SectorAddrs(addr \div SECTOR) |-> Erased], host.base)
    BY <1>4 DEF SendErase
  <2>2. Sector(addr) = SectorAddrs(addr \div SECTOR)
    BY SectorOfBase
  <2>3. Honest(Command("ERASE", addr), SectorAddrs(addr \div SECTOR),
               [a \in SectorAddrs(addr \div SECTOR) |-> Erased], host.base)
    BY <2>2 DEF Honest, Command, Request
  <2> QED
    BY <2>1, <2>3
<1>5. CASE SendData
  <2>1. PICK block \in Blocks, length \in Lengths, data \in Payload :
          LET req   == Request("DATA", 0, block, length, data)
              bytes == BlockBytes(host.base, req)
              fresh == {a \in bytes : \A b \in WordOf(a) : host.view[b] = Erased}
          IN /\ bytes \subseteq Addr
             /\ Send(req, UNION {WordOf(a) : a \in bytes},
                     [a \in fresh |-> <<data, a - HostAddr(host.base, block)>>], host.base)
    BY <1>5 DEF SendData
  <2>2. host.base = dfuse_ctx.base_addr
    BY <1>5 DEF SendData, BaseKnown
  <2> DEFINE req == Request("DATA", 0, block, length, data)
             bytes == BlockBytes(host.base, req)
             fresh == {a \in bytes : \A b \in WordOf(a) : host.view[b] = Erased}
             claim == [a \in fresh |-> <<data, a - HostAddr(host.base, block)>>]
  <2>3. req.kind = "DATA" /\ req.block = block /\ req.buffer = data
    BY DEF Request
  <2>4. Words(bytes) = UNION {WordOf(a) : a \in bytes}
    BY DEF Words
  <2>5. HostAddr(host.base, block) = BlockAddr(dfuse_ctx.base_addr, req.block)
    BY <2>2, <2>3 DEF HostAddr, BlockAddr
  <2>6. Honest(req, Words(bytes), claim, host.base)
    <3> HIDE DEF req
    <3> QED
      BY <2>2, <2>3, <2>5 DEF Honest
  <2> QED
    BY <2>1, <2>4, <2>6
<1> QED
  BY <1>1, <1>2, <1>3, <1>4, <1>5

\* A GETSTATUS leaves the device attached.
LEMMA GetStatusStaysOn ==
  ASSUME DeviceTypeOK, GetStatus
  PROVE  class'.state # "OFF"
<1> USE DEF DeviceTypeOK, IsClass
<1>1. ASSUME NEW status, NEW state \in DfuState, reply(status, state)
      PROVE  class'.state # "OFF"
  BY <1>1 DEF reply, DfuState
<1>2. CASE GetCommands \/ SetAddress \/ PollSetAddress \/ MassErase \/ Erase \/ WriteMemory
           \/ PollFlash
  BY <1>1, <1>2 DEF GetCommands, SetAddress, PollSetAddress, MassErase, Erase, WriteMemory,
                    PollFlash, DfuState
<1>3. CASE Unhandled
  BY <1>3 DEF Unhandled, DefaultNext, GetStatus, DfuState
<1> QED
  BY <1>2, <1>3 DEF GetStatus, tud_dfu_get_status_cb

\* A GETSTATUS that tells the host nothing hands the claim on.
LEMMA GetStatusCarries ==
  ASSUME InOrder, BaseKnown, Promised, GetStatus, host' = host
  PROVE  BaseKnown' /\ Promised'
<1>1. /\ bank' = bank /\ class'.req = class.req /\ class'.state # "OFF"
      /\ TakesErase \/ TakesWrite \/ TakesNothing
  BY GetStatusTakes, GetStatusStaysOn DEF InOrder
<1>2. BaseKnown'
  BY <1>1 DEF BaseKnown, TakesErase, TakesWrite, TakesNothing
<1>3. ASSUME host.waiting, NEW a \in DOMAIN host.claim
      PROVE  /\ class'.state = "DNLOAD_SYNC" => Asked(a)'
             /\ class'.state \in {"DNBUSY", "DNLOAD_IDLE"} => Carried(a)'
             /\ class'.state = "DNLOAD_IDLE" => ~flash_is_busy'
  <2>0. /\ class.req.kind \in {"ERASE", "DATA"}
        /\ class.state = "DNLOAD_SYNC" => Asked(a)
        /\ class.state \in {"DNBUSY", "DNLOAD_IDLE"} => Carried(a)
        /\ class.state = "DNLOAD_IDLE" => ~flash_is_busy
    BY <1>3 DEF Promised
  <2>1. CASE TakesErase
    <3>1. a \in Sector(class.req.addr) /\ host.claim[a] = Erased
      BY <2>0, <2>1 DEF TakesErase, Asked
    <3>2. flash_ctx'.state = "ERASE_PENDING" /\ flash_ctx'.addr = class.req.addr
      BY <2>1 DEF TakesErase, InOrder, DeviceTypeOK, FlashCtxType
    <3>3. Carried(a)'
      BY <3>1, <3>2 DEF Carried, WritesNow, Sector, SectorAddrs, addr_to_sector, Addr
    <3> QED
      BY <2>1, <3>3 DEF TakesErase
  <2>2. CASE TakesWrite
    <3> DEFINE addr == BlockAddr(dfuse_ctx.base_addr, class.req.block)
    <3>1. /\ a \in BlockBytes(dfuse_ctx.base_addr, class.req)
          /\ host.claim[a] = <<class.req.buffer, a - addr>>
          /\ Blank(a) /\ WordOf(a) \cap AtWork = {}
      BY <2>0, <2>2 DEF TakesWrite, Asked
    <3>2. BlockBytes(dfuse_ctx.base_addr, class.req) = addr .. addr + class.req.length - 1
      BY DEF BlockBytes, HostAddr, BlockAddr
    <3>3. addr \in Nat
      <4>1. class.req.block \in Nat /\ class.req.block >= 2
        BY <2>2 DEF TakesWrite, InOrder, DeviceTypeOK, IsClass, IsRequest
      <4> QED
        BY <4>1, BlocksAligned, MultiplesAdd DEF InOrder, Orderly
    <3> HIDE DEF addr
    <3>4. /\ flash_ctx'.state = "WRITE_PENDING" /\ flash_ctx'.addr = addr
          /\ flash_ctx'.buffer = class.req.buffer /\ flash_ctx'.length = class.req.length
          /\ flash_ctx'.offset = 0
      BY <2>2 DEF TakesWrite, addr
    <3>5. JobBytes' = addr .. addr + class.req.length - 1
      BY <3>4 DEF JobBytes
    <3>6. a \in Int /\ a >= addr + 0
      BY <3>1, <3>2, <3>3
    <3>7. Blank(a)' /\ WordOf(a) \cap DOMAIN bank'.running = {}
      BY <1>1, <3>1 DEF Blank, AtWork, WordOf, Addr
    <3>8. Carried(a)'
      BY <3>1, <3>2, <3>4, <3>5, <3>6, <3>7 DEF Carried, WritesNow, WordOf, Addr
    <3> QED
      BY <2>2, <3>8 DEF TakesWrite
  <2>3. CASE TakesNothing
    <3>1. class'.state # "DNLOAD_SYNC"
      BY <2>0, <2>3 DEF TakesNothing
    <3>2. class'.state \in {"DNBUSY", "DNLOAD_IDLE"} => Carried(a)
      BY <2>0, <2>3 DEF TakesNothing
    <3>3. flash_ctx' = flash_ctx
      BY <2>3 DEF TakesNothing
    <3>4. class'.state = "DNLOAD_IDLE" => ~flash_is_busy
      BY <2>0, <2>3 DEF TakesNothing
    <3> QED
      BY <1>1, <3>1, <3>2, <3>3, <3>4, CarriedStays DEF flash_is_busy
  <2> QED
    BY <1>1, <2>1, <2>2, <2>3
<1>4. Promised'
  BY <1>1, <1>3 DEF Promised
<1> QED
  BY <1>2, <1>4

\* The answer that acknowledges a request finds its claim met.
LEMMA AcknowledgedIsMet ==
  ASSUME InOrder, HostTypeOK, Cautious, BaseKnown, Promised, ReadBack,
         Poll, host.waiting, Acknowledged
  PROVE  Cautious' /\ BaseKnown' /\ Promised' /\ ReadBack'
<1>1. /\ bank' = bank /\ class'.req = class.req /\ class'.state = "DNLOAD_IDLE" /\ TakesNothing
  BY GetStatusTakes DEF InOrder, Poll, Acknowledged, TakesErase, TakesWrite
<1>2. Restrained
  BY GetStatusRestrained DEF InOrder, Poll
<1> DEFINE view == Over(host.claim, host.view)
<1>3. /\ host'.view = view /\ host'.waiting = FALSE
      /\ host'.base = IF class.req.kind = "SET_ADDRESS" THEN class.req.addr ELSE host.base
  BY DEF Poll
<1>4. \A a \in Addr : view[a] = IF a \in DOMAIN host.claim THEN host.claim[a] ELSE host.view[a]
  BY DEF Over, HostTypeOK
<1> HIDE DEF view
<1>5. ASSUME NEW a \in DOMAIN host.claim
      PROVE  AtWork' \cup Pending' = {} /\ host.claim[a] = bank.cells[a]
  <2>1. class.req.kind \in {"ERASE", "DATA"}
    BY <1>5 DEF Promised
  <2>2. class.state \in {"DNBUSY", "DNLOAD_IDLE"} /\ flash_ctx.state = "IDLE"
    BY <1>1, <1>5, <2>1 DEF TakesNothing, Promised, flash_is_busy
  <2>3. Carried(a) /\ DOMAIN bank.running = {}
    BY <1>5, <2>2 DEF Promised, InOrder, Settled, QW
  <2>4. Landed(a)
    BY <2>2, <2>3 DEF Carried, WritesNow
  <2>5. flash_ctx' = flash_ctx
    BY <1>1 DEF TakesNothing
  <2>6. AtWork' = {} /\ Pending' = {}
    BY <1>1, <2>2, <2>3, <2>5 DEF AtWork, ErasesNow, WritesNow, Pending
  <2> QED
    BY <2>3, <2>4, <2>6 DEF Landed
<1>6. AtWork' \cup Pending' \subseteq Addr
  BY <1>1, <1>2 DEF InOrder, DeviceTypeOK, IsBank, IsImage, Restrained, AtWork, Pending, Sector,
                    SectorAddrs, Words, WordOf
<1>7. Cautious'
  BY <1>2, <1>3, <1>4, <1>5, <1>6 DEF Restrained, Cautious
<1>8. ReadBack'
  BY <1>1, <1>3, <1>4, <1>5 DEF ReadBack, Addr
<1>9. BaseKnown'
  BY <1>1, <1>3 DEF BaseKnown, TakesNothing
<1>10. Promised'
  BY <1>3 DEF Promised
<1> QED
  BY <1>7, <1>8, <1>9, <1>10

\* The firmware and the hardware work towards what is promised.
LEMMA WorkCarries ==
  ASSUME Faults = FALSE, InOrder, HostTypeOK, BaseKnown, Promised,
         MainLoop \/ Hardware, host' = host
  PROVE  BaseKnown' /\ Promised'
<1>1. UNCHANGED <<dfuse_ctx, class>>
  BY DEF MainLoop, Hardware
<1>2. BaseKnown'
  BY <1>1 DEF BaseKnown
<1>3. /\ MainLoop => flash_process /\ ~bank.LOCK
      /\ Hardware => HwDone /\ flash_ctx' = flash_ctx
  <2>1. MainLoop => flash_ctx.state # "IDLE"
    BY DEF MainLoop, flash_process, StartErase, FinishErase, WriteChunk, ForceWrite,
           FinishWrite, Writing
  <2> QED
    BY <2>1 DEF InOrder, IdleWhenOff, Orderly, MainLoop, Hardware
<1>4. /\ AtWork' \subseteq AtWork
      /\ \A a \in Addr : a \notin AtWork => bank'.cells[a] = bank.cells[a]
  <2>1. CASE MainLoop
    BY <1>3, <2>1, FlashProcessRestrained DEF InOrder, DeviceTypeOK
  <2>2. CASE Hardware
    <3>0. IsBank(bank) /\ HwDone
      BY <1>3, <2>2 DEF InOrder, DeviceTypeOK
    <3>1. DOMAIN bank'.running = {} /\ bank'.cells = Over(bank.running, bank.cells)
      BY <3>0 DEF HwDone, IsBank, Empty
    <3>2. \A a \in Addr : a \notin DOMAIN bank.running => bank'.cells[a] = bank.cells[a]
      BY <3>0, <3>1 DEF Over, IsBank
    <3> QED
      BY <1>3, <2>2, <3>1, <3>2 DEF AtWork, ErasesNow, WritesNow, JobBytes, Sector, SectorAddrs,
                              addr_to_sector, Words, WordOf, Addr
  <2> QED
    BY <2>1, <2>2
<1>5. ASSUME NEW a, Asked(a) PROVE Asked(a)'
  <2>1. Blank(a) /\ WordOf(a) \cap AtWork = {} => Blank(a)' /\ WordOf(a) \cap AtWork' = {}
    BY <1>4 DEF Blank, WordOf, Addr
  <2> QED
    BY <1>1, <1>5, <2>1 DEF Asked, Sector, SectorAddrs, addr_to_sector, Addr, WordOf, BlockBytes,
                            HostAddr, BlockAddr
<1>6. ASSUME NEW a \in Addr, Carried(a) PROVE Carried(a)'
  BY <1>3, <1>6, FlashProcessCarries, HwDoneCarries DEF InOrder, DeviceTypeOK
<1>7. class.state = "DNLOAD_IDLE" /\ ~flash_is_busy => ~flash_is_busy'
  BY <1>3 DEF flash_is_busy, flash_process, StartErase, FinishErase, WriteChunk, ForceWrite,
              FinishWrite, Writing
<1>8. Promised'
  <2>1. \A a \in DOMAIN host.claim : a \in Addr
    BY DEF HostTypeOK, IsImage
  <2> QED
    BY <1>1, <1>5, <1>6, <1>7, <2>1 DEF Promised
<1> QED
  BY <1>2, <1>8

\* A host that gives up expects nothing any more.
LEMMA GivenUp ==
  ASSUME "classReset" \notin Events, InOrder, BaseKnown,
         \/ Quit /\ GiveUp(host.base)
         \/ Enumerate /\ GiveUp(0)
         \/ (Unplug \/ PowerCut) /\ GiveUp(Unknown)
  PROVE  BaseKnown' /\ Promised' /\ host'.view = host.view
<1>1. host'.view = host.view /\ host'.waiting = FALSE
  BY DEF GiveUp
<1>2. class'.state # "DNLOAD_SYNC"
  <2>1. CASE DnloadEnd \/ Upload
    BY <2>1 DEF DnloadEnd, Upload, InOrder, DeviceTypeOK, IsClass
  <2>2. CASE Abort \/ ClrStatus \/ Unplug \/ Enumerate
    BY <2>2 DEF Abort, ClrStatus, Unplug, Enumerate, Mount, ResetClass
  <2>3. CASE PowerCut
    BY <2>3 DEF PowerCut, ClassAt
  <2> QED
    BY <2>1, <2>2, <2>3 DEF Quit, Reselect
<1>3. host'.base # Unknown => host'.base = dfuse_ctx'.base_addr
  <2>1. CASE Quit /\ GiveUp(host.base)
    <3>1. dfuse_ctx'.base_addr = dfuse_ctx.base_addr
      BY <2>1 DEF Quit, Reselect, DnloadEnd, Upload, Abort, ClrStatus, tud_dfu_upload_cb,
                  tud_dfu_abort_cb, InOrder, DeviceTypeOK, IsDfuseCtx
    <3> QED
      BY <2>1, <3>1 DEF GiveUp, BaseKnown
  <2>2. CASE Enumerate /\ GiveUp(0)
    BY <2>2 DEF Enumerate, Mount, tud_mount_cb, ZeroDfuseCtx, GiveUp
  <2>3. CASE GiveUp(Unknown)
    BY <2>3 DEF GiveUp
  <2> QED
    BY <2>1, <2>2, <2>3
<1> QED
  BY <1>1, <1>2, <1>3 DEF BaseKnown, Promised

\* Every step of the system keeps what the host relies on.
LEMMA StepKeepsReliance ==
  ASSUME "earlyMount" \notin Events, "classReset" \notin Events, Faults = FALSE,
         Unknown # Erased, InOrder, HostTypeOK,
         Cautious, BaseKnown, Promised, ReadBack, [Next]_vars
  PROVE  Cautious' /\ BaseKnown' /\ Promised' /\ ReadBack'
<1>1. CASE \/ SendGetCommands \/ SendSetAddress \/ SendErase \/ SendUnsupported \/ SendData
  BY <1>1, SendsAreHonest, HonestRequest
<1>2. CASE Poll /\ host.waiting /\ Acknowledged
  BY <1>2, AcknowledgedIsMet
<1>3. CASE GetStatus /\ host' = host
  BY <1>3, GetStatusCarries, GetStatusRestrained, RestraintKeepsView DEF InOrder
<1>4. CASE \/ Quit /\ GiveUp(host.base)
           \/ Enumerate /\ GiveUp(0)
           \/ (Unplug \/ PowerCut) /\ GiveUp(Unknown)
  <2>1. Restrained
    BY <1>4, StepRestrained DEF Quit, Reselect, InOrder
  <2> QED
    BY <1>4, <2>1, GivenUp, RestraintKeepsView
<1>5. CASE (Start \/ MainLoop \/ Hardware) /\ UNCHANGED host
  <2>1. Restrained
    BY <1>5, StepRestrained DEF InOrder
  <2>2. CASE Start
    <3>1. /\ ~host.waiting /\ class'.req = NoRequest /\ UNCHANGED dfuse_ctx
      BY <2>2 DEF Start, Promised, ClassAt
    <3> QED
      BY <1>5, <2>1, <3>1, RestraintKeepsView DEF BaseKnown, Promised, NoRequest, Command, Request
  <2> QED
    BY <1>5, <2>1, <2>2, RestraintKeepsView, WorkCarries
<1>6. CASE UNCHANGED vars
  <2>1. UNCHANGED device /\ UNCHANGED <<bank, flash_ctx, dfuse_ctx, class, host>>
    BY <1>6 DEF vars, device
  <2>2. Restrained
    BY <2>1, StepRestrained DEF InOrder
  <2>3. AtWork' = AtWork
    BY <2>1 DEF AtWork, ErasesNow, WritesNow, JobBytes, Sector, SectorAddrs, addr_to_sector,
                Words, WordOf, Addr
  <2>4. ASSUME NEW a, Asked(a) PROVE Asked(a)'
    BY <2>1, <2>3, <2>4 DEF Asked, Blank, Sector, SectorAddrs, addr_to_sector, Addr, WordOf,
                            BlockBytes, HostAddr, BlockAddr
  <2>5. Promised'
    BY <2>1, <2>4, CarriedStays DEF Promised, flash_is_busy
  <2> QED
    BY <2>1, <2>2, <2>5, RestraintKeepsView DEF BaseKnown
<1> QED
  BY <1>1, <1>2, <1>3, <1>4, <1>5, <1>6 DEF Next, HostNext, Poll, PollLost

\* On hardware that refuses no command, with a host that neither enumerates the
\* device in mid-operation nor resets the class driver behind the callbacks'
\* back: what the device acknowledged is in the flash and stays there, whatever
\* the blocks, lengths and sectors, through aborts, unplugging, lost answers
\* and power cuts.
THEOREM AcknowledgedIsInFlash ==
  ASSUME "earlyMount" \notin Events, "classReset" \notin Events, Faults = FALSE,
         Unknown # Erased
  PROVE  Spec => []ReadBack
<1> DEFINE Reliance == Cautious /\ BaseKnown /\ Promised /\ ReadBack
           Order == Settled /\ IdleWhenOff /\ Orderly /\ WordByWord
<1>1. Init => Order /\ Reliance
  <2> SUFFICES ASSUME Init PROVE Order /\ Reliance
    OBVIOUS
  <2> USE DEF Init, DeviceInit
  <2>1. Settled /\ IdleWhenOff
    BY DEF ResetBank, Empty, QW, WBNE, Settled, IdleWhenOff, ZeroFlashCtx
  <2>2. Orderly /\ WordByWord
    BY ZeroIsBase DEF Orderly, WordByWord, WritesNow, ClassAt, ZeroDfuseCtx, ZeroFlashCtx
  <2>3. AtWork = {} /\ Pending = {}
    BY DEF AtWork, Pending, ResetBank, Empty, ErasesNow, WritesNow, ZeroFlashCtx, ClassAt
  <2>4. BaseKnown /\ Promised /\ ReadBack
    BY DEF BaseKnown, Promised, ReadBack, ClassAt, NoRequest, Command, Request
  <2> QED
    BY <2>1, <2>2, <2>3, <2>4 DEF Cautious
<1>2. DeviceTypeOK /\ Coupled /\ Order /\ [Next]_vars => Order'
  BY SystemStepIsDeviceStep, StepKeepsSettled, StepKeepsIdleWhenOff, StepKeepsOrderly,
     StepKeepsWordByWord
<1>3. DeviceTypeOK /\ Coupled /\ Order /\ HostTypeOK /\ Reliance /\ [Next]_vars => Reliance'
  <2> SUFFICES ASSUME DeviceTypeOK, Coupled, Order, HostTypeOK, Reliance, [Next]_vars
               PROVE  Reliance'
    OBVIOUS
  <2>1. InOrder
    BY DEF InOrder
  <2> QED
    BY <2>1, StepKeepsReliance
<1>4. TypeOK => DeviceTypeOK /\ HostTypeOK
  BY DEF TypeOK, HostTypeOK
<1>5. Spec => []Coupled
  BY SystemIsADevice, CoupledAlways, PTL
<1>6. Reliance => ReadBack
  OBVIOUS
<1> HIDE DEF Order, Reliance
<1> QED
  BY <1>1, <1>2, <1>3, <1>4, <1>5, <1>6, SystemTypeCorrect, PTL DEF Spec
==============================================================================
