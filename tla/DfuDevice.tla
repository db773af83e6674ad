------------------------------ MODULE DfuDevice ------------------------------
(***************************************************************************)
(* The bootloader in DFU mode: DfuSe, the flash driver and the bank, with  *)
(* whatever the USB side and the power supply may do.  main() calls        *)
(* tud_task and flash_process in turn; a turn of the loop lets any number  *)
(* of USB events, or none, come between two steps of flash_process, and    *)
(* the hardware works on its own.                                          *)
(***************************************************************************)
EXTENDS DfuSe

CONSTANTS
  Lengths,  \* the lengths of the data blocks that are sent
  Events    \* the disturbances that may happen

ASSUME LengthsAssumption == Lengths \subseteq 1 .. XFER

ASSUME EventsAssumption ==
  Events \subseteq {"lostReply",   \* a GETSTATUS answer does not reach the host
                    "powerCut",    \* power fails at any moment
                    "earlyMount",  \* the host enumerates again during an operation
                    "classReset"}  \* CLRSTATUS or SET_INTERFACE outside dfuERROR

device == <<bank, flash_ctx, dfuse_ctx, class>>

\* The flash holds some image, of which no byte reads as erased.
DeviceInit ==
  /\ bank = ResetBank([a \in Addr |-> Junk])
  /\ flash_ctx = ZeroFlashCtx
  /\ dfuse_ctx = ZeroDfuseCtx
  /\ class = ClassAt("OFF")

----------------------------------------------------------------------------
(* The device on its own.                                                  *)

\* main() from reset up to usb_init.
Start ==
  /\ class.state = "OFF"
  /\ flash_init
  /\ class' = ClassAt("UNMOUNTED")
  /\ UNCHANGED dfuse_ctx

MainLoop == flash_process /\ UNCHANGED <<dfuse_ctx, class>>

Hardware == HwDone /\ UNCHANGED <<flash_ctx, dfuse_ctx, class>>

PowerCut ==
  /\ "powerCut" \in Events
  /\ CutOff
  /\ flash_ctx' = ZeroFlashCtx
  /\ dfuse_ctx' = ZeroDfuseCtx
  /\ class' = ClassAt("OFF")

----------------------------------------------------------------------------
(* What the USB side may do.  The operands are sectors of the bank, and    *)
(* the data blocks lie inside it: the string descriptor of the interface   *)
(* tells the host "@Internal Flash/0x08100000/8*128Kg".                    *)

\* Where DfuSe puts data block number block, counted from 2.
HostAddr(base, block) == base + (block - 2) * XFER

BlockBytes(base, req) ==
  HostAddr(base, req.block) .. HostAddr(base, req.block) + req.length - 1

SectorBases == {s * SECTOR : s \in 0 .. NSECT - 1}
Blocks == 2 .. 1 + (NSECT * SECTOR) \div XFER

Requests ==
  {Command(kind, 0) : kind \in {"GET_COMMANDS", "MASS_ERASE", "OTHER"}}
    \cup {Command(kind, addr) : kind \in {"SET_ADDRESS", "ERASE"}, addr \in SectorBases}
    \cup {Request("DATA", 0, block, length, data) :
            block \in Blocks, length \in Lengths, data \in Payload}

Download(req) ==
  /\ req.kind = "DATA" => BlockBytes(dfuse_ctx.base_addr, req) \subseteq Addr
  /\ Dnload(req)

\* The bus resets and the host enumerates the device.
Enumerate == ("earlyMount" \in Events \/ ~flash_is_busy) /\ Mount

Reselect == "classReset" \in Events /\ ClassReset

UsbNext ==
  \/ \E req \in Requests : Download(req)
  \/ GetStatus
  \/ DnloadEnd \/ Upload \/ Abort \/ ClrStatus
  \/ Enumerate \/ Reselect \/ Unplug

DeviceNext == UsbNext \/ Start \/ MainLoop \/ Hardware \/ PowerCut

DeviceSpec == DeviceInit /\ [][DeviceNext]_device

----------------------------------------------------------------------------
(* Properties.                                                             *)

DeviceTypeOK ==
  /\ IsBank(bank)
  /\ flash_ctx \in FlashCtxType
  /\ IsDfuseCtx(dfuse_ctx)
  /\ IsClass(class)

\* The protocol layer waits for the operation the driver is carrying out, at
\* the address the driver has, whatever happens around them: dfuse_ctx.op and
\* flash_ctx never get to stand for two different operations.
OpMatchesDriver ==
  /\ dfuse_ctx.op = "ERASE_BUSY" =>
       /\ flash_ctx.state \in {"IDLE", "ERASE_PENDING", "ERASE_BUSY"}
       /\ dfuse_ctx.current_addr = flash_ctx.addr
  /\ dfuse_ctx.op = "WRITE_BUSY" =>
       /\ flash_ctx.state \in {"IDLE", "WRITE_PENDING", "WRITE_BUSY"}
       /\ dfuse_ctx.current_addr = flash_ctx.addr

\* The contract of dfu_flash.h as its caller keeps it: all the device does to the
\* driver and the bank is what FlashDriver allows a caller.  Requests lie in the
\* bank and begin on a flash word, and flash_init comes before the first of them
\* and never into the middle of one.
Driver == INSTANCE FlashDriver
UsesDriverAsAgreed == Driver!Safety

\* No command is given to the hardware while another is queued, even if the
\* driver was initialised again in the middle of one: what is in flight ends
\* as it was started, unless power fails.
LaunchOnlyWhenReady ==
  [][QW(bank) /\ bank'.running # bank.running => Hardware \/ PowerCut]_device

\* dfuse_ctx.op is the second half of the class driver's state: a poll that
\* finds the two apart falls through every branch of tud_dfu_get_status_cb.
PollFindsItsOp ==
  /\ class.state = "DNBUSY" /\ class.req.kind = "ERASE" => dfuse_ctx.op = "ERASE_BUSY"
  /\ class.state = "DNBUSY" /\ class.req.kind = "DATA" => dfuse_ctx.op = "WRITE_BUSY"
  /\ class.state = "DNBUSY" /\ class.req.kind = "SET_ADDRESS" => dfuse_ctx.op = "SET_ADDR_BUSY"
  /\ class.state = "DNLOAD_SYNC" => dfuse_ctx.op = "IDLE"

\* The driver rests with the hardware quiet: nothing in flight, nothing left
\* in the write buffer, and neither PG nor SER set for the next command (only
\* the last step of an operation clears them).
QuietWhenIdle ==
  flash_ctx.state = "IDLE" => ~QW(bank) /\ ~WBNE(bank) /\ ~bank.PG /\ ~bank.SER

\* Every step of flash_process and of the hardware brings the job nearer to its
\* end, and nothing sets it back: not a poll, an abort, an enumeration or a
\* command that is refused.
JobWindsDown ==
  [][flash_is_busy =>
       Left' \in 0 .. (IF MainLoop \/ Hardware THEN Left - 1 ELSE Left)]_device

\* A request the device knows is not left in dfuDNLOAD-SYNC or dfuDNBUSY.
InProgress ==
  /\ class.state \in {"DNLOAD_SYNC", "DNBUSY"}
  /\ class.req.kind \in {"GET_COMMANDS", "SET_ADDRESS", "ERASE", "MASS_ERASE", "DATA"}

\* No poll is wasted: the first carries the request on or refuses it, and a later
\* one ends it unless the driver is still at work.
PollsAdvance ==
  [][GetStatus /\ InProgress =>
       \/ class.state = "DNLOAD_SYNC" /\ class'.state \in {"DNBUSY", "DNLOAD_IDLE", "ERROR"}
       \/ class.state = "DNBUSY" /\ (class'.state = "DNLOAD_IDLE" \/ flash_is_busy)]_device

\* "Erase complete" (dfu_tinyusb.c:174): the poll that answers so finds the
\* whole sector erased.
EraseReported ==
  GetStatus /\ class.state = "DNBUSY" /\ class.req.kind = "ERASE"
    /\ class'.state = "DNLOAD_IDLE"
EraseCompleteMeansErased ==
  [][EraseReported => \A a \in SectorAddrs(class.req.addr \div SECTOR) :
                        bank.cells[a] = Erased]_device

\* "Write starts at first GETSTATUS after DNLOAD" (dfu_tinyusb.c:192): that
\* GETSTATUS starts the write or reports an error.
FirstPoll == class.state = "DNLOAD_SYNC" /\ class.req.kind = "DATA" /\ GetStatus
WriteStartsAtFirstPoll ==
  [][FirstPoll => flash_ctx'.state = "WRITE_PENDING" \/ class'.state = "ERROR"]_device
==============================================================================
