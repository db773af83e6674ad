-------------------------------- MODULE DfuSe --------------------------------
(***************************************************************************)
(* The DfuSe protocol layer: the callbacks of src/src/dfu_tinyusb.c on the *)
(* flash driver, and the TinyUSB class driver that calls them.             *)
(*                                                                         *)
(* All callbacks run inside tud_task, in the main loop: one callback is    *)
(* one atomic step, between two calls of flash_process.                    *)
(*                                                                         *)
(* The class driver (a patched TinyUSB, a submodule) is external: `class'  *)
(* is the DFU state it keeps, the request it buffered and what the last    *)
(* GETSTATUS answered.                                                     *)
(***************************************************************************)
EXTENDS DfuFlash

CONSTANT XFER   \* CFG_TUD_DFU_XFER_BUFSIZE

ASSUME XferAssumption == XFER \in Nat \ {0} /\ XFER % WORD = 0

VARIABLES
  dfuse_ctx,  \* [base_addr, have_addr, op, current_addr, last_was_get_cmds]
  class       \* [state, status, req]

DfuseOp == {"IDLE", "ERASE_BUSY", "WRITE_BUSY", "SET_ADDR_BUSY"}

\* "OFF": main() has not reached usb_init; "UNMOUNTED": not configured yet.
Detached == {"OFF", "UNMOUNTED"}

DfuState ==
  {"DFU_IDLE", "DNLOAD_SYNC", "DNBUSY", "DNLOAD_IDLE",
   "MANIFEST_SYNC", "MANIFEST", "UPLOAD_IDLE", "ERROR"}

Status == {"OK", "ERR_TARGET", "ERR_ADDRESS"}

\* What a buffered DNLOAD is to tud_dfu_get_status_cb.  "OTHER" is a request
\* none of its branches knows, "NONE" the zero length one and no request.
ReqKind == {"NONE", "GET_COMMANDS", "SET_ADDRESS", "ERASE", "MASS_ERASE", "DATA", "OTHER"}

IsRequest(req) ==
  /\ req = [kind |-> req.kind, addr |-> req.addr, block |-> req.block,
            length |-> req.length, buffer |-> req.buffer]
  /\ req.kind \in ReqKind
  /\ req.addr \in Nat            \* operand of SET_ADDRESS and ERASE
  /\ req.block \in Nat /\ req.length \in Nat
  /\ req.buffer \in Payload
  /\ req.kind = "DATA" => req.block >= 2 /\ req.length > 0

Request(kind, addr, block, length, buffer) ==
  [kind |-> kind, addr |-> addr, block |-> block, length |-> length, buffer |-> buffer]

\* Block 0 commands; their buffer holds no firmware.
Command(kind, addr) == Request(kind, addr, 0, 0, ZeroFlashCtx.buffer)

NoRequest == Command("NONE", 0)

IsDfuseCtx(c) ==
  /\ c = [base_addr |-> c.base_addr, have_addr |-> c.have_addr, op |-> c.op,
          current_addr |-> c.current_addr, last_was_get_cmds |-> c.last_was_get_cmds]
  /\ c.base_addr \in Nat
  /\ c.have_addr \in BOOLEAN
  /\ c.op \in DfuseOp
  /\ c.current_addr \in Nat
  /\ c.last_was_get_cmds \in BOOLEAN

IsClass(c) ==
  /\ c = [state |-> c.state, status |-> c.status, req |-> c.req]
  /\ c.state \in DfuState \cup Detached
  /\ c.status \in Status
  /\ IsRequest(c.req)

ZeroDfuseCtx ==
  [base_addr |-> 0, have_addr |-> FALSE, op |-> "IDLE",
   current_addr |-> 0, last_was_get_cmds |-> FALSE]

ClassAt(state) == [state |-> state, status |-> "OK", req |-> NoRequest]

----------------------------------------------------------------------------
(* tud_dfu_get_status_cb: `reply' is what the response struct gets.        *)

reply(status, state) == class' = [class EXCEPT !.status = status, !.state = state]

\* A mutant: data blocks counted from 3.
BlockAddrOffByOne(base, block) == base + (block - 3) * XFER

BlockAddr(base, block) == base + (block - 2) * XFER

\* GetCommands is answered whatever the DFU state.
GetCommands ==
  /\ class.req.kind = "GET_COMMANDS"
  /\ dfuse_ctx' = [dfuse_ctx EXCEPT !.last_was_get_cmds = TRUE]
  /\ reply("OK", "DNLOAD_IDLE")
  /\ UNCHANGED flash_ctx

SetAddress ==
  /\ class.req.kind = "SET_ADDRESS"
  /\ class.state = "DNLOAD_SYNC"
  /\ dfuse_ctx' = [dfuse_ctx EXCEPT !.base_addr = class.req.addr, !.have_addr = TRUE,
                                    !.op = "SET_ADDR_BUSY"]
  /\ reply("OK", "DNBUSY")
  /\ UNCHANGED flash_ctx

PollSetAddress ==
  /\ class.req.kind = "SET_ADDRESS"
  /\ class.state = "DNBUSY"
  /\ dfuse_ctx.op = "SET_ADDR_BUSY"
  /\ dfuse_ctx' = [dfuse_ctx EXCEPT !.op = "IDLE"]
  /\ reply("OK", "DNLOAD_IDLE")
  /\ UNCHANGED flash_ctx

MassErase ==
  /\ class.req.kind = "MASS_ERASE"
  /\ class.state = "DNLOAD_SYNC"
  /\ reply("ERR_TARGET", "ERROR")
  /\ UNCHANGED <<dfuse_ctx, flash_ctx>>

\* A mutant: the protocol layer is busy before the driver has agreed.
EraseEagerly ==
  /\ class.req.kind = "ERASE"
  /\ class.state = "DNLOAD_SYNC"
  /\ dfuse_ctx' = [dfuse_ctx EXCEPT !.op = "ERASE_BUSY", !.current_addr = class.req.addr]
  /\ \E ok \in BOOLEAN :
       /\ flash_erase_sector_async(class.req.addr, ok)
       /\ IF ok THEN reply("OK", "DNBUSY") ELSE reply("ERR_ADDRESS", "ERROR")

\* Note that the erase does not look at dfuse_ctx.op, only at the driver.
Erase ==
  /\ class.req.kind = "ERASE"
  /\ class.state = "DNLOAD_SYNC"
  /\ \E ok \in BOOLEAN :
       /\ flash_erase_sector_async(class.req.addr, ok)
       /\ IF ok
          THEN /\ dfuse_ctx' = [dfuse_ctx EXCEPT !.op = "ERASE_BUSY",
                                                 !.current_addr = class.req.addr]
               /\ reply("OK", "DNBUSY")
          ELSE /\ reply("ERR_ADDRESS", "ERROR")
               /\ UNCHANGED dfuse_ctx

\* A mutant: the end of the operation is answered, but not recorded.
PollFlashForgets ==
  /\ class.state = "DNBUSY"
  /\ \/ class.req.kind \in {"ERASE", "MASS_ERASE"} /\ dfuse_ctx.op = "ERASE_BUSY"
     \/ class.req.kind = "DATA" /\ dfuse_ctx.have_addr /\ dfuse_ctx.op = "WRITE_BUSY"
  /\ reply("OK", IF flash_is_busy THEN "DNBUSY" ELSE "DNLOAD_IDLE")
  /\ UNCHANGED <<dfuse_ctx, flash_ctx>>

\* Both polls: complete as soon as the driver is not busy.
PollFlash ==
  /\ class.state = "DNBUSY"
  /\ \/ class.req.kind \in {"ERASE", "MASS_ERASE"} /\ dfuse_ctx.op = "ERASE_BUSY"
     \/ class.req.kind = "DATA" /\ dfuse_ctx.have_addr /\ dfuse_ctx.op = "WRITE_BUSY"
  /\ IF flash_is_busy
     THEN reply("OK", "DNBUSY") /\ UNCHANGED dfuse_ctx
     ELSE /\ dfuse_ctx' = [dfuse_ctx EXCEPT !.op = "IDLE"]
          /\ reply("OK", "DNLOAD_IDLE")
  /\ UNCHANGED flash_ctx

WriteMemory ==
  /\ class.req.kind = "DATA"
  /\ class.state = "DNLOAD_SYNC"
  /\ dfuse_ctx.have_addr
  /\ dfuse_ctx.op = "IDLE"
  /\ LET addr == BlockAddr(dfuse_ctx.base_addr, class.req.block)
     IN \E ok \in BOOLEAN :
          /\ flash_write_async(addr, class.req.buffer, class.req.length, ok)
          /\ IF ok
             THEN /\ dfuse_ctx' = [dfuse_ctx EXCEPT !.op = "WRITE_BUSY",
                                                    !.current_addr = addr]
                  /\ reply("OK", "DNBUSY")
             ELSE /\ reply("ERR_ADDRESS", "ERROR")
                  /\ UNCHANGED dfuse_ctx

\* Some branch above returns true.
Handled ==
  LET kind == class.req.kind
      sync == class.state = "DNLOAD_SYNC"
      poll == class.state = "DNBUSY"
  IN \/ kind = "GET_COMMANDS"
     \/ kind = "SET_ADDRESS" /\ (sync \/ (poll /\ dfuse_ctx.op = "SET_ADDR_BUSY"))
     \/ kind \in {"ERASE", "MASS_ERASE"} /\ (sync \/ (poll /\ dfuse_ctx.op = "ERASE_BUSY"))
     \/ /\ kind = "DATA" /\ dfuse_ctx.have_addr
        /\ (sync /\ dfuse_ctx.op = "IDLE") \/ (poll /\ dfuse_ctx.op = "WRITE_BUSY")

\* What TinyUSB's own DFU logic may answer when the callback returns false.
DefaultNext(state) ==
  CASE state = "DNLOAD_SYNC"   -> {"DNLOAD_SYNC", "DNBUSY", "DNLOAD_IDLE"}
    [] state = "DNBUSY"        -> {"DNBUSY", "DNLOAD_SYNC"}
    [] state = "MANIFEST_SYNC" -> {"MANIFEST_SYNC", "MANIFEST", "DFU_IDLE"}
    [] state = "MANIFEST"      -> {"MANIFEST", "MANIFEST_SYNC", "DFU_IDLE"}
    [] OTHER                   -> {state}

Unhandled ==
  /\ ~Handled
  /\ \E next \in DefaultNext(class.state) : class' = [class EXCEPT !.state = next]
  /\ UNCHANGED <<dfuse_ctx, flash_ctx>>

tud_dfu_get_status_cb ==
  /\ \/ GetCommands
     \/ SetAddress \/ PollSetAddress
     \/ MassErase \/ Erase \/ WriteMemory \/ PollFlash
     \/ Unhandled
  /\ UNCHANGED bank

----------------------------------------------------------------------------
(* The other callbacks.                                                    *)

\* A mutant: a new enumeration keeps the operation of the last one.
tud_mount_cb_keeps_op ==
  /\ flash_init
  /\ dfuse_ctx' = [dfuse_ctx EXCEPT !.base_addr = 0, !.have_addr = TRUE]

tud_mount_cb ==
  /\ flash_init
  /\ dfuse_ctx' = [ZeroDfuseCtx EXCEPT !.have_addr = TRUE]   \* base 0x08100000

\* A mutant: an abort keeps the operation.
tud_dfu_abort_cb_keeps_op ==
  dfuse_ctx' = [dfuse_ctx EXCEPT !.current_addr = 0, !.last_was_get_cmds = FALSE]

tud_dfu_abort_cb ==
  dfuse_ctx' = [dfuse_ctx EXCEPT !.op = "IDLE", !.current_addr = 0,
                                 !.last_was_get_cmds = FALSE]

\* The list of commands is sent once; reading flash changes nothing.
tud_dfu_upload_cb(block) ==
  dfuse_ctx' = IF block = 0 THEN [dfuse_ctx EXCEPT !.last_was_get_cmds = FALSE]
               ELSE dfuse_ctx

----------------------------------------------------------------------------
(* Class requests, as TinyUSB passes them on.                              *)

\* DFU_DNLOAD: buffered, executed by the GETSTATUS that follows.
Dnload(req) ==
  /\ class.state \in {"DFU_IDLE", "DNLOAD_IDLE"}
  /\ class' = [class EXCEPT !.state = "DNLOAD_SYNC", !.req = req]
  /\ UNCHANGED <<dfuse_ctx, flash_ctx, bank>>

\* The zero length DFU_DNLOAD that ends a download.
DnloadEnd ==
  /\ class.state = "DNLOAD_IDLE"
  /\ class' = [class EXCEPT !.state = "MANIFEST_SYNC", !.req = NoRequest]
  /\ UNCHANGED <<dfuse_ctx, flash_ctx, bank>>

GetStatus ==
  /\ class.state \in DfuState
  /\ tud_dfu_get_status_cb

Upload ==
  /\ class.state \in {"DFU_IDLE", "DNLOAD_IDLE", "UPLOAD_IDLE"}
  /\ \E block \in {0, 2} : tud_dfu_upload_cb(block)
  /\ \E next \in {"DFU_IDLE", "UPLOAD_IDLE"} : class' = [class EXCEPT !.state = next]
  /\ UNCHANGED <<flash_ctx, bank>>

\* The class driver forgets its state; the buffer may keep the old request.
ResetClass(state) == \E req \in {class.req, NoRequest} :
  class' = [state |-> state, status |-> "OK", req |-> req]

Abort ==
  /\ class.state \in DfuState
  /\ tud_dfu_abort_cb
  /\ ResetClass("DFU_IDLE")
  /\ UNCHANGED <<flash_ctx, bank>>

\* DFU_CLRSTATUS: no callback.
ClrStatus ==
  /\ class.state = "ERROR"
  /\ ResetClass("DFU_IDLE")
  /\ UNCHANGED <<dfuse_ctx, flash_ctx, bank>>

\* CLRSTATUS or SET_INTERFACE in any state: the class driver is back in
\* dfuIDLE and no callback of this code has been called.
ClassReset ==
  /\ class.state \in DfuState
  /\ ResetClass("DFU_IDLE")
  /\ UNCHANGED <<dfuse_ctx, flash_ctx, bank>>

Mount ==
  /\ class.state # "OFF"
  /\ tud_mount_cb
  /\ ResetClass("DFU_IDLE")

\* tud_umount_cb is empty: the device keeps running what it runs.
Unplug ==
  /\ class.state \in DfuState
  /\ ResetClass("UNMOUNTED")
  /\ UNCHANGED <<dfuse_ctx, flash_ctx, bank>>
============================================================================
