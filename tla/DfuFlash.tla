------------------------------ MODULE DfuFlash ------------------------------
(***************************************************************************)
(* The flash driver, src/src/dfu_flash.c: a request is taken by            *)
(* flash_erase_sector_async or flash_write_async, which return at once,    *)
(* and carried out by flash_process, called on every turn of the main      *)
(* loop.  A call of a C function is one atomic step: everything but the    *)
(* hardware runs in the main loop.                                         *)
(***************************************************************************)
EXTENDS FlashBank

VARIABLE
  flash_ctx  \* [state, addr, buffer, length, offset]

OpState == {"IDLE", "ERASE_PENDING", "ERASE_BUSY", "WRITE_PENDING", "WRITE_BUSY"}

ASSUME PayloadAssumption == Payload # {}

FlashCtxType ==
  [state : OpState, addr : Nat, buffer : Payload, length : Nat, offset : Nat]

\* .bss after reset: every field zero, whatever payload stands for zeros.
ZeroFlashCtx ==
  [state |-> "IDLE", addr |-> 0, buffer |-> CHOOSE p \in Payload : TRUE,
   length |-> 0, offset |-> 0]

flash_is_busy == flash_ctx.state # "IDLE"

\* Unlocks CR2 if it is locked; touches no other control bit, and not the
\* command in flight.
flash_init ==
  /\ flash_ctx' = [flash_ctx EXCEPT !.state = "IDLE"]
  /\ bank' = [bank EXCEPT !.LOCK = FALSE]

\* The sector number the erase command gets: no range check, the mask wraps.
addr_to_sector(addr) == (addr \div SECTOR) % NSECT

\* ok is the value the function returns.
flash_erase_sector_async(addr, ok) ==
  /\ ok = ~flash_is_busy
  /\ flash_ctx' = IF ok THEN [flash_ctx EXCEPT !.addr = addr, !.state = "ERASE_PENDING"]
                  ELSE flash_ctx

flash_write_async(addr, data, length, ok) ==
  /\ ok = ~flash_is_busy
  /\ flash_ctx' = IF ok
                  THEN [state |-> "WRITE_PENDING", addr |-> addr, buffer |-> data,
                        length |-> length, offset |-> 0]
                  ELSE flash_ctx

\* The driver's view of the queue.
flash_op_complete(b) == ~QW(b)

----------------------------------------------------------------------------
(* flash_process: one action per path that changes anything.               *)

\* A mutant: the erase does not wait for the previous operation.
StartEraseAtOnce ==
  /\ flash_ctx.state = "ERASE_PENDING"
  /\ bank' \in Erases(SetCR2(bank, bank.PG, TRUE), addr_to_sector(flash_ctx.addr))
  /\ flash_ctx' = [flash_ctx EXCEPT !.state = "ERASE_BUSY"]

\* FLASH_OP_ERASE_PENDING, once the previous operation is over.
StartErase ==
  /\ flash_ctx.state = "ERASE_PENDING"
  /\ flash_op_complete(bank)
  /\ bank' \in Erases(SetCR2(bank, bank.PG, TRUE), addr_to_sector(flash_ctx.addr))
  /\ flash_ctx' = [flash_ctx EXCEPT !.state = "ERASE_BUSY"]

\* A mutant: SER stays set after the erase.
FinishEraseKeepsSER ==
  /\ flash_ctx.state = "ERASE_BUSY"
  /\ flash_op_complete(bank)
  /\ flash_ctx' = [flash_ctx EXCEPT !.state = "IDLE"]
  /\ UNCHANGED bank

\* FLASH_OP_ERASE_BUSY.
FinishErase ==
  /\ flash_ctx.state = "ERASE_BUSY"
  /\ flash_op_complete(bank)
  /\ bank' = SetCR2(bank, bank.PG, FALSE)
  /\ flash_ctx' = [flash_ctx EXCEPT !.state = "IDLE"]

\* The bytes one call stores: a flash word, or what is left of the request.
Chunk(ctx) ==
  LET first == ctx.addr + ctx.offset
      n     == IF ctx.length - ctx.offset >= WORD THEN WORD ELSE ctx.length - ctx.offset
  IN [a \in Addr \cap (first .. first + n - 1) |-> <<ctx.buffer, a - ctx.addr>>]

\* A mutant: the offset is not moved behind the last, short chunk.
NextOffsetStuck(ctx) ==
  IF ctx.length - ctx.offset >= WORD THEN ctx.offset + WORD ELSE ctx.offset

NextOffset(ctx) ==
  IF ctx.length - ctx.offset >= WORD THEN ctx.offset + WORD ELSE ctx.length

\* The control register as the write path has it: FLASH_OP_WRITE_PENDING sets
\* PG and falls through into FLASH_OP_WRITE_BUSY.
WriteBank ==
  IF flash_ctx.state = "WRITE_PENDING" THEN SetCR2(bank, TRUE, bank.SER) ELSE bank

\* A mutant: the next chunk does not wait for the queue.
WritingAtOnce == flash_ctx.state \in {"WRITE_PENDING", "WRITE_BUSY"}

Writing ==
  /\ flash_ctx.state \in {"WRITE_PENDING", "WRITE_BUSY"}
  /\ flash_op_complete(bank)

WriteChunk ==
  /\ Writing
  /\ flash_ctx.offset < flash_ctx.length
  /\ bank' \in Stores(WriteBank, Chunk(flash_ctx))
  /\ flash_ctx' = [flash_ctx EXCEPT !.state = "WRITE_BUSY",
                                    !.offset = NextOffset(flash_ctx)]

\* Everything is stored, the last flash word only in part: FW.
ForceWrite ==
  /\ Writing
  /\ flash_ctx.offset >= flash_ctx.length
  /\ WBNE(bank)
  /\ bank' \in ForceWrites(WriteBank)
  /\ flash_ctx' = [flash_ctx EXCEPT !.state = "WRITE_BUSY"]

\* A mutant: a partly filled write buffer is not forced out.
FinishWriteEarly ==
  /\ Writing
  /\ flash_ctx.offset >= flash_ctx.length
  /\ bank' = SetCR2(WriteBank, FALSE, WriteBank.SER)
  /\ flash_ctx' = [flash_ctx EXCEPT !.state = "IDLE"]

FinishWrite ==
  /\ Writing
  /\ flash_ctx.offset >= flash_ctx.length
  /\ ~WBNE(bank)
  /\ bank' = SetCR2(WriteBank, FALSE, WriteBank.SER)
  /\ flash_ctx' = [flash_ctx EXCEPT !.state = "IDLE"]

flash_process ==
  \/ StartErase \/ FinishErase
  \/ WriteChunk \/ ForceWrite \/ FinishWrite

----------------------------------------------------------------------------
Bit(p) == IF p THEN 1 ELSE 0

\* How much of the job is left: no less than the calls of flash_process that do
\* something and the completions of the hardware that it still takes.
Left ==
  Bit(QW(bank)) +
    CASE flash_ctx.state = "IDLE"          -> 0
      [] flash_ctx.state = "ERASE_PENDING" -> 4
      [] flash_ctx.state = "ERASE_BUSY"    -> 2
      [] OTHER -> 1 + 4 * (flash_ctx.length - flash_ctx.offset) + 2 * Bit(WBNE(bank))
============================================================================
