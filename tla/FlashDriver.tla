---------------------------- MODULE FlashDriver ----------------------------
(***************************************************************************)
(* The driver with any caller: requests come at any time, flash_process is *)
(* called for ever, power may be cut between any two steps.  Shown to      *)
(* implement AsyncFlash.                                                   *)
(***************************************************************************)
EXTENDS DfuFlash

CONSTANT XFER   \* CFG_TUD_DFU_XFER_BUFSIZE, the longest write

ASSUME XferAssumption == XFER \in Nat \ {0}

vars == <<bank, flash_ctx>>

\* The bank is erased or holds an image.
Init ==
  /\ \E cell \in {Erased, Junk} : bank = ResetBank([a \in Addr |-> cell])
  /\ flash_ctx = ZeroFlashCtx

\* main() calls flash_init before the first request.
Open ==
  /\ bank.LOCK
  /\ flash_init

RequestErase ==
  /\ ~bank.LOCK
  /\ \E addr \in Addr, ok \in BOOLEAN : flash_erase_sector_async(addr, ok)
  /\ UNCHANGED bank

\* Writes are aligned to the flash word and stay inside the bank.
RequestWrite ==
  /\ ~bank.LOCK
  /\ \E addr \in Addr, data \in Payload, length \in 1 .. XFER, ok \in BOOLEAN :
       /\ addr % WORD = 0
       /\ addr + length - 1 \in Addr
       /\ flash_write_async(addr, data, length, ok)
  /\ UNCHANGED bank

PowerCut ==
  /\ CutOff
  /\ flash_ctx' = ZeroFlashCtx

Complete == HwDone /\ UNCHANGED flash_ctx

Next == Open \/ RequestErase \/ RequestWrite \/ flash_process \/ Complete \/ PowerCut

Safety == Init /\ [][Next]_vars

Spec ==
  /\ Safety
  /\ WF_vars(flash_process)
  /\ WF_vars(Complete)

----------------------------------------------------------------------------
Requested(a) == a - flash_ctx.addr \in 0 .. flash_ctx.length - 1

\* The words of the request that are not yet in the array or in flight.
Waiting(a) ==
  \E b \in WordOf(a) :
    b \in DOMAIN bank.wb \/ (Requested(b) /\ b - flash_ctx.addr >= flash_ctx.offset)

Blank(a) == \A b \in WordOf(a) : bank.cells[b] = Erased

\* What the job of a write will leave at a: a word is programmed once, with
\* padding, and spoilt if it was not erased.
WriteLeaves(a) ==
  IF a \in DOMAIN bank.running THEN bank.running[a]
  ELSE IF ~Waiting(a) THEN bank.cells[a]
  ELSE IF ~Blank(a) THEN Junk
  ELSE IF Requested(a) THEN <<flash_ctx.buffer, a - flash_ctx.addr>> ELSE Pad

JobBar ==
  CASE flash_ctx.state = "IDLE" -> Empty
    [] flash_ctx.state \in {"ERASE_PENDING", "ERASE_BUSY"} ->
         [a \in SectorAddrs(addr_to_sector(flash_ctx.addr)) |-> Erased]
    [] flash_ctx.state \in {"WRITE_PENDING", "WRITE_BUSY"} ->
         [a \in UNION {WordOf(b) : b \in {c \in Addr : Requested(c)}} |-> WriteLeaves(a)]

Abstract == INSTANCE AsyncFlash WITH mem <- bank.cells, job <- JobBar

\* The driver keeps the promise of its header: a job that was taken changes
\* exactly what it was asked to change, and the driver is busy until all of it
\* is in the memory, then idle.
ImplementsAsyncFlash == Abstract!Spec

\* Between jobs the hardware is quiet: nothing in flight, nothing left in the
\* write buffer, and neither PG nor SER left set for the next command
\* (flash_process clears them only on its last step).
QuietWhenIdle ==
  flash_ctx.state = "IDLE" =>
    ~QW(bank) /\ ~WBNE(bank) /\ ~bank.PG /\ ~bank.SER
============================================================================
