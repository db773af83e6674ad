------------------------- MODULE FlashDriverProofs -------------------------
(***************************************************************************)
(* The flash driver under any caller: its hardware is quiet between jobs,  *)
(* and on hardware that refuses nothing it keeps the promise of its header *)
(* step by step: the safety half of its refinement of AsyncFlash.          *)
(***************************************************************************)
EXTENDS FlashDriver, DfuFlashProofs

DriverTypeOK == IsBank(bank) /\ flash_ctx \in FlashCtxType

\* No request is taken before flash_init has unlocked CR2.
IdleWhenLocked == bank.LOCK => flash_ctx.state = "IDLE"

\* What a request makes of the driver: nothing, if it is busy.
LEMMA RequestTaken ==
  ASSUME DriverTypeOK, RequestErase \/ RequestWrite
  PROVE  /\ bank' = bank /\ ~bank.LOCK /\ flash_ctx' \in FlashCtxType
         /\ \/ flash_ctx' = flash_ctx
            \/ /\ flash_ctx.state = "IDLE"
               /\ \/ flash_ctx'.state = "ERASE_PENDING" /\ flash_ctx'.addr \in Addr
                  \/ /\ flash_ctx'.state = "WRITE_PENDING" /\ flash_ctx'.offset = 0
                     /\ Multiple(flash_ctx'.addr) /\ flash_ctx'.length > 0
                     /\ flash_ctx'.addr + flash_ctx'.length - 1 \in Addr
<1> USE DEF DriverTypeOK, FlashCtxType, OpState
<1>0. Addr \subseteq Nat /\ 1 .. XFER \subseteq Nat /\ \A n \in 1 .. XFER : n > 0
  BY XferAssumption DEF Addr
<1>1. CASE RequestErase
  <2>1. PICK addr \in Addr, ok \in BOOLEAN : flash_erase_sector_async(addr, ok)
    BY <1>1 DEF RequestErase
  <2>2. CASE ok
    <3>1. flash_ctx.state = "IDLE"
          /\ flash_ctx' = [flash_ctx EXCEPT !.addr = addr, !.state = "ERASE_PENDING"]
      BY <2>1, <2>2 DEF flash_erase_sector_async, flash_is_busy
    <3> QED
      BY <1>0, <1>1, <3>1 DEF RequestErase
  <2>3. CASE ~ok
    BY <1>1, <2>1, <2>3 DEF RequestErase, flash_erase_sector_async
  <2> QED
    BY <2>2, <2>3
<1>2. CASE RequestWrite
  <2>1. PICK addr \in Addr, data \in Payload, length \in 1 .. XFER, ok \in BOOLEAN :
          /\ addr % WORD = 0
          /\ addr + length - 1 \in Addr
          /\ flash_write_async(addr, data, length, ok)
    BY <1>2 DEF RequestWrite
  <2>2. CASE ok
    <3>1. flash_ctx.state = "IDLE"
          /\ flash_ctx' = [state |-> "WRITE_PENDING", addr |-> addr, buffer |-> data,
                           length |-> length, offset |-> 0]
      BY <2>1, <2>2 DEF flash_write_async, flash_is_busy
    <3>2. Multiple(addr)
      BY <1>0, <2>1, DivisibleIsMultiple
    <3> QED
      BY <1>0, <1>2, <2>1, <3>1, <3>2 DEF RequestWrite
  <2>3. CASE ~ok
    BY <1>2, <2>1, <2>3 DEF RequestWrite, flash_write_async
  <2> QED
    BY <2>2, <2>3
<1> QED
  BY <1>1, <1>2

\* Every step keeps the types and leaves the hardware settled, also if commands
\* are refused.
LEMMA DriverStepSettles ==
  ASSUME DriverTypeOK, Settled, IdleWhenLocked, [Next]_vars
  PROVE  DriverTypeOK' /\ Settled' /\ IdleWhenLocked'
<1> USE DEF DriverTypeOK
<1>1. CASE Open
  BY <1>1, FlashInitType
  DEF Open, flash_init, Settled, IdleWhenLocked, QW, WBNE, IsBank, FlashCtxType
<1>2. CASE RequestErase \/ RequestWrite
  BY <1>2, RequestTaken DEF Settled, IdleWhenLocked
<1>3. CASE flash_process
  <2>1. flash_ctx.state # "IDLE"
    BY <1>3 DEF flash_process, StartErase, FinishErase, WriteChunk, ForceWrite, FinishWrite,
                Writing
  <2> QED
    BY <1>3, <2>1, FlashProcessType, FlashProcessSettles, FlashProcessKeepsLock
    DEF IdleWhenLocked
<1>4. CASE Complete
  <2>1. IsBank(bank')
    BY <1>4, HwDoneIsBank DEF Complete
  <2> QED
    BY <1>4, <2>1 DEF Complete, HwDone, Settled, IdleWhenLocked, QW, WBNE, IsBank
<1>5. CASE PowerCut
  <2>1. IsBank(bank')
    BY <1>5, CutOffIsBank DEF PowerCut
  <2>2. flash_ctx' \in FlashCtxType /\ flash_ctx'.state = "IDLE"
    BY <1>5, ZeroFlashCtxType DEF PowerCut, ZeroFlashCtx
  <2> QED
    BY <1>5, <2>1, <2>2
    DEF PowerCut, CutOff, ResetBank, Empty, Settled, IdleWhenLocked, QW, WBNE
<1>6. CASE UNCHANGED vars
  BY <1>6 DEF vars, Settled, IdleWhenLocked
<1> QED
  BY <1>1, <1>2, <1>3, <1>4, <1>5, <1>6 DEF Next

\* Out of reset everything is quiet.
LEMMA DriverInit == Init => DriverTypeOK /\ Settled /\ IdleWhenLocked
<1> SUFFICES ASSUME Init PROVE DriverTypeOK /\ Settled /\ IdleWhenLocked
  OBVIOUS
<1>1. \A cell \in {Erased, Junk} : [a \in Addr |-> cell] \in [Addr -> Cell]
  BY DEF Cell
<1>2. DriverTypeOK
  BY <1>1, ResetBankIsBank, ZeroFlashCtxType DEF Init, DriverTypeOK
<1>3. Settled /\ IdleWhenLocked
  BY DEF Init, ResetBank, ZeroFlashCtx, Empty, Settled, IdleWhenLocked, QW, WBNE
<1> QED
  BY <1>2, <1>3

\* Between jobs the hardware is quiet, for every geometry and any sequence of
\* requests and power cuts, whether or not commands are refused.
THEOREM DriverQuietWhenIdle == Safety => []QuietWhenIdle
<1>1. Settled => QuietWhenIdle
  BY DEF Settled, QuietWhenIdle
<1>2. /\ DriverTypeOK /\ Settled /\ IdleWhenLocked /\ [Next]_vars
        => (DriverTypeOK /\ Settled /\ IdleWhenLocked)'
  BY DriverStepSettles
<1> QED
  BY <1>1, <1>2, DriverInit, PTL DEF Safety

(***************************************************************************)
(* The refinement, on hardware that refuses nothing.                       *)
(***************************************************************************)

\* What a will hold when the command in flight ends.
Lands(a) == IF a \in DOMAIN bank.running THEN bank.running[a] ELSE bank.cells[a]

\* The command in flight is a part of the job; what it does is not still to be
\* done.
InFlight ==
  /\ flash_ctx.state = "ERASE_BUSY" =>
       /\ DOMAIN bank.running \subseteq Sector(flash_ctx.addr)
       /\ \A a \in Sector(flash_ctx.addr) : Lands(a) = Erased
  /\ WritesNow =>
       /\ \A a \in DOMAIN bank.running : a \in Words(JobBytes) /\ ~Waiting(a)
       /\ \A a \in DOMAIN bank.wb : bank.wb[a] = <<flash_ctx.buffer, a - flash_ctx.addr>>

DriverInv == DriverTypeOK /\ Settled /\ IdleWhenLocked /\ WordByWord /\ InFlight

\* The bytes of the job are those requested; a word waits as a whole.
LEMMA JobFacts ==
  ASSUME DriverTypeOK, NEW a \in Addr
  PROVE  /\ Requested(a) <=> a \in JobBytes
         /\ \A b \in WordOf(a) : b \in Addr /\ WordOf(b) = WordOf(a)
         /\ a \in WordOf(a)
<1>1. a \in Int /\ flash_ctx.addr \in Nat /\ flash_ctx.length \in Nat
  BY GeometryAssumption DEF Addr, DriverTypeOK, FlashCtxType
<1>2. Requested(a) <=> a \in JobBytes
  BY <1>1 DEF Requested, JobBytes
<1> QED
  BY <1>2 DEF WordOf

\* A flash word on its way to the memory: nothing changes in what the job will
\* leave.
LEMMA WriteChunkKeepsJob ==
  ASSUME DriverInv, ~bank.LOCK, Faults = FALSE, WriteChunk
  PROVE  /\ bank'.cells = bank.cells /\ JobBytes' = JobBytes /\ WritesNow' /\ WritesNow
         /\ InFlight' /\ \A a \in Addr : WriteLeaves(a)' = WriteLeaves(a)
<1> USE DEF DriverInv, DriverTypeOK
<1> DEFINE next == NextOffset(flash_ctx)
           first == flash_ctx.addr + flash_ctx.offset
           last == flash_ctx.addr + next - 1
           w == Addr \cap (first .. first + WORD - 1)
           Data(a) == <<flash_ctx.buffer, a - flash_ctx.addr>>
<1>1. ChunkStored(first, last, w)
  BY WriteChunkEffect
<1>2. /\ flash_ctx.addr \in Nat /\ flash_ctx.offset \in Nat /\ flash_ctx.length \in Nat
      /\ WORD \in Nat \ {0} /\ Addr \subseteq Nat
  BY GeometryAssumption DEF FlashCtxType, Addr
<1>3. /\ WritesNow /\ flash_ctx.offset < flash_ctx.length /\ DOMAIN bank.running = {}
      /\ DOMAIN bank.wb = {} /\ JobBytes \subseteq Addr
  BY DEF WriteChunk, Writing, WritesNow, WordByWord, flash_op_complete, QW, WBNE
<1>4. next \in Nat /\ flash_ctx.offset < next /\ next <= flash_ctx.length
  BY <1>2, <1>3 DEF NextOffset
<1>5. first \in Nat /\ last \in Nat /\ first <= last
      /\ last = flash_ctx.addr + next - 1
  BY <1>2, <1>4
<1>6. /\ flash_ctx'.addr = flash_ctx.addr /\ flash_ctx'.buffer = flash_ctx.buffer
      /\ flash_ctx'.length = flash_ctx.length
      /\ flash_ctx'.offset = next /\ flash_ctx'.state = "WRITE_BUSY"
      /\ JobBytes' = JobBytes /\ bank'.cells = bank.cells
  BY <1>1 DEF ChunkStored, JobBytes, FlashCtxType
<1>7. /\ first .. last \subseteq JobBytes \cap w /\ \A a \in w : WordOf(a) = w
      /\ next = flash_ctx.length \/ DOMAIN bank'.wb = {}
  BY <1>1 DEF ChunkStored
<1>8. first \in w /\ first \in JobBytes
  BY <1>5, <1>7
<1>9. ASSUME NEW a \in Addr
      PROVE  /\ Requested(a)' <=> a \in JobBytes
             /\ Requested(a) <=> a \in JobBytes
             /\ Blank(a)' <=> Blank(a)
             /\ WordOf(a) \subseteq Addr /\ WordOf(a)' = WordOf(a) /\ a \in WordOf(a)
             /\ \A b \in WordOf(a) : WordOf(b) = WordOf(a)
  BY <1>6, JobFacts DEF Requested, Blank, WordOf, Addr
<1>10. ASSUME NEW a \in Addr
       PROVE  /\ a - flash_ctx.addr >= flash_ctx.offset <=> a >= first
              /\ a - flash_ctx.addr >= next <=> a > last
  BY <1>2, <1>4
<1>11. \A a \in Addr : Waiting(a) <=> \E b \in WordOf(a) : b \in JobBytes /\ b >= first
  BY <1>3, <1>9, <1>10 DEF Waiting
<1>12. \A a \in Addr : Waiting(a)' <=>
         \E b \in WordOf(a) : b \in DOMAIN bank'.wb \/ (b \in JobBytes /\ b > last)
  BY <1>6, <1>9, <1>10 DEF Waiting
<1>13. \A a \in Addr : WriteLeaves(a) =
         IF ~Waiting(a) THEN bank.cells[a]
         ELSE IF ~Blank(a) THEN Junk ELSE IF a \in JobBytes THEN Data(a) ELSE Pad
  BY <1>3, <1>9 DEF WriteLeaves
<1>14. \A a \in Addr : WriteLeaves(a)' =
         IF a \in DOMAIN bank'.running THEN bank'.running[a]
         ELSE IF ~Waiting(a)' THEN bank.cells[a]
         ELSE IF ~Blank(a) THEN Junk ELSE IF a \in JobBytes THEN Data(a) ELSE Pad
  BY <1>6, <1>9 DEF WriteLeaves
<1>15. InFlight' <=>
         /\ \A a \in DOMAIN bank'.running : a \in Words(JobBytes) /\ ~Waiting(a)'
         /\ \A a \in DOMAIN bank'.wb : bank'.wb[a] = Data(a)
  BY <1>6 DEF InFlight, WritesNow, Words, WordOf, Addr
<1>16. \/ /\ DOMAIN bank'.wb = {} /\ DOMAIN bank'.running = w /\ w \subseteq first .. last
          /\ IF \A b \in w : bank.cells[b] = Erased THEN \A b \in w : bank'.running[b] = Data(b)
             ELSE \A b \in w : bank'.running[b] = Junk
       \/ /\ DOMAIN bank'.running = {} /\ DOMAIN bank'.wb = first .. last
          /\ next = flash_ctx.length
          /\ \A b \in first .. last : bank'.wb[b] = Data(b)
  BY <1>1 DEF ChunkStored
<1>17. \A a \in w : a \in Addr
  OBVIOUS
<1>18. next = flash_ctx.length => \A b \in JobBytes : b >= first => b \in first .. last
  BY <1>2, <1>5 DEF JobBytes
<1> HIDE DEF next, first, last, w, Data
<1>19. CASE DOMAIN bank'.running = w
  <2>1. /\ DOMAIN bank'.wb = {} /\ w \subseteq first .. last
        /\ IF \A b \in w : bank.cells[b] = Erased THEN \A b \in w : bank'.running[b] = Data(b)
           ELSE \A b \in w : bank'.running[b] = Junk
    BY <1>8, <1>16, <1>19
  <2>2. ASSUME NEW a \in w PROVE ~Waiting(a)'
    <3>1. \A b \in WordOf(a) : ~(b > last)
      <4>1. \A b \in WordOf(a) : b \in first .. last
        BY <1>7, <2>1
      <4> QED
        BY <1>5, <4>1
    <3> QED
      BY <1>12, <1>17, <2>1, <3>1
  <2>3. ASSUME NEW a \in w PROVE a \in JobBytes /\ a \in Words(JobBytes)
    BY <1>7, <1>9, <1>17, <2>1 DEF Words
  <2>4. InFlight'
    BY <1>15, <1>19, <2>1, <2>2, <2>3
  <2>5. ASSUME NEW a \in w PROVE WriteLeaves(a)' = WriteLeaves(a)
    <3>1. Waiting(a)
      BY <1>5, <1>7, <1>8, <1>11, <1>17
    <3>2. Blank(a) <=> \A b \in w : bank.cells[b] = Erased
      BY <1>7 DEF Blank
    <3> QED
      BY <1>13, <1>14, <1>17, <1>19, <2>1, <2>3, <3>1, <3>2
  <2>6. ASSUME NEW a \in Addr, a \notin w PROVE WriteLeaves(a)' = WriteLeaves(a)
    <3>1. \A b \in WordOf(a) : b \notin w
      BY <1>7, <1>9, <2>6
    <3>2. \A b \in WordOf(a) : b \in Nat /\ (b >= first <=> b > last)
      <4>1. \A b \in WordOf(a) : b \in Nat /\ b \notin first .. last
        BY <1>2, <1>7, <1>9, <3>1
      <4> QED
        BY <1>5, <4>1
    <3>3. Waiting(a)' <=> Waiting(a)
      BY <1>11, <1>12, <2>1, <3>2
    <3> QED
      BY <1>13, <1>14, <1>19, <2>6, <3>3
  <2> QED
    BY <1>3, <1>6, <2>4, <2>5, <2>6 DEF WritesNow
<1>20. CASE DOMAIN bank'.running = {}
  <2>1. /\ DOMAIN bank'.wb = first .. last /\ next = flash_ctx.length
        /\ \A b \in first .. last : bank'.wb[b] = Data(b)
    BY <1>8, <1>16, <1>20
  <2>2. InFlight'
    BY <1>15, <1>20, <2>1
  <2>3. ASSUME NEW a \in Addr PROVE Waiting(a)' <=> Waiting(a)
    <3>1. \A b \in JobBytes : (b >= first <=> b \in first .. last) /\ ~(b > last)
      <4>1. \A b \in JobBytes : b >= first => b \in first .. last
        BY <1>18, <2>1
      <4>2. \A b \in first .. last : b >= first /\ ~(b > last)
        BY <1>5
      <4>3. \A b \in JobBytes : b > last => b >= first
        BY <1>2, <1>3, <1>5
      <4> QED
        BY <4>1, <4>2, <4>3
    <3> QED
      BY <1>7, <1>11, <1>12, <2>1, <3>1
  <2> QED
    BY <1>3, <1>6, <1>13, <1>14, <1>20, <2>2, <2>3 DEF WritesNow
<1> QED
  BY <1>16, <1>19, <1>20

\* The same of the partly filled last word.
LEMMA ForceWriteKeepsJob ==
  ASSUME DriverInv, ~bank.LOCK, Faults = FALSE, ForceWrite
  PROVE  /\ bank'.cells = bank.cells /\ JobBytes' = JobBytes /\ WritesNow' /\ WritesNow
         /\ InFlight' /\ \A a \in Addr : WriteLeaves(a)' = WriteLeaves(a)
<1> USE DEF DriverInv, DriverTypeOK
<1> DEFINE Data(a) == <<flash_ctx.buffer, a - flash_ctx.addr>>
<1>1. PICK b : b \in DOMAIN bank.wb
  BY DEF ForceWrite, WBNE
<1> DEFINE w == WordOf(b)
<1>2. /\ WritesNow /\ flash_ctx.offset >= flash_ctx.length /\ DOMAIN bank.running = {}
      /\ DOMAIN bank.wb \subseteq JobBytes /\ JobBytes \subseteq Addr
      /\ \A a \in DOMAIN bank.wb : WordOf(a) = w
      /\ w \cap JobBytes \subseteq DOMAIN bank.wb
      /\ \A a \in DOMAIN bank.wb : bank.wb[a] = Data(a)
  BY <1>1 DEF ForceWrite, Writing, WordByWord, WritesNow, flash_op_complete, QW, InFlight
<1>3. /\ bank'.cells = bank.cells /\ DOMAIN bank'.wb = {} /\ DOMAIN bank'.running = w
      /\ (\A a \in w : bank.cells[a] = Erased)
           => \A a \in w : bank'.running[a] = IF a \in DOMAIN bank.wb THEN bank.wb[a] ELSE Pad
      /\ ~(\A a \in w : bank.cells[a] = Erased) => \A a \in w : bank'.running[a] = Junk
      /\ flash_ctx' = [flash_ctx EXCEPT !.state = "WRITE_BUSY"]
  BY <1>2, ForceWriteEffect
<1>4. /\ flash_ctx'.addr = flash_ctx.addr /\ flash_ctx'.buffer = flash_ctx.buffer
      /\ flash_ctx'.length = flash_ctx.length
      /\ flash_ctx'.offset = flash_ctx.offset /\ flash_ctx'.state = "WRITE_BUSY"
      /\ JobBytes' = JobBytes
  BY <1>3 DEF JobBytes, FlashCtxType
<1>5. ASSUME NEW a \in Addr
      PROVE  /\ Requested(a)' <=> a \in JobBytes
             /\ Requested(a) <=> a \in JobBytes
             /\ Blank(a)' <=> Blank(a)
             /\ WordOf(a) \subseteq Addr /\ WordOf(a)' = WordOf(a) /\ a \in WordOf(a)
             /\ \A c \in WordOf(a) : WordOf(c) = WordOf(a)
  BY <1>3, <1>4, JobFacts DEF Requested, Blank, WordOf, Addr
<1>6. \A a \in JobBytes : ~(a - flash_ctx.addr >= flash_ctx.offset)
  BY <1>2 DEF JobBytes, FlashCtxType
<1>7. \A a \in Addr : Waiting(a) <=> \E c \in WordOf(a) : c \in DOMAIN bank.wb
  BY <1>5, <1>6 DEF Waiting
<1>8. \A a \in Addr : ~Waiting(a)'
  BY <1>3, <1>4, <1>5, <1>6 DEF Waiting
<1>9. b \in Addr /\ w \subseteq Addr /\ \A a \in w : WordOf(a) = w
  BY <1>1, <1>2, <1>5
<1>10. \A a \in Addr : Waiting(a) <=> a \in w
  BY <1>1, <1>2, <1>5, <1>7, <1>9
<1>11. \A a \in Addr : WriteLeaves(a) =
         IF ~Waiting(a) THEN bank.cells[a]
         ELSE IF ~Blank(a) THEN Junk ELSE IF a \in JobBytes THEN Data(a) ELSE Pad
  BY <1>2, <1>5 DEF WriteLeaves
<1>12. \A a \in Addr : WriteLeaves(a)' =
         IF a \in DOMAIN bank'.running THEN bank'.running[a] ELSE bank.cells[a]
  BY <1>3, <1>8 DEF WriteLeaves
<1>13. \A a \in w : Blank(a) <=> \A c \in w : bank.cells[c] = Erased
  BY <1>9 DEF Blank
<1>14. \A a \in w : a \in Words(JobBytes)
  BY <1>1, <1>2 DEF Words
<1> HIDE DEF w, Data
<1>15. \A a \in w : a \in JobBytes <=> a \in DOMAIN bank.wb
  BY <1>2
<1>16. \A a \in w : bank'.running[a] =
         IF ~Blank(a) THEN Junk ELSE IF a \in JobBytes THEN Data(a) ELSE Pad
  BY <1>2, <1>3, <1>13, <1>15
<1>17. \A a \in Addr : WriteLeaves(a)' = WriteLeaves(a)
  BY <1>3, <1>10, <1>11, <1>12, <1>16
<1>18. InFlight'
  BY <1>3, <1>4, <1>8, <1>9, <1>14 DEF InFlight, WritesNow, Words, WordOf, Addr
<1> QED
  BY <1>2, <1>3, <1>4, <1>17, <1>18 DEF WritesNow

\* The end of a command: what it has left is what the job was to leave there.
LEMMA CompletionKeepsJob ==
  ASSUME DriverInv, Complete
  PROVE  /\ flash_ctx' = flash_ctx /\ InFlight'
         /\ \A a \in Addr : bank'.cells[a] = Lands(a)
         /\ \A a \in Addr : a \in DOMAIN bank.running /\ WritesNow =>
              WriteLeaves(a) = bank.running[a]
         /\ WritesNow => \A a \in Addr : WriteLeaves(a)' = WriteLeaves(a)
<1> USE DEF DriverInv, DriverTypeOK
<1>1. /\ flash_ctx' = flash_ctx /\ bank'.wb = bank.wb /\ DOMAIN bank'.running = {}
      /\ bank'.cells = Over(bank.running, bank.cells)
  BY DEF Complete, HwDone, IsBank, Empty
<1>2. \A a \in Addr : bank'.cells[a] = Lands(a)
  BY <1>1 DEF Over, Lands, IsBank
<1>3. \A a \in Addr : Waiting(a)' = Waiting(a)
  BY <1>1 DEF Waiting, Requested, WordOf, Addr
<1>4. InFlight'
  <2>1. CASE flash_ctx.state = "ERASE_BUSY"
    <3>1. Sector(flash_ctx.addr)' = Sector(flash_ctx.addr) /\ Sector(flash_ctx.addr) \subseteq Addr
      BY <1>1 DEF Sector, SectorAddrs, addr_to_sector, Addr
    <3>2. \A a \in Sector(flash_ctx.addr) : Lands(a)' = Lands(a)
      BY <1>1, <1>2, <3>1 DEF Lands
    <3> QED
      BY <1>1, <2>1, <3>1, <3>2 DEF InFlight, WritesNow
  <2>2. CASE flash_ctx.state # "ERASE_BUSY"
    BY <1>1, <2>2 DEF InFlight, WritesNow
  <2> QED
    BY <2>1, <2>2
<1>5. ASSUME WritesNow, NEW a \in Addr PROVE WriteLeaves(a)' = WriteLeaves(a)
  <2>1. WriteLeaves(a)' =
          IF ~Waiting(a)' THEN bank'.cells[a]
          ELSE IF ~Blank(a)' THEN Junk
          ELSE IF Requested(a)' THEN <<flash_ctx.buffer, a - flash_ctx.addr>> ELSE Pad
    BY <1>1 DEF WriteLeaves
  <2>2. Requested(a)' = Requested(a)
    BY <1>1 DEF Requested
  <2>3. CASE ~Waiting(a)
    BY <1>2, <1>3, <2>1, <2>3 DEF WriteLeaves, Lands
  <2>4. CASE Waiting(a)
    <3>1. \A b \in WordOf(a) : b \in Addr /\ Waiting(b)
      BY <2>4, JobFacts DEF Waiting
    <3>2. \A b \in WordOf(a) : b \notin DOMAIN bank.running
      BY <1>5, <3>1 DEF InFlight
    <3>3. Blank(a)' <=> Blank(a)
      BY <1>2, <3>1, <3>2 DEF Blank, Lands, WordOf, Addr
    <3>4. a \notin DOMAIN bank.running
      BY <3>2, JobFacts
    <3> QED
      BY <1>3, <2>1, <2>2, <2>4, <3>3, <3>4 DEF WriteLeaves
  <2> QED
    BY <2>3, <2>4
<1>6. \A a \in Addr : a \in DOMAIN bank.running => WriteLeaves(a) = bank.running[a]
  BY DEF WriteLeaves
<1> QED
  BY <1>1, <1>2, <1>4, <1>5, <1>6

\* Every step keeps the command in flight a part of the job.
LEMMA DriverStepInv ==
  ASSUME Faults = FALSE, DriverInv, [Next]_vars
  PROVE  DriverInv'
<1> USE DEF DriverInv
<1>1. DriverTypeOK' /\ Settled' /\ IdleWhenLocked'
  BY DriverStepSettles
<1>2. ASSUME flash_ctx'.state \in {"IDLE", "ERASE_PENDING"} PROVE WordByWord' /\ InFlight'
  BY <1>2 DEF WordByWord, InFlight, WritesNow
<1>3. CASE UNCHANGED <<bank, flash_ctx>>
  <2>1. WordByWord'
    BY <1>3 DEF WordByWord, WritesNow, JobBytes, Multiple, WBNE, WordOf, Addr
  <2>2. ASSUME NEW a \in Addr PROVE (Waiting(a)' <=> Waiting(a)) /\ Lands(a)' = Lands(a)
    <3>1. WordOf(a)' = WordOf(a) /\ Lands(a)' = Lands(a)
      BY <1>3 DEF WordOf, Addr, Lands
    <3>2. ASSUME NEW b PROVE Requested(b)' <=> Requested(b)
      BY <1>3 DEF Requested
    <3> QED
      BY <1>3, <3>1, <3>2 DEF Waiting
  <2>3. Words(JobBytes)' = Words(JobBytes) /\ Sector(flash_ctx.addr)' = Sector(flash_ctx.addr)
    BY <1>3 DEF Words, WordOf, Addr, JobBytes, Sector, SectorAddrs, addr_to_sector
  <2>4. Sector(flash_ctx.addr) \subseteq Addr /\ DOMAIN bank.running \subseteq Addr
    BY DEF Sector, SectorAddrs, DriverTypeOK, IsBank, IsImage
  <2>5. InFlight'
    BY <1>3, <2>2, <2>3, <2>4 DEF InFlight, WritesNow
  <2> QED
    BY <1>1, <2>1, <2>5
<1>4. CASE Open
  BY <1>1, <1>2, <1>4 DEF Open, flash_init, DriverTypeOK, FlashCtxType
<1>5. CASE RequestErase \/ RequestWrite
  <2>1. CASE flash_ctx' = flash_ctx
    BY <1>5, <1>3, <1>1, <2>1, RequestTaken
  <2>2. CASE flash_ctx'.state = "ERASE_PENDING"
    BY <1>1, <1>2, <2>2
  <2>3. CASE /\ flash_ctx.state = "IDLE" /\ flash_ctx'.state = "WRITE_PENDING"
             /\ flash_ctx'.offset = 0 /\ Multiple(flash_ctx'.addr) /\ flash_ctx'.length > 0
             /\ flash_ctx'.addr + flash_ctx'.length - 1 \in Addr
    <3>1. DOMAIN bank'.running = {} /\ DOMAIN bank'.wb = {}
      BY <1>5, <2>3, RequestTaken DEF Settled, QW, WBNE
    <3>2. JobBytes' \subseteq Addr
      BY <1>1, <2>3, GeometryAssumption DEF JobBytes, Addr, DriverTypeOK, FlashCtxType
    <3>3. Multiple(0)
      <4>1. 0 \in Nat /\ 0 = 0 * WORD
        BY GeometryAssumption
      <4> QED
        BY <4>1, Zenon DEF Multiple
    <3>4. WordByWord'
      <4>1. flash_ctx'.offset <= flash_ctx'.length /\ flash_ctx'.state # "WRITE_BUSY"
        BY <2>3, <1>1 DEF DriverTypeOK, FlashCtxType
      <4>2. Multiple(flash_ctx.offset)' /\ Multiple(flash_ctx.addr)'
        BY <2>3, <3>3 DEF Multiple
      <4> QED
        BY <2>3, <3>1, <3>2, <4>1, <4>2 DEF WordByWord, WBNE
    <3>5. InFlight'
      BY <2>3, <3>1 DEF InFlight, WritesNow
    <3> QED
      BY <1>1, <3>4, <3>5
  <2> QED
    BY <1>5, <2>1, <2>2, <2>3, RequestTaken
<1>6. CASE flash_process
  <2>1. ~bank.LOCK
    BY <1>6 DEF IdleWhenLocked, flash_process, StartErase, FinishErase, WriteChunk, ForceWrite,
                FinishWrite, Writing
  <2>2. WordByWord'
    BY <1>6, <2>1, FlashProcessWordByWord DEF DriverTypeOK
  <2>3. CASE StartErase
    <3>1. /\ bank'.running = [a \in Sector(flash_ctx.addr) |-> Erased]
          /\ flash_ctx'.state = "ERASE_BUSY" /\ flash_ctx'.addr = flash_ctx.addr
      BY <2>1, <2>3, StartEraseEffect DEF StartErase, DriverTypeOK, FlashCtxType
    <3>2. InFlight'
      BY <3>1 DEF InFlight, Lands, WritesNow, Sector, SectorAddrs, addr_to_sector, Addr
    <3> QED
      BY <1>1, <2>2, <3>2
  <2>4. CASE FinishErase \/ FinishWrite
    BY <1>1, <1>2, <2>4, FinishEffect DEF DriverTypeOK, FlashCtxType
  <2> QED
    BY <1>1, <1>6, <2>1, <2>2, <2>3, <2>4, WriteChunkKeepsJob, ForceWriteKeepsJob
    DEF flash_process
<1>7. CASE Complete
  <2>1. InFlight' /\ flash_ctx' = flash_ctx /\ bank'.wb = bank.wb /\ bank'.PG = bank.PG
    BY <1>7, CompletionKeepsJob DEF Complete, HwDone, DriverTypeOK, IsBank
  <2>2. WordByWord'
    BY <2>1 DEF WordByWord, WritesNow, JobBytes, Multiple, WBNE, WordOf, Addr
  <2> QED
    BY <1>1, <2>1, <2>2
<1>8. CASE PowerCut
  BY <1>1, <1>2, <1>8 DEF PowerCut, ZeroFlashCtx
<1> QED
  BY <1>1, <1>2, <1>3, <1>4, <1>5, <1>6, <1>7, <1>8 DEF Next, vars

\* The abstract job, state by state.
JobShape ==
  /\ flash_ctx.state = "IDLE" => JobBar = Empty
  /\ ErasesNow => JobBar = [a \in Sector(flash_ctx.addr) |-> Erased]
  /\ WritesNow => JobBar = [a \in Words(JobBytes) |-> WriteLeaves(a)]

\* What a write leaves are contents of the memory.
LeavesCells == \A a \in Addr : WriteLeaves(a) \in Cell

LEMMA JobIs == DriverTypeOK /\ WordByWord => JobShape /\ LeavesCells
<1> SUFFICES ASSUME DriverTypeOK, WordByWord PROVE JobShape /\ LeavesCells
  OBVIOUS
<1>1. flash_ctx.state = "IDLE" => JobBar = Empty
  BY DEF JobBar
<1>2. ErasesNow => JobBar = [a \in Sector(flash_ctx.addr) |-> Erased]
  BY DEF JobBar, ErasesNow, Sector
<1>3. WritesNow => JobBar = [a \in Words(JobBytes) |-> WriteLeaves(a)]
  <2> SUFFICES ASSUME WritesNow PROVE JobBar = [a \in Words(JobBytes) |-> WriteLeaves(a)]
    OBVIOUS
  <2>1. JobBytes \subseteq Addr
    BY DEF WordByWord
  <2>2. {c \in Addr : Requested(c)} = JobBytes
    BY <2>1, JobFacts
  <2>3. UNION {WordOf(b) : b \in {c \in Addr : Requested(c)}} = Words(JobBytes)
    BY <2>2 DEF Words
  <2>4. JobBar = [a \in UNION {WordOf(b) : b \in {c \in Addr : Requested(c)}} |-> WriteLeaves(a)]
    BY DEF JobBar, WritesNow
  <2> QED
    BY <2>3, <2>4
<1>4. ASSUME NEW a \in Addr PROVE WriteLeaves(a) \in Cell
  <2>1. Requested(a) => <<flash_ctx.buffer, a - flash_ctx.addr>> \in Cell
    BY GeometryAssumption DEF Requested, Cell, Addr, DriverTypeOK, FlashCtxType
  <2>2. bank.cells[a] \in Cell /\ (a \in DOMAIN bank.running => bank.running[a] \in Cell)
    BY DEF DriverTypeOK, IsBank, IsImage
  <2> QED
    BY <2>1, <2>2 DEF WriteLeaves, Cell
<1> QED
  BY <1>1, <1>2, <1>3, <1>4 DEF JobShape, LeavesCells

\* The same request, leaving the same: the same abstract job.
LEMMA SameJob ==
  ASSUME JobShape, JobShape',
         \/ flash_ctx.state = "IDLE" /\ flash_ctx'.state = "IDLE"
         \/ ErasesNow /\ ErasesNow' /\ flash_ctx'.addr = flash_ctx.addr
         \/ /\ WritesNow /\ WritesNow' /\ JobBytes' = JobBytes
            /\ \A a \in Addr : WriteLeaves(a)' = WriteLeaves(a)
  PROVE  JobBar' = JobBar
<1>1. CASE flash_ctx.state = "IDLE" /\ flash_ctx'.state = "IDLE"
  BY <1>1 DEF JobShape, Empty
<1>2. CASE ErasesNow /\ ErasesNow' /\ flash_ctx'.addr = flash_ctx.addr
  <2>1. Sector(flash_ctx.addr)' = Sector(flash_ctx.addr)
    BY <1>2 DEF Sector, SectorAddrs, addr_to_sector, Addr
  <2> QED
    BY <1>2, <2>1 DEF JobShape
<1>3. CASE /\ WritesNow /\ WritesNow' /\ JobBytes' = JobBytes
           /\ \A a \in Addr : WriteLeaves(a)' = WriteLeaves(a)
  <2>1. Words(JobBytes)' = Words(JobBytes) /\ Words(JobBytes) \subseteq Addr
    BY <1>3 DEF Words, WordOf, Addr
  <2> QED
    BY <1>3, <2>1 DEF JobShape
<1> QED
  BY <1>1, <1>2, <1>3

\* What the command in flight changes is part of the job, and changes to what
\* the job is to leave.
LEMMA RunningIsJob ==
  ASSUME DriverInv, JobShape, DOMAIN bank.running # {}
  PROVE  /\ DOMAIN bank.running \subseteq DOMAIN JobBar
         /\ \A a \in DOMAIN bank.running : JobBar[a] = bank.running[a]
<1> USE DEF DriverInv, DriverTypeOK
<1>1. flash_ctx.state \in {"ERASE_BUSY", "WRITE_BUSY"}
  BY DEF Settled, QW, FlashCtxType, OpState
<1>2. DOMAIN bank.running \subseteq Addr
  BY DEF IsBank, IsImage
<1>3. CASE flash_ctx.state = "ERASE_BUSY"
  BY <1>3 DEF InFlight, Lands, JobShape, ErasesNow
<1>4. CASE flash_ctx.state = "WRITE_BUSY"
  <2>1. WritesNow
    BY <1>4 DEF WritesNow
  <2>2. JobBar = [a \in Words(JobBytes) |-> WriteLeaves(a)]
    BY <2>1 DEF JobShape
  <2>3. \A a \in DOMAIN bank.running : a \in Words(JobBytes) /\ WriteLeaves(a) = bank.running[a]
    BY <2>1 DEF InFlight, WriteLeaves
  <2> QED
    BY <2>2, <2>3
<1> QED
  BY <1>1, <1>3, <1>4

\* The erase command clears the sector the address is in.
LEMMA OwnSector ==
  ASSUME NEW a \in Addr
  PROVE  addr_to_sector(a) = a \div SECTOR
<1> DEFINE q == a \div SECTOR
           d == q - NSECT
<1>1. SECTOR \in Nat \ {0} /\ NSECT \in Nat \ {0} /\ a \in Nat /\ a < NSECT * SECTOR
  BY GeometryAssumption DEF Addr
<1>2. q \in Nat /\ SECTOR * q <= a
  BY <1>1
<1> HIDE DEF q
<1>3. d \in Int /\ SECTOR * q = NSECT * SECTOR + SECTOR * d
  BY <1>1, <1>2
<1>4. d >= 0 => SECTOR * d >= 0
  BY <1>1, <1>3
<1>5. q < NSECT
  BY <1>1, <1>2, <1>3, <1>4
<1>6. q % NSECT = q
  BY <1>1, <1>2, <1>5
<1> QED
  BY <1>6 DEF addr_to_sector, q

\* A request that is taken starts the job, one that is not changes nothing.
LEMMA RequestStarts ==
  ASSUME DriverInv, DriverInv', JobShape, JobShape', LeavesCells', RequestErase \/ RequestWrite,
         flash_ctx' # flash_ctx
  PROVE  Abstract!Start
<1> USE DEF DriverInv, DriverTypeOK
<1>1. /\ bank' = bank /\ flash_ctx.state = "IDLE"
      /\ \/ flash_ctx'.state = "ERASE_PENDING" /\ flash_ctx'.addr \in Addr
         \/ /\ flash_ctx'.state = "WRITE_PENDING" /\ flash_ctx'.length > 0
            /\ flash_ctx'.addr + flash_ctx'.length - 1 \in Addr
  BY RequestTaken
<1>2. JobBar = Empty
  BY <1>1 DEF JobShape
<1>3. \E range \in (SUBSET Addr) \ {{}} : JobBar' \in [range -> Cell]
  <2>1. CASE flash_ctx'.state = "ERASE_PENDING" /\ flash_ctx'.addr \in Addr
    <3>1. JobBar' = [a \in Sector(flash_ctx'.addr) |-> Erased]
      BY <2>1 DEF JobShape, ErasesNow, Sector, SectorAddrs, addr_to_sector, Addr
    <3>2. Sector(flash_ctx'.addr) \subseteq Addr /\ flash_ctx'.addr \in Sector(flash_ctx'.addr)
      BY <2>1, OwnSector DEF Sector, SectorAddrs
    <3> QED
      BY <3>1, <3>2 DEF Cell
  <2>2. CASE /\ flash_ctx'.state = "WRITE_PENDING" /\ flash_ctx'.length > 0
             /\ flash_ctx'.addr + flash_ctx'.length - 1 \in Addr
    <3>1. JobBar' = [a \in Words(JobBytes)' |-> WriteLeaves(a)']
      BY <2>2 DEF JobShape, WritesNow
    <3>2. Words(JobBytes)' \subseteq Addr
      BY DEF Words, WordOf
    <3>3. flash_ctx'.addr \in Addr /\ flash_ctx'.addr \in JobBytes'
      BY <2>2, GeometryAssumption DEF Addr, FlashCtxType, JobBytes
    <3>4. flash_ctx'.addr \in Words(JobBytes)'
      BY <3>3 DEF Words, WordOf, Addr
    <3>5. \A a \in Addr : WriteLeaves(a)' \in Cell
      BY DEF LeavesCells, Addr
    <3> QED
      BY <3>1, <3>2, <3>4, <3>5
  <2> QED
    BY <1>1, <2>1, <2>2
<1> QED
  BY <1>1, <1>2, <1>3 DEF Abstract!Start, Abstract!Busy, Abstract!Range, Empty

\* When flash_process goes idle, all of the job is in the memory.
LEMMA FinishIsFinish ==
  ASSUME DriverInv, JobShape, JobShape', FinishErase \/ FinishWrite
  PROVE  Abstract!Finish \/ UNCHANGED Abstract!vars
<1> USE DEF DriverInv, DriverTypeOK
<1>1. /\ bank'.cells = bank.cells /\ DOMAIN bank.running = {}
      /\ flash_ctx'.state = "IDLE"
  BY FinishEffect DEF QW, FlashCtxType
<1>2. JobBar' = Empty
  BY <1>1 DEF JobShape
<1>3. \A a \in DOMAIN JobBar : bank.cells[a] = JobBar[a]
  <2>1. CASE FinishErase
    BY <1>1, <2>1 DEF FinishErase, JobShape, ErasesNow, InFlight, Lands
  <2>2. CASE FinishWrite
    <3>1. /\ WritesNow /\ flash_ctx.offset >= flash_ctx.length /\ DOMAIN bank.wb = {}
          /\ JobBytes \subseteq Addr
      BY <2>2 DEF FinishWrite, Writing, WritesNow, WBNE, WordByWord
    <3>2. JobBar = [a \in Words(JobBytes) |-> WriteLeaves(a)] /\ Words(JobBytes) \subseteq Addr
      BY <3>1 DEF JobShape, Words, WordOf
    <3>3. ASSUME NEW a \in Addr PROVE ~Waiting(a)
      <4>1. \A b \in Addr : ~(Requested(b) /\ b - flash_ctx.addr >= flash_ctx.offset)
        BY <3>1, GeometryAssumption DEF Requested, FlashCtxType, Addr
      <4> QED
        BY <3>1, <4>1 DEF Waiting, WordOf
    <3> QED
      BY <1>1, <3>2, <3>3 DEF WriteLeaves
  <2> QED
    BY <2>1, <2>2
<1>4. CASE DOMAIN JobBar = {}
  <2>1. JobBar = Empty
    <3>1. CASE ErasesNow
      BY <1>4, <3>1 DEF JobShape, Empty
    <3>2. CASE WritesNow
      BY <1>4, <3>2 DEF JobShape, Empty
    <3> QED
      BY <3>1, <3>2 DEF FinishErase, FinishWrite, Writing, ErasesNow, WritesNow
  <2> QED
    BY <1>1, <1>2, <2>1 DEF Abstract!vars
<1>5. CASE DOMAIN JobBar # {}
  <2>1. JobBar' = Abstract!NoJob
    BY <1>2 DEF Abstract!NoJob, Empty
  <2> QED
    BY <1>1, <1>3, <1>5, <2>1 DEF Abstract!Finish, Abstract!Busy, Abstract!Range
<1> QED
  BY <1>4, <1>5

\* Every step is a step of the promise, or invisible in it.
LEMMA StepRefines ==
  ASSUME Faults = FALSE, DriverInv, DriverInv', JobShape, JobShape', LeavesCells', [Next]_vars
  PROVE  Abstract!Next \/ UNCHANGED Abstract!vars
<1> USE DEF DriverInv, DriverTypeOK
<1>1. ASSUME bank'.cells = bank.cells, JobBar' = JobBar PROVE UNCHANGED Abstract!vars
  BY <1>1 DEF Abstract!vars
<1>2. CASE Open
  <2>1. flash_ctx.state = "IDLE" /\ flash_ctx'.state = "IDLE" /\ bank'.cells = bank.cells
    BY <1>2 DEF Open, flash_init, IdleWhenLocked, FlashCtxType, IsBank
  <2> QED
    BY <1>1, <2>1, SameJob
<1>3. CASE UNCHANGED <<bank, flash_ctx>>
  <2>1. JobBytes' = JobBytes /\ (WritesNow' <=> WritesNow) /\ (ErasesNow' <=> ErasesNow)
    BY <1>3 DEF JobBytes, WritesNow, ErasesNow
  <2>2. ASSUME NEW a \in Addr PROVE WriteLeaves(a)' = WriteLeaves(a)
    <3>1. ASSUME NEW b PROVE (Requested(b)' <=> Requested(b)) /\ WordOf(b)' = WordOf(b)
      BY <1>3 DEF Requested, WordOf, Addr
    <3>2. Waiting(a)' <=> Waiting(a)
      BY <1>3, <3>1 DEF Waiting
    <3>3. Blank(a)' <=> Blank(a)
      BY <1>3, <3>1 DEF Blank
    <3> QED
      BY <1>3, <3>1, <3>2, <3>3 DEF WriteLeaves
  <2>3. flash_ctx.state = "IDLE" \/ ErasesNow \/ WritesNow
    BY DEF FlashCtxType, OpState, ErasesNow, WritesNow
  <2> QED
    BY <1>1, <1>3, <2>1, <2>2, <2>3, SameJob
<1>4. CASE RequestErase \/ RequestWrite
  BY <1>3, <1>4, RequestStarts, RequestTaken DEF Abstract!Next
<1>5. CASE flash_process
  <2>1. ~bank.LOCK
    BY <1>5 DEF IdleWhenLocked, flash_process, StartErase, FinishErase, WriteChunk, ForceWrite,
                FinishWrite, Writing
  <2>2. CASE StartErase
    <3>1. /\ bank'.cells = bank.cells /\ ErasesNow /\ ErasesNow'
          /\ flash_ctx'.addr = flash_ctx.addr
      BY <2>1, <2>2, StartEraseEffect DEF StartErase, ErasesNow, FlashCtxType
    <3> QED
      BY <1>1, <3>1, SameJob
  <2>3. CASE WriteChunk \/ ForceWrite
    BY <1>1, <2>1, <2>3, WriteChunkKeepsJob, ForceWriteKeepsJob, SameJob
  <2>4. CASE FinishErase \/ FinishWrite
    BY <2>4, FinishIsFinish DEF Abstract!Next
  <2> QED
    BY <1>5, <2>2, <2>3, <2>4 DEF flash_process
<1>6. CASE Complete
  <2> DEFINE S == DOMAIN bank.running
  <2>1. S # {} /\ flash_ctx' = flash_ctx
    BY <1>6 DEF Complete, HwDone, QW
  <2>2. S \subseteq DOMAIN JobBar /\ \A a \in S : JobBar[a] = bank.running[a]
    BY <2>1, RunningIsJob
  <2>3. bank'.cells = [a \in Addr |-> IF a \in S THEN JobBar[a] ELSE bank.cells[a]]
    <3>1. bank'.cells = Over(bank.running, bank.cells) /\ DOMAIN bank.cells = Addr
      BY <1>6 DEF Complete, HwDone, IsBank
    <3> QED
      BY <2>2, <3>1 DEF Over
  <2>4. JobBar' = JobBar
    <3>1. CASE WritesNow
      <4>1. WritesNow' /\ JobBytes' = JobBytes
        BY <2>1, <3>1 DEF WritesNow, JobBytes
      <4> QED
        BY <1>6, <3>1, <4>1, CompletionKeepsJob, SameJob
    <3>2. CASE ErasesNow
      <4>1. ErasesNow' /\ flash_ctx'.addr = flash_ctx.addr
        BY <2>1, <3>2 DEF ErasesNow
      <4> QED
        BY <3>2, <4>1, SameJob
    <3>3. CASE flash_ctx.state = "IDLE"
      BY <2>1, <3>3, SameJob
    <3> QED
      BY <3>1, <3>2, <3>3 DEF FlashCtxType, OpState, ErasesNow, WritesNow
  <2>5. Abstract!Work
    <3> HIDE DEF S
    <3> QED
      BY <2>2, <2>3, <2>4 DEF Abstract!Work, Abstract!Update, Abstract!Range
  <2> QED
    BY <2>5 DEF Abstract!Next
<1>7. CASE PowerCut
  <2> DEFINE S == DOMAIN bank.running
             lost == [a \in S |-> Junk]
  <2>1. bank' = ResetBank(Over(lost, bank.cells)) /\ flash_ctx'.state = "IDLE"
    BY <1>7 DEF PowerCut, CutOff, ZeroFlashCtx
  <2>2. S \subseteq DOMAIN JobBar
    BY RunningIsJob
  <2>3. bank'.cells = [a \in Addr |-> IF a \in S THEN lost[a] ELSE bank.cells[a]]
    <3>1. DOMAIN bank.cells = Addr /\ DOMAIN lost = S
      BY DEF IsBank
    <3> QED
      BY <2>1, <3>1 DEF ResetBank, Over
  <2>4. JobBar' = Abstract!NoJob
    BY <2>1 DEF JobShape, Abstract!NoJob, Empty
  <2>5. Abstract!PowerLoss
    BY <2>2, <2>3, <2>4 DEF Abstract!PowerLoss, Abstract!Update, Abstract!Range
  <2> QED
    BY <2>5 DEF Abstract!Next
<1> QED
  BY <1>2, <1>3, <1>4, <1>5, <1>6, <1>7 DEF Next, vars

\* On hardware that refuses nothing, the driver keeps the promise of its header
\* (the memory changes only where a job was taken and only to what was asked;
\* "not busy" comes when all of it is in the memory, and not before; a power cut
\* may spoil only what was being changed), for every geometry and any sequence
\* of requests.  The fairness of AsyncFlash is left to the run.
THEOREM DriverKeepsItsPromise ==
  ASSUME Faults = FALSE
  PROVE  Safety => Abstract!Safety
<1>1. Init => DriverInv
  <2> SUFFICES ASSUME Init PROVE DriverInv
    OBVIOUS
  <2>1. flash_ctx.state = "IDLE"
    BY DEF Init, ZeroFlashCtx
  <2> QED
    BY <2>1, DriverInit DEF DriverInv, WordByWord, InFlight, WritesNow
<1>2. Init => Abstract!Init
  <2> SUFFICES ASSUME Init PROVE Abstract!Init
    OBVIOUS
  <2>1. bank.cells \in [Addr -> Cell] /\ JobBar = Empty
    BY <1>1, JobIs DEF DriverInv, DriverTypeOK, IsBank, JobShape, Init, ZeroFlashCtx
  <2> QED
    BY <2>1 DEF Abstract!Init, Abstract!NoJob, Empty
<1>3. DriverInv /\ [Next]_vars => DriverInv'
  BY DriverStepInv
<1>4. DriverInv => JobShape /\ LeavesCells
  BY JobIs DEF DriverInv
<1>5. /\ DriverInv /\ DriverInv' /\ JobShape /\ JobShape' /\ LeavesCells' /\ [Next]_vars
        => [Abstract!Next]_(Abstract!vars)
  BY StepRefines
<1> QED
  BY <1>1, <1>2, <1>3, <1>4, <1>5, PTL DEF Safety, Abstract!Safety
============================================================================
