--------------------------- MODULE DfuFlashProofs ---------------------------
(***************************************************************************)
(* The flash driver and its bank, for every geometry: whatever calls the   *)
(* driver, its variables keep their types, each state of it leaves the     *)
(* hardware settled, and on hardware that refuses nothing a write goes     *)
(* word by word.  DfuDeviceProofs and FlashDriverProofs rest on this.      *)
(***************************************************************************)
EXTENDS DfuFlash, TLAPS

----------------------------------------------------------------------------
(* What the hardware makes of an access is a bank.                         *)

\* No contents are contents.
LEMMA EmptyIsImage == IsImage(Empty)
BY DEF IsImage, Empty

\* A reset leaves a bank that holds the contents it is given.
LEMMA ResetBankIsBank ==
  ASSUME NEW c \in [Addr -> Cell]
  PROVE  IsBank(ResetBank(c))
BY EmptyIsImage DEF IsBank, ResetBank

\* Replacing part of the contents.
LEMMA OverIsContents ==
  ASSUME NEW f, IsImage(f), NEW g \in [Addr -> Cell]
  PROVE  Over(f, g) \in [Addr -> Cell]
BY DEF IsImage, Over

\* Writing the control bits leaves a bank, and the command in flight.
LEMMA SetCR2IsBank ==
  ASSUME NEW b, IsBank(b), NEW pg \in BOOLEAN, NEW ser \in BOOLEAN
  PROVE  IsBank(SetCR2(b, pg, ser)) /\ SetCR2(b, pg, ser).running = b.running
BY DEF IsBank, SetCR2

\* Launching the write buffer starts a program operation on flash words of the
\* bank and leaves the buffer empty.
LEMMA ProgramIsBank ==
  ASSUME NEW b, IsBank(b)
  PROVE  IsBank(Program(b))
<1> DEFINE word == UNION {WordOf(a) : a \in DOMAIN b.wb}
           left(a) == IF ~(\A x \in word : b.cells[x] = Erased) THEN Junk
                      ELSE IF a \in DOMAIN b.wb THEN b.wb[a] ELSE Pad
           run == [a \in word |-> left(a)]
<1>1. word \subseteq Addr
  BY DEF WordOf
<1>2. \A a \in word : left(a) \in Cell
  BY DEF IsBank, IsImage, Cell
<1>3. IsImage(run)
  BY <1>1, <1>2 DEF IsImage
<1>4. Program(b) = [b EXCEPT !.wb = Empty, !.running = run]
  BY DEF Program
<1> HIDE DEF run
<1> QED
  BY <1>3, <1>4, EmptyIsImage DEF IsBank

\* A refused or accepted store, whatever the state of CR2, gives a bank.
LEMMA StoresAreBanks ==
  ASSUME NEW b, IsBank(b), NEW data, IsImage(data), NEW c \in Stores(b, data)
  PROVE  IsBank(c)
<1> DEFINE wb == [a \in DOMAIN b.wb \cup DOMAIN data |->
                    IF a \in DOMAIN data THEN data[a] ELSE b.wb[a]]
           filled == [b EXCEPT !.wb = wb]
<1>1. IsImage(wb)
  BY DEF IsBank, IsImage
<1>2. c = b \/ c = filled \/ c = Program(filled)
  BY DEF Stores, Refusals
<1>3. IsBank(filled)
  <2> HIDE DEF wb
  <2> QED BY <1>1 DEF IsBank
<1> QED
  <2> HIDE DEF filled
  <2> QED BY <1>2, <1>3, ProgramIsBank

\* FW leaves a bank, whether it is refused or not.
LEMMA ForceWritesAreBanks ==
  ASSUME NEW b, IsBank(b), NEW c \in ForceWrites(b)
  PROVE  IsBank(c)
<1>1. c = b \/ c = Program(b) \/ c = [b EXCEPT !.wb = Empty]
  BY DEF ForceWrites, Refusals
<1>2. IsBank([b EXCEPT !.wb = Empty])
  BY EmptyIsImage DEF IsBank
<1> QED
  BY <1>1, <1>2, ProgramIsBank

\* START leaves a bank, whether it is refused or not.
LEMMA ErasesAreBanks ==
  ASSUME NEW b, IsBank(b), NEW s, NEW c \in Erases(b, s)
  PROVE  IsBank(c)
<1> DEFINE run == [a \in SectorAddrs(s) |-> Erased]
<1>1. c = b \/ c = [b EXCEPT !.running = run]
  BY DEF Erases, Refusals
<1>2. IsImage(run)
  BY DEF IsImage, SectorAddrs, Cell
<1> HIDE DEF run
<1> QED
  BY <1>1, <1>2 DEF IsBank

\* Completion and a cut leave a bank.
LEMMA HwDoneIsBank ==
  ASSUME IsBank(bank), HwDone
  PROVE  IsBank(bank')
<1>1. Over(bank.running, bank.cells) \in [Addr -> Cell]
  BY OverIsContents DEF IsBank
<1>2. bank' = [bank EXCEPT !.cells = Over(bank.running, bank.cells), !.running = Empty]
  BY DEF HwDone
<1> QED
  BY <1>1, <1>2, EmptyIsImage DEF IsBank

\* A power cut leaves a bank.
LEMMA CutOffIsBank ==
  ASSUME IsBank(bank), CutOff
  PROVE  IsBank(bank')
<1> DEFINE lost == [a \in DOMAIN bank.running |-> Junk]
<1>1. IsImage(lost)
  BY DEF IsBank, IsImage, Cell
<1>2. Over(lost, bank.cells) \in [Addr -> Cell]
  BY <1>1, OverIsContents DEF IsBank
<1> QED
  BY <1>2, ResetBankIsBank DEF CutOff

----------------------------------------------------------------------------
(* Types of the driver.                                                    *)

\* What static storage holds after reset is well typed.
LEMMA ZeroFlashCtxType == ZeroFlashCtx \in FlashCtxType /\ ZeroFlashCtx.buffer \in Payload
<1>1. (CHOOSE p \in Payload : TRUE) \in Payload
  BY PayloadAssumption
<1> QED
  BY <1>1 DEF ZeroFlashCtx, FlashCtxType, OpState

\* flash_init keeps the types and leaves the command in flight alone.
LEMMA FlashInitType ==
  ASSUME IsBank(bank), flash_ctx \in FlashCtxType, flash_init
  PROVE  /\ IsBank(bank') /\ bank'.running = bank.running
         /\ flash_ctx' \in FlashCtxType
BY DEF IsBank, FlashCtxType, OpState, flash_init

\* The bytes one call of flash_process stores lie inside the bank.
LEMMA ChunkIsImage ==
  ASSUME NEW ctx \in FlashCtxType
  PROVE  IsImage(Chunk(ctx))
<1> DEFINE first == ctx.addr + ctx.offset
           n == IF ctx.length - ctx.offset >= WORD THEN WORD ELSE ctx.length - ctx.offset
           S == Addr \cap (first .. first + n - 1)
<1>1. ASSUME NEW a \in S PROVE <<ctx.buffer, a - ctx.addr>> \in Cell
  <2>1. ctx.addr \in Nat /\ ctx.offset \in Nat /\ ctx.buffer \in Payload /\ a \in Int /\ a >= first
    BY <1>1, GeometryAssumption DEF FlashCtxType, Addr
  <2>2. a - ctx.addr \in Nat
    BY <2>1
  <2> QED
    BY <2>1, <2>2 DEF Cell
<1>2. Chunk(ctx) = [a \in S |-> <<ctx.buffer, a - ctx.addr>>]
  BY DEF Chunk
<1> HIDE DEF S
<1>3. S \subseteq Addr
  BY DEF S
<1> QED
  BY <1>1, <1>2, <1>3 DEF IsImage

\* The bank the write path works on.
LEMMA WriteBankType ==
  ASSUME IsBank(bank)
  PROVE  IsBank(WriteBank) /\ WriteBank.running = bank.running
BY SetCR2IsBank DEF WriteBank, IsBank

\* Every path of flash_process keeps the types, and starts from an idle queue.
LEMMA FlashProcessType ==
  ASSUME IsBank(bank), flash_ctx \in FlashCtxType, flash_process
  PROVE  IsBank(bank') /\ flash_ctx' \in FlashCtxType /\ ~QW(bank)
<1> USE DEF flash_op_complete
<1>1. CASE StartErase
  <2>1. IsBank(SetCR2(bank, bank.PG, TRUE))
    BY SetCR2IsBank DEF IsBank
  <2> QED
    BY <1>1, <2>1, ErasesAreBanks DEF StartErase, FlashCtxType, OpState
<1>2. CASE FinishErase
  <2>1. IsBank(SetCR2(bank, bank.PG, FALSE))
    BY SetCR2IsBank DEF IsBank
  <2> QED
    BY <1>2, <2>1 DEF FinishErase, FlashCtxType, OpState
<1>3. CASE WriteChunk
  <2>1. IsBank(bank')
    BY <1>3, WriteBankType, ChunkIsImage, StoresAreBanks DEF WriteChunk
  <2>2. NextOffset(flash_ctx) \in Nat
    BY GeometryAssumption DEF NextOffset, FlashCtxType
  <2> QED
    BY <1>3, <2>1, <2>2 DEF WriteChunk, Writing, FlashCtxType, OpState
<1>4. CASE ForceWrite
  <2>1. IsBank(bank')
    BY <1>4, WriteBankType, ForceWritesAreBanks DEF ForceWrite
  <2> QED
    BY <1>4, <2>1 DEF ForceWrite, Writing, FlashCtxType, OpState
<1>5. CASE FinishWrite
  <2>1. IsBank(bank')
    BY <1>5, WriteBankType, SetCR2IsBank DEF FinishWrite, IsBank
  <2> QED
    BY <1>5, <2>1 DEF FinishWrite, Writing, FlashCtxType, OpState
<1> QED
  BY <1>1, <1>2, <1>3, <1>4, <1>5 DEF flash_process

----------------------------------------------------------------------------
(* The driver rests on quiet hardware.                                     *)

\* What flash_process has left in the hardware in each of its states.
Settled ==
  /\ bank.LOCK => ~bank.PG /\ ~bank.SER
  /\ flash_ctx.state \in {"IDLE", "ERASE_PENDING", "WRITE_PENDING"} =>
       ~QW(bank) /\ ~WBNE(bank) /\ ~bank.PG /\ ~bank.SER
  /\ flash_ctx.state = "ERASE_BUSY" => ~WBNE(bank) /\ ~bank.PG
  /\ flash_ctx.state = "WRITE_BUSY" => ~bank.SER

SameControl(b, c) == c.LOCK = b.LOCK /\ c.PG = b.PG /\ c.SER = b.SER

\* Stores and forced writes leave the control bits as they are.
LEMMA ProgrammingKeepsControl ==
  ASSUME NEW b, IsBank(b), NEW data, NEW c \in Stores(b, data) \cup ForceWrites(b)
  PROVE  SameControl(b, c)
<1> DEFINE wb == [a \in DOMAIN b.wb \cup DOMAIN data |->
                    IF a \in DOMAIN data THEN data[a] ELSE b.wb[a]]
           filled == [b EXCEPT !.wb = wb]
<1>1. c \in {b, filled, Program(filled), Program(b), [b EXCEPT !.wb = Empty]}
  BY DEF Stores, ForceWrites, Refusals
<1>2. ASSUME NEW w PROVE SameControl(b, [b EXCEPT !.wb = w])
  BY DEF IsBank, SameControl
<1>3. ASSUME NEW w PROVE SameControl(b, Program([b EXCEPT !.wb = w]))
  BY DEF IsBank, Program, SameControl
<1>4. SameControl(b, b) /\ SameControl(b, Program(b))
  BY DEF IsBank, Program, SameControl
<1>5. SameControl(b, filled) /\ SameControl(b, Program(filled))
  BY <1>2, <1>3
<1> HIDE DEF filled
<1> QED
  BY <1>1, <1>2, <1>4, <1>5

\* Every path of flash_process leaves the hardware settled for its new state.
LEMMA FlashProcessSettles ==
  ASSUME IsBank(bank), flash_ctx \in FlashCtxType, Settled, flash_process
  PROVE  Settled'
<1> USE DEF Settled, flash_op_complete, FlashCtxType, OpState
<1>1. CASE StartErase
  <2> DEFINE b == SetCR2(bank, bank.PG, TRUE)
  <2>1. /\ b.wb = bank.wb /\ b.PG = bank.PG /\ b.LOCK = bank.LOCK
        /\ b.LOCK => b.SER = bank.SER
    BY DEF SetCR2, IsBank
  <2>2. bank'.wb = b.wb /\ SameControl(b, bank')
    <3>1. IsBank(b)
      BY SetCR2IsBank DEF IsBank
    <3>2. bank' = b \/ bank' = [b EXCEPT !.running =
                                 [a \in SectorAddrs(addr_to_sector(flash_ctx.addr)) |-> Erased]]
      BY <1>1 DEF StartErase, Erases, Refusals
    <3> HIDE DEF b
    <3> QED
      BY <3>1, <3>2 DEF IsBank, SameControl
  <2> HIDE DEF b
  <2> QED
    BY <1>1, <2>1, <2>2 DEF StartErase, WBNE, SameControl
<1>2. CASE FinishErase
  BY <1>2 DEF FinishErase, SetCR2, IsBank, QW, WBNE
<1>3. CASE WriteChunk \/ ForceWrite
  <2>1. /\ WriteBank.SER = bank.SER /\ WriteBank.LOCK = bank.LOCK
        /\ bank.LOCK => WriteBank.PG = bank.PG
    BY DEF WriteBank, SetCR2, IsBank
  <2>2. SameControl(WriteBank, bank')
    BY <1>3, WriteBankType, ProgrammingKeepsControl DEF WriteChunk, ForceWrite
  <2>3. flash_ctx'.state = "WRITE_BUSY" /\ flash_ctx.state \in {"WRITE_PENDING", "WRITE_BUSY"}
    BY <1>3 DEF WriteChunk, ForceWrite, Writing
  <2> QED
    BY <2>1, <2>2, <2>3 DEF SameControl
<1>4. CASE FinishWrite
  BY <1>4 DEF FinishWrite, Writing, WriteBank, SetCR2, IsBank, QW, WBNE
<1> QED
  BY <1>1, <1>2, <1>3, <1>4 DEF flash_process

\* flash_process leaves CR2 locked or unlocked as it is.
LEMMA FlashProcessKeepsLock ==
  ASSUME IsBank(bank), flash_ctx \in FlashCtxType, flash_process
  PROVE  bank'.LOCK = bank.LOCK
<1>1. CASE StartErase
  <2> DEFINE b == SetCR2(bank, bank.PG, TRUE)
             run == [a \in SectorAddrs(addr_to_sector(flash_ctx.addr)) |-> Erased]
  <2>1. IsBank(b) /\ b.LOCK = bank.LOCK
    BY SetCR2IsBank DEF IsBank, SetCR2
  <2>2. bank' = b \/ bank' = [b EXCEPT !.running = run]
    BY <1>1 DEF StartErase, Erases, Refusals
  <2> HIDE DEF b, run
  <2> QED
    BY <2>1, <2>2 DEF IsBank
<1>2. CASE FinishErase
  BY <1>2 DEF FinishErase, SetCR2, IsBank
<1>3. CASE WriteChunk \/ ForceWrite
  <2>1. WriteBank.LOCK = bank.LOCK
    BY DEF WriteBank, SetCR2, IsBank
  <2>2. SameControl(WriteBank, bank')
    BY <1>3, WriteBankType, ProgrammingKeepsControl DEF WriteChunk, ForceWrite
  <2> QED
    BY <2>1, <2>2 DEF SameControl
<1>4. CASE FinishWrite
  BY <1>4 DEF FinishWrite, WriteBank, SetCR2, IsBank
<1> QED
  BY <1>1, <1>2, <1>3, <1>4 DEF flash_process

----------------------------------------------------------------------------
(* The job winds down.                                                    *)

\* What makes every call count: a write knows its end, and finds PG set.
Metered ==
  /\ flash_ctx.offset <= flash_ctx.length
  /\ flash_ctx.state = "WRITE_BUSY" => bank.PG
  /\ flash_is_busy => ~bank.LOCK

\* No less is left than the command in flight.
LEMMA LeftIsNat ==
  ASSUME flash_ctx \in FlashCtxType, Metered
  PROVE  Left \in Nat /\ Bit(QW(bank)) \in 0 .. Left
<1> USE DEF FlashCtxType
<1>1. Bit(QW(bank)) \in {0, 1} /\ Bit(WBNE(bank)) \in {0, 1}
  BY DEF Bit
<1>2. flash_ctx.length - flash_ctx.offset \in Nat
  BY DEF Metered
<1> QED
  BY <1>1, <1>2 DEF Left

\* A call that does not end the write stores at least a byte of it, or forces the
\* buffer out.
LEMMA WritePathWindsDown ==
  ASSUME IsBank(bank), flash_ctx \in FlashCtxType, Metered, WriteChunk \/ ForceWrite
  PROVE  Metered' /\ Left' \in 0 .. Left - 1
<1> USE DEF FlashCtxType
<1>1. /\ ~QW(bank) /\ flash_ctx.state \in {"WRITE_PENDING", "WRITE_BUSY"}
      /\ flash_ctx'.state = "WRITE_BUSY" /\ flash_ctx'.length = flash_ctx.length
  BY DEF WriteChunk, ForceWrite, Writing, flash_op_complete
<1>2. /\ IsBank(WriteBank) /\ WriteBank.LOCK = bank.LOCK /\ ~bank.LOCK /\ WriteBank.PG
      /\ WriteBank.wb = bank.wb
  BY <1>1, WriteBankType DEF Metered, WriteBank, SetCR2, IsBank, flash_is_busy
<1>3. bank'.PG /\ ~bank'.LOCK
  BY <1>2, ProgrammingKeepsControl DEF WriteChunk, ForceWrite, SameControl
<1>4. Left = 1 + 4 * (flash_ctx.length - flash_ctx.offset) + 2 * Bit(WBNE(bank))
  BY <1>1 DEF Left, Bit
<1>5. Bit(QW(bank')) \in {0, 1} /\ Bit(WBNE(bank')) \in {0, 1} /\ Bit(WBNE(bank)) \in {0, 1}
  BY DEF Bit
<1>6. flash_ctx'.offset \in Nat
  BY FlashProcessType DEF flash_process
<1>7. Left' = Bit(QW(bank')) + 1 + 4 * (flash_ctx.length - flash_ctx'.offset) + 2 * Bit(WBNE(bank'))
  BY <1>1, <1>5, <1>6 DEF Left
<1>8. CASE WriteChunk
  <2>1. flash_ctx'.offset \in flash_ctx.offset + 1 .. flash_ctx.length
    BY <1>8, GeometryAssumption DEF WriteChunk, NextOffset
  <2> QED
    BY <1>1, <1>3, <1>4, <1>5, <1>7, <2>1 DEF Metered, flash_is_busy
<1>9. CASE ForceWrite
  <2>1. flash_ctx'.offset = flash_ctx.offset /\ flash_ctx.offset = flash_ctx.length /\ WBNE(bank)
    BY <1>9 DEF ForceWrite, Metered
  <2>2. bank' = Program(WriteBank) \/ bank' = [WriteBank EXCEPT !.wb = Empty]
    BY <1>2, <1>9 DEF ForceWrite, ForceWrites, Refusals
  <2>3. bank'.wb = Empty
    BY <1>2, <2>2 DEF Program, IsBank
  <2>4. Bit(WBNE(bank)) = 1 /\ Bit(WBNE(bank')) = 0
    BY <2>1, <2>3 DEF Bit, WBNE, Empty
  <2>5. flash_ctx.length - flash_ctx.offset = 0 /\ flash_ctx.length - flash_ctx'.offset = 0
    BY <2>1
  <2>6. Left = 3
    BY <1>4, <2>4, <2>5
  <2>7. Left' = Bit(QW(bank')) + 1
    BY <1>5, <1>7, <2>4, <2>5
  <2>8. Metered'
    BY <1>1, <1>3, <2>1 DEF Metered, flash_is_busy
  <2> QED
    BY <1>5, <2>6, <2>8, <2>7
<1> QED
  BY <1>8, <1>9

\* Every call of flash_process that does anything brings the job nearer to its end.
LEMMA FlashProcessWindsDown ==
  ASSUME IsBank(bank), flash_ctx \in FlashCtxType, Metered, flash_process
  PROVE  Metered' /\ Left' \in 0 .. Left - 1
<1> USE DEF FlashCtxType
<1>1. CASE StartErase
  <2>1. Left = 4 /\ Left' = Bit(QW(bank')) + 2
    BY <1>1 DEF StartErase, flash_op_complete, Left, Bit
  <2>2. flash_ctx'.state = "ERASE_BUSY" /\ flash_ctx'.offset = flash_ctx.offset
        /\ flash_ctx'.length = flash_ctx.length /\ flash_ctx.state = "ERASE_PENDING"
    BY <1>1 DEF StartErase
  <2>3. bank'.LOCK = bank.LOCK
    BY FlashProcessKeepsLock
  <2> QED
    BY <2>1, <2>2, <2>3 DEF Metered, flash_is_busy, Bit
<1>2. CASE FinishErase
  <2>1. flash_ctx'.state = "IDLE" /\ flash_ctx'.offset = flash_ctx.offset
        /\ flash_ctx'.length = flash_ctx.length /\ bank'.running = bank.running
    BY <1>2 DEF FinishErase, SetCR2, IsBank
  <2>2. ~QW(bank) /\ ~QW(bank') /\ flash_ctx.state = "ERASE_BUSY"
    BY <1>2, <2>1 DEF FinishErase, flash_op_complete, QW
  <2>3. Left = 2 /\ Left' = 0
    BY <2>1, <2>2 DEF Left, Bit
  <2> QED
    BY <2>1, <2>3 DEF Metered, flash_is_busy
<1>3. CASE WriteChunk \/ ForceWrite
  BY <1>3, WritePathWindsDown
<1>4. CASE FinishWrite
  <2>1. flash_ctx'.state = "IDLE" /\ flash_ctx'.offset = flash_ctx.offset
        /\ flash_ctx'.length = flash_ctx.length /\ bank'.running = bank.running
    BY <1>4 DEF FinishWrite, WriteBank, SetCR2, IsBank
  <2>2. flash_ctx.offset = flash_ctx.length /\ ~WBNE(bank) /\ ~QW(bank)
        /\ flash_ctx.state \in {"WRITE_PENDING", "WRITE_BUSY"}
    BY <1>4 DEF FinishWrite, Writing, flash_op_complete, Metered
  <2>3. ~QW(bank')
    BY <2>1, <2>2 DEF QW
  <2>4. Left = 1 /\ Left' = 0
    BY <2>1, <2>2, <2>3 DEF Left, Bit
  <2> QED
    BY <2>1, <2>4 DEF Metered, flash_is_busy
<1> QED
  BY <1>1, <1>2, <1>3, <1>4 DEF flash_process

\* So does the completion of the command in flight.
LEMMA HwDoneWindsDown ==
  ASSUME IsBank(bank), flash_ctx \in FlashCtxType, Metered, HwDone, UNCHANGED flash_ctx
  PROVE  Metered' /\ Left' \in 0 .. Left - 1
<1> USE DEF FlashCtxType, OpState
<1>1. /\ QW(bank) /\ ~QW(bank') /\ bank'.wb = bank.wb
      /\ bank'.LOCK = bank.LOCK /\ bank'.PG = bank.PG
  BY DEF HwDone, IsBank, QW, Empty
<1>2. Metered'
  BY <1>1 DEF Metered, flash_is_busy
<1>3. Left' = Left - 1
  BY <1>1 DEF Left, Bit, WBNE
<1>4. Left' \in Nat
  BY <1>1, <1>2 DEF Left, Bit, WBNE, Metered
<1> QED
  BY <1>2, <1>3, <1>4

----------------------------------------------------------------------------
(* A write, word by word.                                                  *)

Words(S) == UNION {WordOf(a) : a \in S}
Sector(addr) == SectorAddrs(addr_to_sector(addr))
Multiple(x) == \E k \in Nat : x = k * WORD

ErasesNow == flash_ctx.state \in {"ERASE_PENDING", "ERASE_BUSY"}
WritesNow == flash_ctx.state \in {"WRITE_PENDING", "WRITE_BUSY"}
JobBytes == flash_ctx.addr .. flash_ctx.addr + flash_ctx.length - 1

\* A write goes word by word; only its last word may stay in the write buffer,
\* and then all of it is there.
WordByWord ==
  WritesNow =>
    /\ Multiple(flash_ctx.addr) /\ JobBytes \subseteq Addr
    /\ flash_ctx.offset <= flash_ctx.length
    /\ flash_ctx.offset < flash_ctx.length => Multiple(flash_ctx.offset) /\ ~WBNE(bank)
    /\ DOMAIN bank.wb \subseteq JobBytes
    /\ \A a, b \in DOMAIN bank.wb : WordOf(a) = WordOf(b)
    /\ \A a \in DOMAIN bank.wb : WordOf(a) \cap JobBytes \subseteq DOMAIN bank.wb
    /\ flash_ctx.state = "WRITE_PENDING" => flash_ctx.offset = 0
    /\ flash_ctx.state = "WRITE_BUSY" => bank.PG

\* Multiples of the flash word add up.
LEMMA MultiplesAdd ==
  ASSUME NEW x, NEW y, Multiple(x), Multiple(y)
  PROVE  x \in Nat /\ Multiple(x + y)
<1>1. PICK j \in Nat : x = j * WORD
  BY DEF Multiple
<1>2. PICK k \in Nat : y = k * WORD
  BY DEF Multiple
<1>3. x + y = (j + k) * WORD /\ j + k \in Nat /\ x \in Nat
  BY <1>1, <1>2, GeometryAssumption
<1> QED
  BY <1>3 DEF Multiple

\* What is divisible by the size of a flash word.
LEMMA DivisibleIsMultiple ==
  ASSUME NEW n \in Nat, n % WORD = 0
  PROVE  Multiple(n)
<1> DEFINE k == n \div WORD
<1>1. k \in Nat /\ n = k * WORD
  BY GeometryAssumption
<1> HIDE DEF k
<1> QED
  BY <1>1 DEF Multiple

\* The flash word that begins at x.
LEMMA WordFrom ==
  ASSUME NEW x, Multiple(x), NEW a \in Addr, a \in x .. x + WORD - 1
  PROVE  WordOf(a) = Addr \cap (x .. x + WORD - 1)
<1>1. PICK k \in Nat : x = k * WORD
  BY DEF Multiple
<1>2. WORD \in Nat \ {0} /\ x \in Nat /\ Addr \subseteq Nat
  BY <1>1, GeometryAssumption DEF Addr
<1>3. ASSUME NEW b \in Nat PROVE b \div WORD = k <=> b \in x .. x + WORD - 1
  <2> DEFINE q == b \div WORD
             d == q - k
  <2>1. q \in Nat /\ b - WORD * q \in 0 .. WORD - 1
    BY <1>2
  <2>2. WORD * d = WORD * q - x /\ d \in Int
    BY <1>1, <1>2, <2>1
  <2>3. WORD * q \in Int
    BY <1>2, <2>1
  <2> HIDE DEF d, q
  <2>4. d = 0 => b \in x .. x + WORD - 1
    BY <1>2, <2>1, <2>2, <2>3
  <2>5. b \in x .. x + WORD - 1 => d = 0
    <3>1. CASE d >= 1
      <4>1. WORD * d >= WORD
        BY <1>2, <2>2, <3>1
      <4> QED
        BY <1>2, <2>1, <2>2, <2>3, <4>1
    <3>2. CASE d <= -1
      <4>1. WORD * d <= -WORD
        BY <1>2, <2>2, <3>2
      <4> QED
        BY <1>2, <2>1, <2>2, <2>3, <4>1
    <3> QED
      BY <2>2, <3>1, <3>2
  <2> QED
    BY <2>1, <2>4, <2>5 DEF d, q
<1> QED
  BY <1>2, <1>3 DEF WordOf

----------------------------------------------------------------------------
(* What the steps of flash_process do on hardware that refuses nothing.    *)

\* The erase is given to the hardware.
LEMMA StartEraseEffect ==
  ASSUME IsBank(bank), Settled, ~bank.LOCK, Faults = FALSE, StartErase
  PROVE  /\ bank' = [bank EXCEPT !.SER = TRUE,
                                 !.running = [a \in Sector(flash_ctx.addr) |-> Erased]]
         /\ bank'.LOCK = bank.LOCK /\ bank'.cells = bank.cells /\ bank'.wb = bank.wb
         /\ bank'.running = [a \in Sector(flash_ctx.addr) |-> Erased]
<1> DEFINE b == [bank EXCEPT !.SER = TRUE]
           run == [a \in Sector(flash_ctx.addr) |-> Erased]
<1>1. ~bank.PG
  BY DEF StartErase, Settled
<1>2. SetCR2(bank, bank.PG, TRUE) = b /\ ~b.LOCK /\ b.SER /\ ~b.PG
  BY <1>1 DEF SetCR2, IsBank
<1>3. bank' = [b EXCEPT !.running = run]
  BY <1>2 DEF StartErase, Erases, Refusals, Sector
<1> HIDE DEF run
<1>4. [b EXCEPT !.running = run] = [bank EXCEPT !.SER = TRUE, !.running = run]
  BY DEF IsBank
<1> QED
  BY <1>3, <1>4 DEF IsBank, run

\* The end of a job leaves the memory alone.
LEMMA FinishEffect ==
  ASSUME IsBank(bank), FinishErase \/ FinishWrite
  PROVE  /\ bank'.LOCK = bank.LOCK /\ bank'.cells = bank.cells /\ bank'.wb = bank.wb
         /\ bank'.running = bank.running /\ ~QW(bank)
         /\ flash_ctx' = [flash_ctx EXCEPT !.state = "IDLE"]
BY DEF FinishErase, FinishWrite, Writing, WriteBank, SetCR2, IsBank, flash_op_complete

\* The write buffer of b holds a part of the flash word w, or all of it.
Buffers(b, w) == DOMAIN b.wb # {} /\ \A a \in DOMAIN b.wb : WordOf(a) = w

\* p is b while w is being programmed.
Programs(b, w, p) ==
  /\ p.LOCK = b.LOCK /\ p.PG = b.PG /\ p.cells = b.cells
  /\ DOMAIN p.wb = {} /\ DOMAIN p.running = w
  /\ (\A a \in w : b.cells[a] = Erased)
       => \A a \in w : p.running[a] = IF a \in DOMAIN b.wb THEN b.wb[a] ELSE Pad
  /\ ~(\A a \in w : b.cells[a] = Erased) => \A a \in w : p.running[a] = Junk

\* What programming the write buffer makes of the bank.
LEMMA ProgramEffect ==
  ASSUME NEW b, IsBank(b), NEW w, Buffers(b, w)
  PROVE  Programs(b, w, Program(b))
<1> USE DEF Buffers, Programs
<1>1. UNION {WordOf(a) : a \in DOMAIN b.wb} = w
  OBVIOUS
<1> DEFINE blank == \A a \in w : b.cells[a] = Erased
           run == [a \in w |-> IF ~blank THEN Junk ELSE IF a \in DOMAIN b.wb THEN b.wb[a] ELSE Pad]
<1>2. Program(b) = [b EXCEPT !.wb = Empty, !.running = run]
  BY <1>1 DEF Program
<1>3. /\ blank => \A a \in w : run[a] = IF a \in DOMAIN b.wb THEN b.wb[a] ELSE Pad
      /\ ~blank => \A a \in w : run[a] = Junk
  OBVIOUS
<1>4. DOMAIN run = w /\ DOMAIN Empty = {}
  BY DEF Empty
<1> HIDE DEF run
<1> QED
  BY <1>2, <1>3, <1>4 DEF IsBank

\* A partly filled write buffer is forced out.
LEMMA ForceWriteEffect ==
  ASSUME IsBank(bank), flash_ctx \in FlashCtxType, Settled, WordByWord, ~bank.LOCK,
         Faults = FALSE, ForceWrite,
         NEW w, \A a \in DOMAIN bank.wb : WordOf(a) = w
  PROVE  /\ ~bank'.LOCK /\ bank'.cells = bank.cells /\ bank'.PG
         /\ DOMAIN bank'.wb = {} /\ DOMAIN bank'.running = w
         /\ (\A a \in w : bank.cells[a] = Erased)
              => \A a \in w : bank'.running[a] = IF a \in DOMAIN bank.wb THEN bank.wb[a]
                                                ELSE Pad
         /\ ~(\A a \in w : bank.cells[a] = Erased) => \A a \in w : bank'.running[a] = Junk
         /\ flash_ctx' = [flash_ctx EXCEPT !.state = "WRITE_BUSY"]
<1>1. /\ ~WriteBank.LOCK /\ WriteBank.PG /\ ~WriteBank.SER
      /\ WriteBank.wb = bank.wb /\ WriteBank.cells = bank.cells
  BY DEF ForceWrite, Writing, WriteBank, SetCR2, Settled, WordByWord, WritesNow, IsBank
<1>2. IsBank(WriteBank)
  BY WriteBankType
<1>3. bank' = Program(WriteBank)
  BY <1>1 DEF ForceWrite, ForceWrites, Refusals
<1>4. DOMAIN bank.wb # {}
  BY DEF ForceWrite, WBNE
<1> HIDE DEF WriteBank
<1>5. flash_ctx' = [flash_ctx EXCEPT !.state = "WRITE_BUSY"]
  BY DEF ForceWrite
<1>6. Buffers(WriteBank, w)
  BY <1>1, <1>4 DEF Buffers
<1>7. Programs(WriteBank, w, bank')
  BY <1>2, <1>3, <1>6, ProgramEffect
<1> QED
  BY <1>1, <1>5, <1>7 DEF Programs

\* The bytes first to last of the job have been stored, in the flash word w: it
\* is being programmed, or waits in the write buffer as the last of the job.
ChunkStored(first, last, w) ==
  LET next == NextOffset(flash_ctx)
  IN /\ ~bank'.LOCK /\ bank'.cells = bank.cells /\ bank'.PG
     /\ flash_ctx' = [flash_ctx EXCEPT !.state = "WRITE_BUSY", !.offset = next]
     /\ next \in Nat /\ next <= flash_ctx.length
     /\ first .. last \subseteq JobBytes \cap w /\ \A a \in w : WordOf(a) = w
     /\ \/ /\ DOMAIN bank'.wb = {} /\ DOMAIN bank'.running = w /\ w \subseteq first .. last
           /\ Multiple(next) \/ next = flash_ctx.length
           /\ (\A a \in w : bank.cells[a] = Erased)
                => \A a \in w : bank'.running[a] = <<flash_ctx.buffer, a - flash_ctx.addr>>
           /\ ~(\A a \in w : bank.cells[a] = Erased) => \A a \in w : bank'.running[a] = Junk
        \/ /\ DOMAIN bank'.running = {} /\ DOMAIN bank'.wb = first .. last
           /\ next = flash_ctx.length
           /\ \A a \in first .. last :
                bank'.wb[a] = <<flash_ctx.buffer, a - flash_ctx.addr>>

\* One more flash word, or what is left of the job, is stored.
LEMMA WriteChunkEffect ==
  ASSUME IsBank(bank), flash_ctx \in FlashCtxType, Settled, WordByWord, ~bank.LOCK,
         Faults = FALSE, WriteChunk,
         NEW first, first = flash_ctx.addr + flash_ctx.offset,
         NEW last, last = flash_ctx.addr + NextOffset(flash_ctx) - 1,
         NEW w, w = Addr \cap (first .. first + WORD - 1)
  PROVE  ChunkStored(first, last, w)
<1> DEFINE next == NextOffset(flash_ctx)
           n == IF flash_ctx.length - flash_ctx.offset >= WORD THEN WORD
                ELSE flash_ctx.length - flash_ctx.offset
           data == [a \in first .. last |-> <<flash_ctx.buffer, a - flash_ctx.addr>>]
<1>1. /\ flash_ctx.addr \in Nat /\ flash_ctx.offset \in Nat /\ flash_ctx.length \in Nat
      /\ WORD \in Nat \ {0}
  BY GeometryAssumption DEF FlashCtxType
<1>2. /\ WritesNow /\ flash_ctx.offset < flash_ctx.length /\ ~QW(bank)
      /\ Multiple(flash_ctx.addr) /\ Multiple(flash_ctx.offset) /\ ~WBNE(bank)
      /\ JobBytes \subseteq Addr
  BY DEF WriteChunk, Writing, WritesNow, WordByWord, flash_op_complete
<1>3. /\ next \in Nat /\ next <= flash_ctx.length /\ flash_ctx.offset < next
      /\ next = flash_ctx.offset + n
      /\ next = flash_ctx.offset + WORD \/ next = flash_ctx.length
      /\ next <= flash_ctx.offset + WORD
  BY <1>1, <1>2 DEF NextOffset
<1>4. first \in Nat /\ last \in Nat /\ first <= last /\ last = first + n - 1
  BY <1>1, <1>3
<1>5. first .. last \subseteq JobBytes /\ first .. last \subseteq first .. first + WORD - 1
  BY <1>1, <1>3 DEF JobBytes
<1>6. first .. last \subseteq JobBytes \cap w
  BY <1>2, <1>5
<1>7. Multiple(first)
  BY <1>2, MultiplesAdd
<1>8. \A a \in w : WordOf(a) = w
  BY <1>7, WordFrom
<1>9. Chunk(flash_ctx) = data
  <2>1. Addr \cap (first .. first + n - 1) = first .. last
    BY <1>2, <1>4, <1>5
  <2> HIDE DEF n
  <2> QED
    BY <2>1 DEF Chunk, n
<1>10. Multiple(next) \/ next = flash_ctx.length
  <2>1. Multiple(WORD)
    <3>1. 1 \in Nat /\ WORD = 1 * WORD
      BY <1>1
    <3> QED
      BY <3>1, Zenon DEF Multiple
  <2> QED
    BY <1>2, <1>3, <2>1, MultiplesAdd
<1>11. flash_ctx' = [flash_ctx EXCEPT !.state = "WRITE_BUSY", !.offset = next]
  BY DEF WriteChunk
<1> DEFINE filled == [WriteBank EXCEPT !.wb = data]
<1>12. /\ ~WriteBank.LOCK /\ WriteBank.PG /\ ~WriteBank.SER
       /\ DOMAIN WriteBank.wb = {} /\ WriteBank.cells = bank.cells
       /\ DOMAIN WriteBank.running = {}
  BY <1>2 DEF WriteBank, SetCR2, Settled, WordByWord, WritesNow, IsBank, QW, WBNE
<1>13. IsBank(WriteBank)
  BY WriteBankType
<1>14. DOMAIN data = first .. last /\ \A a \in first .. last : data[a] = <<flash_ctx.buffer, a - flash_ctx.addr>>
  OBVIOUS
<1>15. IsImage(data)
  BY <1>9, ChunkIsImage
<1> HIDE DEF next, n, data, WriteBank
<1>16. UNION {WordOf(a) : a \in DOMAIN data} = w
  <2>1. first \in first .. last
    BY <1>4
  <2> QED
    BY <2>1, <1>6, <1>8, <1>14
<1>17. [a \in DOMAIN WriteBank.wb \cup DOMAIN data |->
          IF a \in DOMAIN data THEN data[a] ELSE WriteBank.wb[a]] = data
  BY <1>12, <1>14, <1>15 DEF IsImage
<1>18. bank' = IF w \subseteq DOMAIN data THEN Program(filled) ELSE filled
  <2>1. bank' \in Stores(WriteBank, data)
    BY <1>9 DEF WriteChunk
  <2>2. filled.wb = data
    BY <1>13 DEF IsBank
  <2>3. Stores(WriteBank, data) = {IF w \subseteq DOMAIN data THEN Program(filled) ELSE filled}
    BY <1>12, <1>16, <1>17, <2>2 DEF Stores, Refusals
  <2> QED
    BY <2>1, <2>3
<1>19. /\ IsBank(filled) /\ filled.wb = data /\ filled.cells = bank.cells
       /\ ~filled.LOCK /\ filled.PG /\ filled.running = WriteBank.running
  <2>1. /\ filled.wb = data /\ filled.cells = WriteBank.cells
        /\ filled.LOCK = WriteBank.LOCK /\ filled.PG = WriteBank.PG
        /\ filled.SER = WriteBank.SER /\ filled.running = WriteBank.running
    BY <1>13 DEF IsBank
  <2>2. filled = [cells |-> filled.cells, running |-> filled.running, wb |-> filled.wb,
                  LOCK |-> filled.LOCK, PG |-> filled.PG, SER |-> filled.SER]
    BY <1>13 DEF IsBank
  <2> HIDE DEF filled
  <2> QED
    BY <1>12, <1>13, <1>15, <2>1, <2>2 DEF IsBank
<1> HIDE DEF filled
<1>20. CASE w \subseteq DOMAIN data
  <2>1. Buffers(filled, w)
    BY <1>4, <1>6, <1>8, <1>14, <1>19 DEF Buffers
  <2>2. bank' = Program(filled)
    BY <1>18, <1>20
  <2>3. Programs(filled, w, bank')
    BY <2>1, <2>2, <1>19, ProgramEffect
  <2>4. /\ (\A a \in w : bank.cells[a] = Erased)
             => \A a \in w : bank'.running[a] = <<flash_ctx.buffer, a - flash_ctx.addr>>
        /\ ~(\A a \in w : bank.cells[a] = Erased) => \A a \in w : bank'.running[a] = Junk
    BY <2>3, <1>14, <1>19, <1>20 DEF Programs
  <2> QED
    BY <1>3, <1>6, <1>8, <1>10, <1>11, <1>14, <1>19, <1>20, <2>3, <2>4 DEF next, Programs, ChunkStored
<1>21. CASE ~(w \subseteq DOMAIN data)
  <2>1. bank' = filled
    BY <1>18, <1>21
  <2>2. next = flash_ctx.length
    <3>1. CASE next = flash_ctx.offset + WORD
      <4>1. last = first + WORD - 1
        BY <3>1, <1>1 DEF next
      <4> QED
        BY <4>1, <1>14, <1>21
    <3> QED
      BY <1>3, <3>1
  <2> QED
    BY <1>3, <1>6, <1>8, <1>11, <1>12, <1>14, <1>19, <2>1, <2>2 DEF next, ChunkStored
<1> QED
  BY <1>20, <1>21

\* The steps of a job keep it in order, and CR2 unlocked.
LEMMA FlashProcessWordByWord ==
  ASSUME IsBank(bank), flash_ctx \in FlashCtxType, Settled, WordByWord, ~bank.LOCK,
         Faults = FALSE, flash_process
  PROVE  WordByWord' /\ ~bank'.LOCK
<1> USE DEF FlashCtxType
<1>1. CASE StartErase
  BY <1>1, StartEraseEffect DEF StartErase, WordByWord, WritesNow
<1>2. CASE FinishErase \/ FinishWrite
  BY <1>2, FinishEffect DEF WordByWord, WritesNow
<1>3. CASE WriteChunk
  <2> DEFINE next == NextOffset(flash_ctx)
             first == flash_ctx.addr + flash_ctx.offset
             last == flash_ctx.addr + next - 1
             w == Addr \cap (first .. first + WORD - 1)
  <2>1. /\ ~bank'.LOCK /\ bank'.PG
        /\ flash_ctx' = [flash_ctx EXCEPT !.state = "WRITE_BUSY", !.offset = next]
        /\ next \in Nat /\ next <= flash_ctx.length
        /\ first .. last \subseteq JobBytes \cap w /\ \A a \in w : WordOf(a) = w
        /\ \/ DOMAIN bank'.wb = {} /\ (Multiple(next) \/ next = flash_ctx.length)
           \/ DOMAIN bank'.wb = first .. last /\ next = flash_ctx.length
    <3>1. ChunkStored(first, last, w)
      BY <1>3, WriteChunkEffect
    <3> HIDE DEF first, last, w
    <3> QED
      BY <3>1 DEF ChunkStored
  <2>2. /\ flash_ctx'.addr = flash_ctx.addr /\ flash_ctx'.length = flash_ctx.length
        /\ flash_ctx'.offset = next /\ flash_ctx'.state = "WRITE_BUSY"
        /\ JobBytes' = JobBytes
    BY <2>1 DEF JobBytes
  <2>3. WritesNow /\ Multiple(flash_ctx.addr) /\ JobBytes \subseteq Addr
    BY <1>3 DEF WriteChunk, Writing, WordByWord, WritesNow
  <2>4. next = flash_ctx.length => w \cap JobBytes \subseteq first .. last
    BY DEF JobBytes
  <2> HIDE DEF next, first, last, w
  <2>5. CASE DOMAIN bank'.wb = {} /\ (Multiple(next) \/ next = flash_ctx.length)
    BY <2>1, <2>2, <2>3, <2>5 DEF WordByWord, WBNE, Addr, Multiple
  <2>6. CASE DOMAIN bank'.wb = first .. last /\ next = flash_ctx.length
    <3>1. /\ \A a \in DOMAIN bank'.wb : a \in w /\ WordOf(a) = w
          /\ DOMAIN bank'.wb \subseteq JobBytes
      BY <2>1, <2>6
    <3>2. /\ \A a, b \in DOMAIN bank'.wb : WordOf(a) = WordOf(b)
          /\ \A a \in DOMAIN bank'.wb : WordOf(a) \cap JobBytes \subseteq DOMAIN bank'.wb
      BY <2>4, <2>6, <3>1
    <3>3. ~(flash_ctx'.offset < flash_ctx'.length)
      BY <2>1, <2>2, <2>6
    <3> QED
      BY <2>1, <2>2, <2>3, <3>1, <3>2, <3>3 DEF WordByWord, Addr, Multiple, WordOf
  <2> QED
    BY <2>1, <2>5, <2>6
<1>4. CASE ForceWrite
  <2>1. PICK w : \A a \in DOMAIN bank.wb : WordOf(a) = w
    <3>1. PICK b : b \in DOMAIN bank.wb
      BY <1>4 DEF ForceWrite, WBNE
    <3>2. \A a \in DOMAIN bank.wb : WordOf(a) = WordOf(b)
      BY <1>4, <3>1 DEF ForceWrite, Writing, WordByWord, WritesNow
    <3> QED
      BY <3>2
  <2>2. /\ ~bank'.LOCK /\ bank'.PG /\ DOMAIN bank'.wb = {}
        /\ flash_ctx' = [flash_ctx EXCEPT !.state = "WRITE_BUSY"]
    BY <1>4, <2>1, ForceWriteEffect
  <2> QED
    BY <1>4, <2>2
    DEF ForceWrite, Writing, WordByWord, WritesNow, JobBytes, WBNE, Addr, Multiple
<1> QED
  BY <1>1, <1>2, <1>3, <1>4 DEF flash_process
==============================================================================
