----------------------------- MODULE FlashBank -----------------------------
(***************************************************************************)
(* Bank 2 of the STM32H7 flash, as the driver of src/src/dfu_flash.c uses  *)
(* it: the memory array, one write buffer of a flash word, one command in  *)
(* flight, and the control bits LOCK, PG and SER of FLASH_CR2.             *)
(*                                                                         *)
(* The hardware is not under src/.  It is modelled from the accesses of    *)
(* the driver: QW is polled before a command, a store of a whole flash     *)
(* word starts programming, FW programs a partly filled buffer, START      *)
(* erases the sector of SNB.  An operation of the hardware is the set of   *)
(* its possible results, one of which the driver's step chooses.           *)
(*                                                                         *)
(* Addresses are offsets from 0x08100000, the base of bank 2.              *)
(***************************************************************************)
EXTENDS Integers

CONSTANTS
  WORD,      \* bytes of a flash word (32)
  SECTOR,    \* bytes of a sector (128 KiB)
  NSECT,     \* sectors of the bank (8)
  Payload,   \* contents a host may send, byte i of p is <<p, i>>
  Erased,    \* a byte of an erased flash word
  Pad,       \* a byte FW filled in: reads as erased, cannot be programmed
  Junk,      \* a byte of a word programmed twice, or cut off half-way
  Faults     \* TRUE: a command may be refused, leaving only SR2 error flags

ASSUME GeometryAssumption ==
  /\ WORD \in Nat \ {0}
  /\ SECTOR \in Nat \ {0}
  /\ NSECT \in Nat \ {0}
  /\ SECTOR % WORD = 0
  /\ Faults \in BOOLEAN

Addr == 0 .. NSECT * SECTOR - 1

WordOf(a) == {b \in Addr : b \div WORD = a \div WORD}

SectorAddrs(s) == {a \in Addr : a \div SECTOR = s}

Cell == (Payload \X Nat) \cup {Erased, Pad, Junk}

\* f where it is defined, g elsewhere in the domain of g.
Over(f, g) == [a \in DOMAIN g |-> IF a \in DOMAIN f THEN f[a] ELSE g[a]]

Empty == [a \in {} |-> Erased]

\* f maps some of the addresses to contents.
IsImage(f) == DOMAIN f \subseteq Addr /\ f \in [DOMAIN f -> Cell]

----------------------------------------------------------------------------
VARIABLE
  bank  \* [cells, running: the contents the command in flight leaves,
        \*  wb: the write buffer, LOCK, PG, SER]

IsBank(b) ==
  /\ b = [cells |-> b.cells, running |-> b.running, wb |-> b.wb,
          LOCK |-> b.LOCK, PG |-> b.PG, SER |-> b.SER]
  /\ b.cells \in [Addr -> Cell]
  /\ IsImage(b.running)
  /\ IsImage(b.wb)
  /\ b.LOCK \in BOOLEAN
  /\ b.PG \in BOOLEAN
  /\ b.SER \in BOOLEAN

\* The bank out of reset, locked, holding c.
ResetBank(c) ==
  [cells |-> c, running |-> Empty, wb |-> Empty,
   LOCK |-> TRUE, PG |-> FALSE, SER |-> FALSE]

\* SR2.QW: a command is queued or in flight.
QW(b) == DOMAIN b.running # {}

\* SR2.WBNE: the write buffer waits for the rest of its flash word.
WBNE(b) == DOMAIN b.wb # {}

----------------------------------------------------------------------------
\* What the hardware makes of an access.

Refusals(refused, c) == IF refused THEN {c} ELSE {}

Program(b) ==
  LET word  == UNION {WordOf(a) : a \in DOMAIN b.wb}
      blank == \A a \in word : b.cells[a] = Erased
  IN [b EXCEPT !.wb = Empty,
               !.running = [a \in word |->
                              IF ~blank THEN Junk
                              ELSE IF a \in DOMAIN b.wb THEN b.wb[a] ELSE Pad]]

\* Storing data (part of one flash word).  A word that does not continue the
\* one in the buffer is an inconsistency error; SER left set may refuse it.
Stores(b, data) ==
  LET filled == [b EXCEPT !.wb = [a \in DOMAIN b.wb \cup DOMAIN data |->
                                    IF a \in DOMAIN data THEN data[a] ELSE b.wb[a]]]
      word   == UNION {WordOf(a) : a \in DOMAIN data}
  IN IF b.LOCK \/ ~b.PG \/ ~(DOMAIN b.wb \subseteq word)
       THEN {b}
       ELSE {IF word \subseteq DOMAIN filled.wb THEN Program(filled) ELSE filled}
              \cup Refusals(b.SER \/ Faults, b)

\* CR2.FW.
ForceWrites(b) ==
  IF b.LOCK \/ ~b.PG THEN {b}
  ELSE {Program(b)} \cup Refusals(b.SER \/ Faults, [b EXCEPT !.wb = Empty])

\* CR2.START with SER and the sector number s; PG left set may refuse it.
Erases(b, s) ==
  IF b.LOCK \/ ~b.SER THEN {b}
  ELSE {[b EXCEPT !.running = [a \in SectorAddrs(s) |-> Erased]]}
         \cup Refusals(b.PG \/ Faults, b)

\* Control bits keep their value while CR2 is locked.
SetCR2(b, pg, ser) == IF b.LOCK THEN b ELSE [b EXCEPT !.PG = pg, !.SER = ser]

\* The command in flight completes: QW falls.
HwDone ==
  /\ QW(bank)
  /\ bank' = [bank EXCEPT !.cells = Over(bank.running, @), !.running = Empty]

\* A reset or a power cut: what was in flight is left half done.
CutOff ==
  bank' = ResetBank(Over([a \in DOMAIN bank.running |-> Junk], bank.cells))
============================================================================
