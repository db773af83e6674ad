------------------------------ MODULE ShiftReg ------------------------------
(***************************************************************************)
(* The expansion outputs behind a chain of shift registers                 *)
(* (src/src/gpio.c, extGpio): the LEDs, the backlight, the audio            *)
(* switches and MAIN_PWR_SW, which keeps the radio on.  Changing one pin   *)
(* shifts the whole image out again, bit by bit over three GPIO pins.      *)
(*                                                                         *)
(* The chain, of SN74HC595 (pinmap.h:144), is external: a rising edge of   *)
(* CLK shifts DAT in, a rising edge of STR takes the chain to the outputs. *)
(***************************************************************************)
EXTENDS Integers

CONSTANTS
  BITS,    \* bits of a byte (8)
  NBYTES,  \* registers in the chain (3)
  Pins     \* the pins that callers pass

N == BITS * NBYTES
Pin == 0 .. N - 1

ASSUME ShiftRegAssumption ==
  /\ BITS \in Nat \ {0}
  /\ NBYTES \in Nat \ {0}
  /\ Pins \subseteq Nat

VARIABLES
  srData,  \* srData_extGpio: the bits of each byte
  chain,   \* the registers; position 0 is the bit shifted in last
  out,     \* the outputs of the chain
  wires,   \* [STR, CLK, DAT]: the GPIO pins
  step,    \* "off", "idle", or the next step of spiSr_send
  sent,    \* bits of the image sent so far
  want,    \* the levels the callers have asked for
  asked    \* the pin of the call in progress, or EveryPin

vars == <<srData, chain, out, wires, step, sent, want, asked>>

EveryPin == -1   \* gpioShiftReg_init

Low(S) == [x \in S |-> FALSE]
Index == (0 .. NBYTES - 1) \X (0 .. BITS - 1)

TypeOK ==
  /\ srData \in [Index -> BOOLEAN]
  /\ chain \in [Pin -> BOOLEAN]
  /\ out \in [Pin -> BOOLEAN]
  /\ wires \in [{"STR", "CLK", "DAT"} -> BOOLEAN]
  /\ step \in {"off", "idle", "clock_low", "data", "clock_high"}
  /\ sent \in 0 .. N
  /\ want \in [Pin -> BOOLEAN]
  /\ asked \in Pins \cup {EveryPin}

Init ==
  /\ srData = Low(Index)
  /\ chain \in [Pin -> BOOLEAN]
  /\ out \in [Pin -> BOOLEAN]
  /\ wires = Low({"STR", "CLK", "DAT"})
  /\ step = "off"
  /\ sent = 0
  /\ want = Low(Pin)
  /\ asked = EveryPin

----------------------------------------------------------------------------
\* C divides towards zero.
CDiv(a, b) == IF a >= 0 THEN a \div b ELSE -((-a) \div b)

ByteOf(pin) == CDiv(N - 1 - pin, BITS)
\* A mutant: bits counted from the other end of the byte.
BitOfReversed(pin) == BITS - 1 - (pin % BITS)

BitOf(pin) == pin % BITS

\* The check at the head of gpioShiftReg_modify and gpioShiftReg_read.
Refused(pin) == pin > N

\* Drives a wire; the outputs take over the chain as STR goes high.
Drive(w) ==
  /\ wires' = w
  /\ out' = IF w.STR /\ ~wires.STR THEN chain ELSE out

BeginSend(pin) == step' = "clock_low" /\ sent' = 0 /\ asked' = pin

gpioShiftReg_init ==
  /\ step = "off"
  /\ srData' = Low(Index)
  /\ Drive([wires EXCEPT !.STR = FALSE])
  /\ BeginSend(EveryPin)
  /\ want' = Low(Pin)
  /\ UNCHANGED chain

gpioShiftReg_modify(pin, state) ==
  /\ step = "idle"
  /\ ~Refused(pin)
  /\ srData' = [srData EXCEPT ![<<ByteOf(pin), BitOf(pin)>>] = state]
  /\ Drive([wires EXCEPT !.STR = FALSE])
  /\ BeginSend(pin)
  /\ want' = [p \in Pin |-> IF p = pin THEN state ELSE want[p]]
  /\ UNCHANGED chain

\* What gpioShiftReg_read answers.
gpioShiftReg_read(pin) == ~Refused(pin) /\ srData[<<ByteOf(pin), BitOf(pin)>>]

(* spiSr_send: byte 0 first, and the most significant bit of a byte first. *)

ClockLow ==
  /\ step = "clock_low" /\ sent < N
  /\ step' = "data"
  /\ Drive([wires EXCEPT !.CLK = FALSE])
  /\ UNCHANGED <<srData, chain, sent, want, asked>>

\* A mutant: the least significant bit first.
DataReversed ==
  /\ step = "data"
  /\ step' = "clock_high"
  /\ Drive([wires EXCEPT !.DAT = srData[<<sent \div BITS, sent % BITS>>]])
  /\ UNCHANGED <<srData, chain, sent, want, asked>>

Data ==
  /\ step = "data"
  /\ step' = "clock_high"
  /\ Drive([wires EXCEPT !.DAT = srData[<<sent \div BITS, BITS - 1 - (sent % BITS)>>]])
  /\ UNCHANGED <<srData, chain, sent, want, asked>>

ClockHigh ==
  /\ step = "clock_high"
  /\ step' = "clock_low"
  /\ wires' = [wires EXCEPT !.CLK = TRUE]
  /\ chain' = IF wires.CLK THEN chain
              ELSE [p \in Pin |-> IF p = 0 THEN wires.DAT ELSE chain[p - 1]]
  /\ sent' = sent + 1
  /\ UNCHANGED <<srData, out, want, asked>>

\* A mutant: STR goes high before the last bit is in.
StrobeEarly ==
  /\ step = "clock_low" /\ sent = N - 1
  /\ step' = "idle"
  /\ Drive([wires EXCEPT !.STR = TRUE])
  /\ sent' = 0
  /\ UNCHANGED <<srData, chain, want, asked>>

\* The image is in the chain: STR goes high.
Strobe ==
  /\ step = "clock_low" /\ sent = N
  /\ step' = "idle"
  /\ Drive([wires EXCEPT !.STR = TRUE])
  /\ sent' = 0
  /\ UNCHANGED <<srData, chain, want, asked>>

spiSr_send == ClockLow \/ Data \/ ClockHigh \/ Strobe

\* The chip is reset: its pins float, the chain keeps what it holds.
Reset ==
  /\ step' = "off"
  /\ sent' = 0
  /\ srData' = Low(Index)
  /\ \E str \in BOOLEAN : Drive([wires EXCEPT !.STR = str, !.CLK = FALSE])
  /\ UNCHANGED <<chain, want, asked>>

Call == \E pin \in Pins, state \in BOOLEAN : gpioShiftReg_modify(pin, state)

Next == gpioShiftReg_init \/ Call \/ spiSr_send \/ Reset

Spec == Init /\ [][Next]_vars

----------------------------------------------------------------------------
(* Properties.                                                             *)

\* Between calls every output has the level its callers asked for last, low if
\* none has: the image and the order it is sent in agree with the wiring.
OutputsMatch == step = "idle" => out = want

\* gpioShiftReg_read answers the level of the output.
ReadMatches == step = "idle" => \A p \in Pin : gpioShiftReg_read(p) = out[p]

\* A call changes its own pin and disturbs no other ("Set gpio pin to logic high
\* level", gpio.h:139), although the image of all of them is sent anew: what STR
\* latches is the whole of it, with the others where they were.
OnlyTheRequestedPin ==
  [][step' # "off" /\ asked' # EveryPin
       => \A p \in Pin : out'[p] # out[p] => p = asked']_vars
=============================================================================
