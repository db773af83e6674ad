--------------------------- MODULE ShiftRegProofs ---------------------------
(***************************************************************************)
(* ShiftReg for chains of any length and bytes of any width, as long as    *)
(* the callers pass pins that exist.                                       *)
(***************************************************************************)
EXTENDS ShiftReg, TLAPS

\* Division with remainder.
LEMMA DivMod ==
  ASSUME NEW b \in Nat \ {0}, NEW x \in Nat
  PROVE  /\ x \div b \in Nat /\ x % b \in 0 .. b - 1
         /\ x % b = x - b * (x \div b)
  OBVIOUS

\* The remainder is the only one.
LEMMA ModUnique ==
  ASSUME NEW b \in Nat \ {0}, NEW k \in Nat, NEW r \in 0 .. b - 1
  PROVE  (b * k + r) % b = r
<1> DEFINE x == b * k + r
           d == k - (x \div b)
<1>1. x \in Nat
  OBVIOUS
<1>2. x \div b \in Nat /\ x % b \in 0 .. b - 1 /\ x % b = x - b * (x \div b)
  BY <1>1, DivMod
<1>3. d \in Int /\ b * d = (x % b) - r
  <2>1. b * d = b * k - b * (x \div b)
    BY <1>2
  <2>2. b * k \in Int /\ b * (x \div b) \in Int /\ x = b * k + r
    BY <1>2
  <2> QED
    BY <1>2, <2>1, <2>2
<1>4. d = 0
  <2>1. CASE d >= 1
    BY <1>2, <1>3, <2>1
  <2>2. CASE d <= -1
    BY <1>2, <1>3, <2>2
  <2> QED
    BY <1>3, <2>1, <2>2
<1> QED
  BY <1>2, <1>3, <1>4

\* There are pins.
LEMMA NIsNat == N \in Nat \ {0}
  BY ShiftRegAssumption DEF N

\* The s-th bit of the image, as spiSr_send counts, belongs to pin N - 1 - s.
LEMMA BitSent ==
  ASSUME NEW s \in 0 .. N - 1
  PROVE  /\ ByteOf(N - 1 - s) = s \div BITS
         /\ BitOf(N - 1 - s) = BITS - 1 - (s % BITS)
         /\ s \div BITS \in 0 .. NBYTES - 1
         /\ s % BITS \in 0 .. BITS - 1
<1> DEFINE q == s \div BITS
           r == s % BITS
<1>1. q \in Nat /\ r \in 0 .. BITS - 1 /\ r = s - BITS * q
  <2>1. s \in Nat /\ BITS \in Nat \ {0}
    BY NIsNat, ShiftRegAssumption
  <2> QED
    BY <2>1, DivMod
<1>2. q <= NBYTES - 1
  <2>1. CASE q >= NBYTES
    BY <1>1, <2>1, ShiftRegAssumption DEF N
  <2> QED
    BY <1>1, <2>1, ShiftRegAssumption
<1>3. N - 1 - s = BITS * (NBYTES - 1 - q) + (BITS - 1 - r)
  <2>1. BITS * (NBYTES - 1 - q) = BITS * NBYTES - BITS - BITS * q
    BY <1>1, ShiftRegAssumption
  <2> HIDE DEF q, r
  <2> QED
    BY <1>1, <2>1, ShiftRegAssumption DEF N
<1>4. (N - 1 - s) % BITS = BITS - 1 - r
  <2>1. NBYTES - 1 - q \in Nat /\ BITS - 1 - r \in 0 .. BITS - 1
    BY <1>1, <1>2, ShiftRegAssumption
  <2>2. (BITS * (NBYTES - 1 - q) + (BITS - 1 - r)) % BITS = BITS - 1 - r
    <3> HIDE DEF q, r
    <3> QED
      BY <2>1, ModUnique, ShiftRegAssumption
  <2> QED
    BY <1>3, <2>2
<1>5. ByteOf(N - 1 - s) = q
  BY NIsNat DEF ByteOf, CDiv
<1> QED
  BY <1>1, <1>2, <1>4, <1>5, ShiftRegAssumption DEF BitOf

\* Every pin has a bit of the image, and no two pins have the same.
LEMMA BitOfPin ==
  /\ \A p \in Pin : <<ByteOf(p), BitOf(p)>> \in Index
  /\ \A p, q \in Pin : <<ByteOf(p), BitOf(p)>> = <<ByteOf(q), BitOf(q)>> => p = q
<1>1. \A p \in Pin : N - 1 - p \in 0 .. N - 1 /\ N - 1 - (N - 1 - p) = p
  BY NIsNat DEF Pin
<1>2. ASSUME NEW p \in Pin PROVE <<ByteOf(p), BitOf(p)>> \in Index
  <2>1. /\ ByteOf(p) = (N - 1 - p) \div BITS
        /\ BitOf(p) = BITS - 1 - ((N - 1 - p) % BITS)
        /\ (N - 1 - p) \div BITS \in 0 .. NBYTES - 1
        /\ (N - 1 - p) % BITS \in 0 .. BITS - 1
    BY <1>1, BitSent
  <2> QED
    BY <2>1, ShiftRegAssumption DEF Index
<1>3. ASSUME NEW p \in Pin, NEW q \in Pin, ByteOf(p) = ByteOf(q), BitOf(p) = BitOf(q)
      PROVE  p = q
  <2> DEFINE s == N - 1 - p
             t == N - 1 - q
  <2>1. s \in 0 .. N - 1 /\ t \in 0 .. N - 1 /\ N - 1 - s = p /\ N - 1 - t = q
    BY <1>1
  <2> HIDE DEF s, t
  <2>2. /\ s \div BITS = t \div BITS
        /\ BITS - 1 - (s % BITS) = BITS - 1 - (t % BITS)
        /\ s % BITS \in 0 .. BITS - 1 /\ t % BITS \in 0 .. BITS - 1
    BY <1>3, <2>1, BitSent
  <2>3. s % BITS = t % BITS
    BY <2>2, ShiftRegAssumption
  <2>4. /\ s % BITS = s - BITS * (s \div BITS) /\ s \div BITS \in Nat
        /\ t % BITS = t - BITS * (t \div BITS) /\ t \div BITS \in Nat
    <3>1. s \in Nat /\ t \in Nat /\ BITS \in Nat \ {0}
      BY <2>1, NIsNat, ShiftRegAssumption
    <3> QED
      BY <3>1, DivMod
  <2>5. \A m \in Int : s - m = t - m => s = t
    BY <2>1, NIsNat
  <2>6. BITS * (s \div BITS) \in Int
    BY <2>4, ShiftRegAssumption
  <2>7. s = t
    BY <2>2, <2>3, <2>4, <2>5, <2>6
  <2> QED
    BY <2>1, <2>7
<1> QED
  BY <1>2, <1>3

----------------------------------------------------------------------------
(* Types.                                                                  *)

\* Wires and outputs keep their types whatever is driven.
LEMMA DriveTyped ==
  ASSUME TypeOK, NEW w \in [{"STR", "CLK", "DAT"} -> BOOLEAN], Drive(w)
  PROVE  wires' \in [{"STR", "CLK", "DAT"} -> BOOLEAN] /\ out' \in [Pin -> BOOLEAN]
  BY DEF TypeOK, Drive

\* One wire changes, the others do not.
LEMMA WireSet ==
  ASSUME TypeOK, NEW v \in BOOLEAN
  PROVE  /\ [wires EXCEPT !.STR = v] \in [{"STR", "CLK", "DAT"} -> BOOLEAN]
         /\ [wires EXCEPT !.CLK = v] \in [{"STR", "CLK", "DAT"} -> BOOLEAN]
         /\ [wires EXCEPT !.DAT = v] \in [{"STR", "CLK", "DAT"} -> BOOLEAN]
         /\ [wires EXCEPT !.STR = v].STR = v
         /\ [wires EXCEPT !.CLK = v].CLK = v /\ [wires EXCEPT !.CLK = v].STR = wires.STR
         /\ /\ [wires EXCEPT !.DAT = v].DAT = v /\ [wires EXCEPT !.DAT = v].STR = wires.STR
            /\ [wires EXCEPT !.DAT = v].CLK = wires.CLK
  BY DEF TypeOK

\* While a bit is on its way there is one left to send.
BitsLeft == step \in {"data", "clock_high"} => sent < N

Typed == TypeOK /\ BitsLeft

\* Types, and the bit that is left, for any chain, as long as the callers' pins
\* exist.
LEMMA TypedInductive ==
  ASSUME Pins \subseteq Pin
  PROVE  Spec => []Typed
<1>1. Init => Typed
  BY NIsNat DEF Init, Typed, BitsLeft, TypeOK, Low, EveryPin
<1>2. Typed /\ [Next]_vars => Typed'
  <2> SUFFICES ASSUME TypeOK, BitsLeft, [Next]_vars PROVE TypeOK' /\ BitsLeft'
    BY DEF Typed
  <2> USE DEF BeginSend, Low, BitsLeft
  <2>1. CASE gpioShiftReg_init
    <3>1. wires' \in [{"STR", "CLK", "DAT"} -> BOOLEAN] /\ out' \in [Pin -> BOOLEAN]
      BY <2>1, DriveTyped, WireSet DEF gpioShiftReg_init
    <3> QED
      BY <2>1, <3>1, NIsNat DEF gpioShiftReg_init, TypeOK
  <2>2. ASSUME NEW pin \in Pins, NEW state \in BOOLEAN, gpioShiftReg_modify(pin, state)
        PROVE  TypeOK' /\ BitsLeft'
    <3>1. wires' \in [{"STR", "CLK", "DAT"} -> BOOLEAN] /\ out' \in [Pin -> BOOLEAN]
      BY <2>2, DriveTyped, WireSet DEF gpioShiftReg_modify
    <3>2. srData' \in [Index -> BOOLEAN] /\ want' \in [Pin -> BOOLEAN]
      BY <2>2 DEF gpioShiftReg_modify, TypeOK
    <3> QED
      BY <2>2, <3>1, <3>2, NIsNat DEF gpioShiftReg_modify, TypeOK
  <2>3. CASE ClockLow
    <3>1. wires' \in [{"STR", "CLK", "DAT"} -> BOOLEAN] /\ out' \in [Pin -> BOOLEAN]
      BY <2>3, DriveTyped, WireSet DEF ClockLow
    <3> QED
      BY <2>3, <3>1 DEF ClockLow, TypeOK
  <2>4. CASE Data
    <3>1. sent \in 0 .. N - 1
      BY <2>4, NIsNat DEF Data, TypeOK
    <3>2. <<sent \div BITS, BITS - 1 - (sent % BITS)>> \in Index
      BY <3>1, BitSent, ShiftRegAssumption DEF Index
    <3>3. srData[<<sent \div BITS, BITS - 1 - (sent % BITS)>>] \in BOOLEAN
      BY <3>2 DEF TypeOK
    <3>4. wires' \in [{"STR", "CLK", "DAT"} -> BOOLEAN] /\ out' \in [Pin -> BOOLEAN]
      BY <2>4, <3>3, DriveTyped, WireSet DEF Data
    <3> QED
      BY <2>4, <3>1, <3>4 DEF Data, TypeOK
  <2>5. CASE ClockHigh
    <3>1. wires' \in [{"STR", "CLK", "DAT"} -> BOOLEAN]
      BY <2>5, WireSet DEF ClockHigh
    <3>2. chain' \in [Pin -> BOOLEAN]
      BY <2>5, NIsNat DEF ClockHigh, TypeOK, Pin
    <3>3. sent' \in 0 .. N
      BY <2>5, NIsNat DEF ClockHigh, TypeOK
    <3> QED
      BY <2>5, <3>1, <3>2, <3>3 DEF ClockHigh, TypeOK
  <2>6. CASE Strobe
    <3>1. wires' \in [{"STR", "CLK", "DAT"} -> BOOLEAN] /\ out' \in [Pin -> BOOLEAN]
      BY <2>6, DriveTyped, WireSet DEF Strobe
    <3> QED
      BY <2>6, <3>1, NIsNat DEF Strobe, TypeOK
  <2>7. CASE Reset
    <3>1. PICK str \in BOOLEAN : Drive([wires EXCEPT !.STR = str, !.CLK = FALSE])
      BY <2>7 DEF Reset
    <3>2. [wires EXCEPT !.STR = str, !.CLK = FALSE] \in [{"STR", "CLK", "DAT"} -> BOOLEAN]
      BY DEF TypeOK
    <3>3. wires' \in [{"STR", "CLK", "DAT"} -> BOOLEAN] /\ out' \in [Pin -> BOOLEAN]
      BY <3>1, <3>2, DriveTyped
    <3> QED
      BY <2>7, <3>3, NIsNat DEF Reset, TypeOK
  <2>8. CASE UNCHANGED vars
    BY <2>8 DEF vars, TypeOK
  <2> QED
    BY <2>1, <2>2, <2>3, <2>4, <2>5, <2>6, <2>7, <2>8 DEF Next, Call, spiSr_send
<1> QED
  BY <1>1, <1>2, PTL DEF Spec

----------------------------------------------------------------------------
(* The image on its way through the chain.                                 *)

\* The image holds what the callers want, each pin at its own bit.
ImageRight == step # "off" => \A p \in Pin : srData[<<ByteOf(p), BitOf(p)>>] = want[p]

\* Between calls chain and outputs hold it, too.
AtRest == step = "idle" => chain = want /\ out = want

\* While the image is sent the outputs are cut off, and differ from what is
\* wanted in the pin of the call at most; the bits sent so far lie in the chain
\* in the order of the last pins.
UnderWay ==
  step \in {"clock_low", "data", "clock_high"} =>
    /\ ~wires.STR
    /\ asked # EveryPin => \A p \in Pin : p # asked => out[p] = want[p]
    /\ \A p \in Pin : p < sent => chain[p] = want[N - sent + p]

\* The next bit is on DAT when CLK rises.
BitOnWire ==
  /\ step \in {"data", "clock_high"} => ~wires.CLK
  /\ step = "clock_high" => wires.DAT = want[N - 1 - sent]

ShiftInv == Typed /\ ImageRight /\ AtRest /\ UnderWay /\ BitOnWire

\* A call writes its pin's bit, and no other, into the image.
LEMMA CallWritesItsBit ==
  ASSUME Pins \subseteq Pin, ShiftInv, NEW pin \in Pins, NEW state \in BOOLEAN,
         gpioShiftReg_modify(pin, state)
  PROVE  ImageRight'
<1> SUFFICES ASSUME NEW p \in Pin PROVE srData'[<<ByteOf(p), BitOf(p)>>] = want'[p]
  BY DEF ImageRight
<1>1. /\ srData' = [srData EXCEPT ![<<ByteOf(pin), BitOf(pin)>>] = state]
      /\ want' = [q \in Pin |-> IF q = pin THEN state ELSE want[q]]
      /\ srData[<<ByteOf(p), BitOf(p)>>] = want[p]
      /\ srData \in [Index -> BOOLEAN]
  BY DEF gpioShiftReg_modify, ShiftInv, ImageRight, Typed, TypeOK
<1>2. /\ <<ByteOf(p), BitOf(p)>> \in Index /\ <<ByteOf(pin), BitOf(pin)>> \in Index
      /\ p # pin => <<ByteOf(p), BitOf(p)>> # <<ByteOf(pin), BitOf(pin)>>
  BY BitOfPin
<1> QED
  BY <1>1, <1>2

\* What gpioShiftReg_modify, spiSr_send and a reset make of the image.
LEMMA ShiftInvInductive ==
  ASSUME Pins \subseteq Pin
  PROVE  Spec => []ShiftInv
<1>1. Init => ImageRight /\ AtRest /\ UnderWay /\ BitOnWire
  BY DEF Init, ImageRight, AtRest, UnderWay, BitOnWire
<1>2. ShiftInv /\ Typed' /\ [Next]_vars => ShiftInv'
  <2> SUFFICES ASSUME ShiftInv, Typed', [Next]_vars
               PROVE  ImageRight' /\ AtRest' /\ UnderWay' /\ BitOnWire'
    BY DEF ShiftInv
  <2>0. TypeOK /\ BitsLeft /\ ImageRight /\ AtRest /\ UnderWay /\ BitOnWire
    BY DEF ShiftInv, Typed
  <2> USE DEF BeginSend
  <2>1. CASE gpioShiftReg_init
    <3>1. ImageRight'
      BY <2>1, BitOfPin DEF gpioShiftReg_init, ImageRight, Low
    <3>2. ~wires'.STR
      BY <2>0, <2>1, WireSet DEF gpioShiftReg_init, Drive
    <3> QED
      BY <2>1, <3>1, <3>2 DEF gpioShiftReg_init, AtRest, UnderWay, BitOnWire, Pin
  <2>2. ASSUME NEW pin \in Pins, NEW state \in BOOLEAN, gpioShiftReg_modify(pin, state)
        PROVE  ImageRight' /\ AtRest' /\ UnderWay' /\ BitOnWire'
    <3>1. ImageRight'
      BY <2>2, CallWritesItsBit
    <3>2. ~wires'.STR /\ out' = out /\ sent' = 0 /\ asked' = pin /\ step' = "clock_low"
      BY <2>0, <2>2, WireSet DEF gpioShiftReg_modify, Drive
    <3>3. \A p \in Pin : p # pin => out[p] = want'[p]
      BY <2>0, <2>2 DEF gpioShiftReg_modify, AtRest
    <3> QED
      BY <3>1, <3>2, <3>3 DEF AtRest, UnderWay, BitOnWire, Pin
  <2>3. CASE ClockLow
    <3>1. ~wires'.STR /\ ~wires'.CLK /\ out' = out
      BY <2>0, <2>3, WireSet DEF ClockLow, Drive, UnderWay
    <3> QED
      BY <2>0, <2>3, <3>1 DEF ClockLow, ImageRight, AtRest, UnderWay, BitOnWire
  <2>4. CASE Data
    <3>1. sent \in 0 .. N - 1
      BY <2>0, <2>4, NIsNat DEF Data, TypeOK, BitsLeft
    <3>2. N - 1 - sent \in Pin
      BY <3>1, NIsNat DEF Pin
    <3>3. srData[<<sent \div BITS, BITS - 1 - (sent % BITS)>>] = want[N - 1 - sent]
      BY <2>0, <2>4, <3>1, <3>2, BitSent DEF ImageRight, Data
    <3>4. srData[<<sent \div BITS, BITS - 1 - (sent % BITS)>>] \in BOOLEAN
      BY <2>0, <3>2, <3>3 DEF TypeOK
    <3>5. ~wires'.STR /\ ~wires'.CLK /\ out' = out /\ wires'.DAT = want[N - 1 - sent]
      BY <2>0, <2>4, <3>3, <3>4, WireSet DEF Data, Drive, UnderWay, BitOnWire
    <3> QED
      BY <2>0, <2>4, <3>5 DEF Data, ImageRight, AtRest, UnderWay, BitOnWire
  <2>5. CASE ClockHigh
    <3>1. ~wires'.STR /\ out' = out /\ sent' = sent + 1 /\ sent \in 0 .. N - 1
      BY <2>0, <2>5, WireSet, NIsNat DEF ClockHigh, UnderWay, TypeOK, BitsLeft
    <3>2. chain' = [p \in Pin |-> IF p = 0 THEN want[N - 1 - sent] ELSE chain[p - 1]]
      BY <2>0, <2>5 DEF ClockHigh, BitOnWire
    <3>3. \A p \in Pin : p < sent' => chain'[p] = want[N - sent' + p]
      <4> SUFFICES ASSUME NEW p \in Pin, p < sent + 1
                   PROVE  chain'[p] = want[N - (sent + 1) + p]
        BY <3>1
      <4>1. CASE p = 0
        BY <3>1, <3>2, <4>1, NIsNat DEF Pin
      <4>2. CASE p # 0
        <5>1. p - 1 \in Pin /\ p - 1 < sent
          BY <3>1, <4>2, NIsNat DEF Pin
        <5>2. chain[p - 1] = want[N - sent + (p - 1)]
          BY <2>0, <2>5, <5>1 DEF UnderWay, ClockHigh
        <5>3. N - sent + (p - 1) = N - (sent + 1) + p
          BY <3>1, NIsNat DEF Pin
        <5> QED
          BY <3>2, <4>2, <5>2, <5>3
      <4> QED
        BY <4>1, <4>2
    <3> QED
      BY <2>0, <2>5, <3>1, <3>3 DEF ClockHigh, ImageRight, AtRest, UnderWay, BitOnWire
  <2>6. CASE Strobe
    <3>1. chain = want
      <4>1. \A p \in Pin : chain[p] = want[p]
        BY <2>0, <2>6, NIsNat DEF UnderWay, Strobe, Pin
      <4> QED
        BY <2>0, <4>1 DEF TypeOK
    <3>2. out' = chain
      BY <2>0, <2>6, WireSet DEF Strobe, Drive, UnderWay
    <3> QED
      BY <2>0, <2>6, <3>1, <3>2 DEF Strobe, ImageRight, AtRest, UnderWay, BitOnWire
  <2>7. CASE Reset
    BY <2>7 DEF Reset, ImageRight, AtRest, UnderWay, BitOnWire
  <2>8. CASE UNCHANGED vars
    BY <2>0, <2>8 DEF vars, ImageRight, AtRest, UnderWay, BitOnWire
  <2> QED
    BY <2>1, <2>2, <2>3, <2>4, <2>5, <2>6, <2>7, <2>8 DEF Next, Call, spiSr_send
<1> QED
  BY <1>1, <1>2, TypedInductive, PTL DEF Spec, ShiftInv

----------------------------------------------------------------------------
\* Every variable keeps its type.
THEOREM ShiftRegTypeCorrect ==
  ASSUME Pins \subseteq Pin
  PROVE  Spec => []TypeOK
<1>1. Typed => TypeOK
  BY DEF Typed
<1> QED
  BY <1>1, TypedInductive, PTL

\* Between calls every output has the level its callers asked for last, for any
\* number of registers of any width.
THEOREM OutputsAlwaysMatch ==
  ASSUME Pins \subseteq Pin
  PROVE  Spec => []OutputsMatch
<1>1. ShiftInv => OutputsMatch
  BY DEF ShiftInv, AtRest, OutputsMatch
<1> QED
  BY <1>1, ShiftInvInductive, PTL

\* gpioShiftReg_read answers the level of the output.
THEOREM ReadAlwaysMatches ==
  ASSUME Pins \subseteq Pin
  PROVE  Spec => []ReadMatches
<1>1. ShiftInv => ReadMatches
  <2> SUFFICES ASSUME ShiftInv, step = "idle", NEW p \in Pin
               PROVE  gpioShiftReg_read(p) = out[p]
    BY DEF ReadMatches
  <2>1. srData[<<ByteOf(p), BitOf(p)>>] = out[p] /\ out[p] \in BOOLEAN
    BY DEF ShiftInv, ImageRight, AtRest, Typed, TypeOK
  <2>2. ~Refused(p)
    BY NIsNat DEF Refused, Pin
  <2> QED
    BY <2>1, <2>2 DEF gpioShiftReg_read
<1> QED
  BY <1>1, ShiftInvInductive, PTL

\* No output but the requested one changes, neither while the image is shifted
\* past it nor when it is latched.
THEOREM OnlyTheRequestedPinChanges ==
  ASSUME Pins \subseteq Pin
  PROVE  Spec => OnlyTheRequestedPin
<1> DEFINE Only == step' # "off" /\ asked' # EveryPin
                     => \A p \in Pin : out'[p] # out[p] => p = asked'
<1>1. ShiftInv /\ ShiftInv' /\ [Next]_vars => [Only]_vars
  <2> SUFFICES ASSUME ShiftInv, ShiftInv', Next, step' # "off", asked' # EveryPin,
                      NEW p \in Pin, out'[p] # out[p]
               PROVE  p = asked'
    OBVIOUS
  <2>1. UnderWay /\ AtRest /\ BitOnWire /\ TypeOK
    BY DEF ShiftInv, Typed
  <2>2. CASE gpioShiftReg_init \/ Reset
    BY <2>2 DEF gpioShiftReg_init, Reset, BeginSend
  <2>3. ASSUME NEW pin \in Pins, NEW state \in BOOLEAN, gpioShiftReg_modify(pin, state)
        PROVE  FALSE
    BY <2>1, <2>3, WireSet DEF gpioShiftReg_modify, Drive
  <2>4. CASE ClockLow \/ Data
    <3>1. UnderWay' /\ step' \in {"data", "clock_high"}
      BY <2>4 DEF ShiftInv, ClockLow, Data
    <3> QED
      BY <2>4, <3>1 DEF UnderWay, ClockLow, Data, Drive
  <2>5. CASE ClockHigh
    BY <2>1, <2>5 DEF ClockHigh, UnderWay
  <2>6. CASE Strobe
    BY <2>1, <2>6 DEF Strobe, UnderWay, ShiftInv, AtRest
  <2> QED
    BY <2>2, <2>3, <2>4, <2>5, <2>6 DEF Next, Call, spiSr_send
<1> QED
  BY <1>1, ShiftInvInductive, PTL DEF Spec, OnlyTheRequestedPin
=============================================================================
