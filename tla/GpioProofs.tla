----------------------------- MODULE GpioProofs -----------------------------
(***************************************************************************)
(* GpioPort for ports of any size, any modes, functions and speeds.        *)
(***************************************************************************)
EXTENDS GpioPort, TLAPS

\* Dividing a pin number by the size of a half gives the half it lies in.
LEMMA HalfOfPin ==
  \A p \in Pin : /\ p < HALF => p \div HALF = 0 /\ p % HALF = p
                 /\ p >= HALF => p \div HALF = 1 /\ p % HALF = p - HALF
  BY PortAssumption DEF Pin

\* The register field that gpio_setMode selects a function in is the one the
\* hardware takes the pin's function from.
LEMMA AfFieldIsTheHardwares ==
  \A p \in Pin : AfField(p) = <<p \div HALF, p % HALF>> /\ AfField(p) \in AfrField
  BY HalfOfPin, PortAssumption DEF Pin, AfField, AfrField

----------------------------------------------------------------------------
(* Types.                                                                  *)

\* Registers, the call in progress and the record of what was asked keep their
\* types, for a port of any size.
THEOREM GpioTypeCorrect == Spec => []TypeOK
<1>1. Init => TypeOK
  BY PortAssumption DEF Init, TypeOK, Pin, Speed, Mode, Steps
<1>2. TypeOK /\ [Next]_vars => TypeOK'
  <2> SUFFICES ASSUME TypeOK, [Next]_vars PROVE TypeOK'
    OBVIOUS
  <2> USE DEF TypeOK, Steps, Write, Returns
  <2>1. ASSUME NEW pin \in Pin, NEW mode \in Modes, NEW af \in AfsFor(mode),
               gpioDev_setMode(pin, mode, af)
        PROVE  TypeOK'
    BY <2>1, PortAssumption DEF AfsFor, gpioDev_setMode, gpioApi_mode, gpio_setMode, config
  <2>2. CASE ClearMode
    BY <2>2 DEF ClearMode
  <2>3. CASE ClearType
    BY <2>3 DEF ClearType
  <2>4. CASE ClearPull
    BY <2>4 DEF ClearPull
  <2>5. CASE SetMode
    BY <2>5 DEF SetMode, ModeBits
  <2>6. CASE SetType
    BY <2>6 DEF SetType, TypeBits
  <2>7. CASE SetPull
    <3>1. PUPDR' \in [Pin -> SUBSET {0, 1}]
      <4>1. PullBits(call.mode) \subseteq {0, 1}
        BY DEF PullBits
      <4> QED
        BY <4>1, <2>7 DEF SetPull
    <3>2. UNCHANGED <<MODER, OTYPER, AFR, OSPEEDR, ODR>>
      BY <2>7 DEF SetPull
    <3>3. call' \in [step : Steps, pin : Pin, mode : Mode, af : SUBSET (0 .. 3)]
      BY <2>7 DEF SetPull
    <3>4. asked' \in [Pin -> [mode : Mode, af : SUBSET (0 .. 3)]]
      BY <2>7 DEF SetPull
    <3> QED
      BY <3>1, <3>2, <3>3, <3>4
  <2>8. CASE setGpioAf
    <3>1. AFR' \in [AfrField -> SUBSET (0 .. 3)]
      <4>1. CASE ClearAf
        BY <4>1 DEF ClearAf
      <4>2. CASE SetAf
        BY <4>2 DEF SetAf
      <4> QED
        BY <2>8, <4>1, <4>2 DEF setGpioAf
    <3>2. UNCHANGED <<MODER, OTYPER, PUPDR, OSPEEDR, ODR>>
      BY <2>8 DEF setGpioAf, ClearAf, SetAf
    <3>3. call' \in [step : Steps, pin : Pin, mode : Mode, af : SUBSET (0 .. 3)]
      BY <2>8 DEF setGpioAf, ClearAf, SetAf
    <3>4. asked' \in [Pin -> [mode : Mode, af : SUBSET (0 .. 3)]]
      BY <2>8 DEF setGpioAf, ClearAf, SetAf
    <3> QED
      BY <3>1, <3>2, <3>3, <3>4
  <2>9. ASSUME NEW pin \in Pin, NEW spd \in Speeds, gpio_setOutputSpeed(pin, spd)
        PROVE  TypeOK'
    BY <2>9, PortAssumption DEF gpio_setOutputSpeed
  <2>10. ASSUME NEW bit, BSRR(bit) PROVE TypeOK'
    BY <2>10 DEF BSRR, config
  <2>11. CASE UNCHANGED vars
    BY <2>11 DEF vars, config
  <2> QED
    BY <2>1, <2>2, <2>3, <2>4, <2>5, <2>6, <2>7, <2>8, <2>9, <2>10, <2>11
    DEF Next, SetModeStep, gpioDev_set, gpioDev_clear, gpio_setPin, gpio_clearPin
<1> QED
  BY <1>1, <1>2, PTL DEF Spec

----------------------------------------------------------------------------
(* The inductive invariant: what the registers hold of a pin at every step *)
(* of gpio_setMode.                                                        *)

\* A pin's fields are what the switch of gpio_setMode writes for m.
Settled(p, m) ==
  /\ MODER[p] = ModeBits(m) /\ OTYPER[p] = TypeBits(m) /\ PUPDR[p] = PullBits(m)

\* A pin nobody is changing is settled; so is the pin of a call that has not
\* written yet.  On the way, a field is cleared before it is set.
PinInv(p) ==
  /\ call.step \in {"idle", "clear_mode"} \/ call.pin # p =>
       Settled(p, asked[p].mode)
  /\ call.step = "idle" \/ call.pin # p =>
       (asked[p].mode \in Alternate => AFR[AfField(p)] = asked[p].af)
  /\ call.step # "idle" /\ call.pin = p =>
       /\ call.step \in {"clear_type", "clear_pull", "mode"} => MODER[p] = {}
       /\ call.step \in {"clear_pull", "mode", "type"} => OTYPER[p] = {}
       /\ call.step \in {"mode", "type", "pull"} => PUPDR[p] = {}
       /\ call.step \in {"type", "pull", "clear_af", "af"} => MODER[p] = ModeBits(call.mode)
       /\ call.step \in {"pull", "clear_af", "af"} => OTYPER[p] = TypeBits(call.mode)
       /\ call.step \in {"clear_af", "af"} =>
            PUPDR[p] = PullBits(call.mode) /\ call.mode \in Alternate
       /\ call.step = "af" => AFR[AfField(p)] = {}

GpioInv == TypeOK /\ \A p \in Pin : PinInv(p)

\* Two pins have two fields.
LEMMA AfFieldsDiffer ==
  \A p, q \in Pin : p # q => AfField(p) # AfField(q)
  BY PortAssumption DEF Pin, AfField

\* Every step of gpio_setMode moves the pin of the call one step on and leaves
\* the other pins alone.
LEMMA GpioInvInductive == Spec => []GpioInv
<1>1. Init => GpioInv
  BY PortAssumption, AfFieldIsTheHardwares
  DEF Init, GpioInv, TypeOK, Pin, Speed, Mode, Steps, PinInv, Settled, ModeBits, TypeBits,
      PullBits, Output, Alternate
<1>2. GpioInv /\ TypeOK' /\ [Next]_vars => GpioInv'
  <2> SUFFICES ASSUME GpioInv, TypeOK', [Next]_vars, NEW p \in Pin PROVE PinInv(p)'
    BY DEF GpioInv
  <2>0. TypeOK /\ PinInv(p)
    BY DEF GpioInv
  <2> USE DEF TypeOK, Write, Returns, PinInv, Settled
  <2>1. ASSUME NEW pin \in Pin, NEW mode \in Modes, NEW af \in AfsFor(mode),
               gpioDev_setMode(pin, mode, af)
        PROVE  PinInv(p)'
    BY <2>0, <2>1 DEF gpioDev_setMode, gpioApi_mode, gpio_setMode, config
  <2>2. CASE ClearMode
    BY <2>0, <2>2 DEF ClearMode
  <2>3. CASE ClearType
    BY <2>0, <2>3 DEF ClearType
  <2>4. CASE ClearPull
    BY <2>0, <2>4 DEF ClearPull
  <2>5. CASE SetMode
    BY <2>0, <2>5 DEF SetMode
  <2>6. CASE SetType
    BY <2>0, <2>6 DEF SetType
  <2>7. CASE SetPull
    <3>1. CASE call.mode \in Alternate
      BY <2>0, <2>7, <3>1 DEF SetPull
    <3>2. CASE call.mode \notin Alternate
      <4>1. /\ call.step = "pull" /\ call' = [call EXCEPT !.step = "idle"]
            /\ UNCHANGED <<MODER, OTYPER, AFR>>
            /\ asked' = [asked EXCEPT ![call.pin] = [mode |-> call.mode, af |-> call.af]]
            /\ PUPDR' = [PUPDR EXCEPT ![call.pin] = @ \cup PullBits(call.mode)]
        BY <2>7, <3>2 DEF SetPull
      <4>2. CASE call.pin = p
        <5>1. MODER[p] = ModeBits(call.mode) /\ OTYPER[p] = TypeBits(call.mode) /\ PUPDR[p] = {}
          BY <2>0, <4>1, <4>2
        <5>2. PUPDR'[p] = PullBits(call.mode)
          BY <2>0, <4>1, <4>2, <5>1
        <5>3. asked'[p].mode = call.mode /\ call'.step = "idle"
          BY <2>0, <4>1, <4>2
        <5>4. Settled(p, call.mode)'
          BY <2>0, <4>1, <4>2, <5>1, <5>2
        <5> QED
          BY <3>2, <4>1, <5>3, <5>4
      <4>3. CASE call.pin # p
        BY <2>0, <4>1, <4>3
      <4> QED
        BY <4>2, <4>3
    <3> QED
      BY <3>1, <3>2
  <2>8. CASE setGpioAf
    <3>1. AfField(call.pin) \in AfrField /\ AfField(p) \in AfrField
      BY <2>0, AfFieldIsTheHardwares
    <3>2. call.pin # p => AfField(call.pin) # AfField(p)
      BY <2>0, AfFieldsDiffer
    <3>3. CASE ClearAf
      BY <2>0, <3>1, <3>2, <3>3 DEF ClearAf
    <3>4. CASE SetAf
      <4>1. /\ call.step = "af" /\ call' = [call EXCEPT !.step = "idle"]
            /\ UNCHANGED <<MODER, OTYPER, PUPDR>>
            /\ asked' = [asked EXCEPT ![call.pin] = [mode |-> call.mode, af |-> call.af]]
            /\ AFR' = [AFR EXCEPT ![AfField(call.pin)] = @ \cup call.af]
        BY <3>4 DEF SetAf
      <4>2. CASE call.pin = p
        <5>1. Settled(p, call.mode) /\ AFR[AfField(p)] = {} /\ call.mode \in Alternate
          BY <2>0, <4>1, <4>2
        <5>2. AFR'[AfField(p)] = call.af
          BY <2>0, <3>1, <4>1, <4>2, <5>1
        <5>3. asked'[p].mode = call.mode /\ asked'[p].af = call.af /\ call'.step = "idle"
          BY <2>0, <4>1, <4>2
        <5> QED
          BY <4>1, <5>1, <5>2, <5>3
      <4>3. CASE call.pin # p
        BY <2>0, <3>1, <3>2, <4>1, <4>3
      <4> QED
        BY <4>2, <4>3
    <3> QED
      BY <2>8, <3>3, <3>4 DEF setGpioAf
  <2>9. ASSUME NEW pin \in Pin, NEW spd \in Speeds, gpio_setOutputSpeed(pin, spd)
        PROVE  PinInv(p)'
    BY <2>0, <2>9 DEF gpio_setOutputSpeed
  <2>10. ASSUME NEW bit, BSRR(bit) PROVE PinInv(p)'
    BY <2>0, <2>10 DEF BSRR, config
  <2>11. CASE UNCHANGED vars
    BY <2>0, <2>11 DEF vars, config
  <2> QED
    BY <2>1, <2>2, <2>3, <2>4, <2>5, <2>6, <2>7, <2>8, <2>9, <2>10, <2>11
    DEF Next, SetModeStep, gpioDev_set, gpioDev_clear, gpio_setPin, gpio_clearPin
<1> QED
  BY <1>1, <1>2, GpioTypeCorrect, PTL DEF Spec

----------------------------------------------------------------------------
\* A call never asks for a mode its caller does not use.
OnlyModes == call.mode \in Modes \cup {"ANALOG"} /\ \A p \in Pin : asked[p].mode \in Modes \cup {"ANALOG"}

\* What a pin was last asked to be is one of the callers' modes.
LEMMA OnlyModesAsked == Spec => []OnlyModes
<1>1. Init => OnlyModes
  BY DEF Init, OnlyModes
<1>2. TypeOK /\ OnlyModes /\ [Next]_vars => OnlyModes'
  <2> SUFFICES ASSUME TypeOK, OnlyModes, [Next]_vars PROVE OnlyModes'
    OBVIOUS
  <2> USE DEF TypeOK, OnlyModes, Write, Returns
  <2>1. ASSUME NEW pin \in Pin, NEW mode \in Modes, NEW af \in AfsFor(mode),
               gpioDev_setMode(pin, mode, af)
        PROVE  OnlyModes'
    BY <2>1 DEF gpioDev_setMode, gpioApi_mode, gpio_setMode
  <2>2. CASE ClearMode \/ ClearType \/ ClearPull
    BY <2>2 DEF ClearMode, ClearType, ClearPull
  <2>3. CASE SetMode \/ SetType
    BY <2>3 DEF SetMode, SetType
  <2>4. CASE SetPull
    BY <2>4 DEF SetPull, Steps
  <2>5. CASE setGpioAf
    <3>1. CASE ClearAf
      BY <3>1 DEF ClearAf
    <3>2. CASE SetAf
      BY <3>2 DEF SetAf
    <3> QED
      BY <2>5, <3>1, <3>2 DEF setGpioAf
  <2>6. ASSUME NEW pin \in Pin, NEW spd \in Speeds, gpio_setOutputSpeed(pin, spd)
        PROVE  OnlyModes'
    BY <2>6 DEF gpio_setOutputSpeed
  <2>7. ASSUME NEW bit, BSRR(bit) PROVE OnlyModes'
    BY <2>7 DEF BSRR
  <2>8. CASE UNCHANGED vars
    BY <2>8 DEF vars
  <2> QED
    BY <2>1, <2>2, <2>3, <2>4, <2>5, <2>6, <2>7, <2>8
    DEF Next, SetModeStep, gpioDev_set, gpioDev_clear, gpio_setPin, gpio_clearPin
<1> QED
  BY <1>1, <1>2, GpioTypeCorrect, PTL DEF Spec

\* The bits gpio_setMode writes mean what the enum documents, for every mode but
\* OPEN_DRAIN_PU.
LEMMA BitsMeanTheMode ==
  ASSUME NEW p \in Pin, NEW m \in Mode \ {"OPEN_DRAIN_PU"}, Settled(p, m)
  PROVE  /\ Direction(p) = DocDirection(m)
         /\ OpenDrain(p) = DocOpenDrain(m)
         /\ Pull(p) = DocPull(m)
<1> USE DEF Settled, Output, Alternate, Mode
<1>1. Direction(p) = DocDirection(m)
  BY DEF ModeBits, Direction, DocDirection
<1>2. OpenDrain(p) = DocOpenDrain(m)
  BY DEF TypeBits, OpenDrain, DocOpenDrain
<1>3. Pull(p) = DocPull(m)
  BY DEF PullBits, Pull, DocPull
<1> QED
  BY <1>1, <1>2, <1>3

\* Whatever the callers do, a pin nobody is changing is configured as documented
\* for the mode it was last given, as long as nobody asks for OPEN_DRAIN_PU.
THEOREM PinsAlwaysAsAsked ==
  ASSUME "OPEN_DRAIN_PU" \notin Modes
  PROVE  Spec => []PinsAsAsked
<1>1. GpioInv /\ OnlyModes => PinsAsAsked
  <2> SUFFICES ASSUME GpioInv, OnlyModes, NEW p \in Pin,
                      call.step = "idle" \/ call.pin # p
               PROVE  /\ Direction(p) = DocDirection(asked[p].mode)
                      /\ OpenDrain(p) = DocOpenDrain(asked[p].mode)
                      /\ Pull(p) = DocPull(asked[p].mode)
                      /\ asked[p].mode \in Alternate => Function(p) = asked[p].af
    BY DEF PinsAsAsked
  <2>1. asked[p].mode \in Mode \ {"OPEN_DRAIN_PU"}
    BY DEF GpioInv, TypeOK, OnlyModes
  <2>2. PinInv(p)
    BY DEF GpioInv
  <2>3. /\ Direction(p) = DocDirection(asked[p].mode)
        /\ OpenDrain(p) = DocOpenDrain(asked[p].mode)
        /\ Pull(p) = DocPull(asked[p].mode)
    BY <2>1, <2>2, BitsMeanTheMode DEF PinInv
  <2>4. asked[p].mode \in Alternate => Function(p) = asked[p].af
    BY <2>2, AfFieldIsTheHardwares DEF PinInv, Function
  <2> QED
    BY <2>3, <2>4
<1> QED
  BY <1>1, GpioInvInductive, OnlyModesAsked, PTL

\* No pin drives a line it was not asked to drive, between any two of the
\* writes, for every mode.
THEOREM NeverAStrayDrive == Spec => []NoStrayDrive
<1>1. GpioInv => NoStrayDrive
  <2> SUFFICES ASSUME GpioInv, NEW p \in Pin, PushPull(p),
                      ~(call.step # "idle" /\ call.pin = p /\ call.mode \in Output)
               PROVE  asked[p].mode = "OUTPUT"
    BY DEF NoStrayDrive
  <2>1. PinInv(p) /\ asked[p].mode \in Mode /\ call.step \in Steps /\ call.mode \in Mode
    BY DEF GpioInv, TypeOK
  <2> QED
    BY <2>1 DEF PushPull, PinInv, Settled, ModeBits, TypeBits, Output, Alternate, Mode, Steps
<1> QED
  BY <1>1, GpioInvInductive, PTL
=============================================================================
