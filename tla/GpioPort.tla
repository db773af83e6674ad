------------------------------ MODULE GpioPort ------------------------------
(***************************************************************************)
(* A native GPIO port behind the interface of include/gpio.h: gpio_setMode *)
(* register write by register write, with any caller.  A pin acts on the   *)
(* outside after every write, so the order of the writes matters.          *)
(*                                                                         *)
(* A register is a function from pins to fields, and a field the set of    *)
(* its bits: "&= ~" empties the field of one pin, "|=" adds to it, and a   *)
(* bit that is not masked out stays.                                       *)
(***************************************************************************)
EXTENDS Integers

CONSTANTS
  HALF,   \* pins of one alternate function register (8)
  Modes,  \* the modes that callers ask for
  Afs,    \* the alternate functions they ask for, each the set of its bits
  Speeds  \* the output speeds they ask for

Pin == 0 .. 2 * HALF - 1

\* "UNKNOWN" is a number that is no member of the enum.
Mode == {"INPUT", "INPUT_PULL_UP", "INPUT_PULL_DOWN", "ANALOG", "OUTPUT", "OPEN_DRAIN",
         "OPEN_DRAIN_PU", "ALTERNATE", "ALTERNATE_OD", "ALTERNATE_OD_PU", "UNKNOWN"}
Alternate == {"ALTERNATE", "ALTERNATE_OD", "ALTERNATE_OD_PU"}
Output == {"OUTPUT", "OPEN_DRAIN", "OPEN_DRAIN_PU"}

Speed == {"LOW", "MEDIUM", "FAST", "HIGH"}

ASSUME PortAssumption ==
  /\ HALF \in Nat \ {0}
  /\ Modes \subseteq Mode
  /\ Afs \subseteq SUBSET (0 .. 3)
  /\ Speeds \subseteq Speed

VARIABLES
  MODER, OTYPER, PUPDR, AFR, OSPEEDR, ODR,  \* the registers of the port
  call,   \* the call of gpio_setMode in progress: [step, pin, mode, af]
  asked   \* history: what each pin was last configured as, [mode, af]

config == <<MODER, OTYPER, PUPDR, AFR, OSPEEDR>>
vars == <<config, ODR, call, asked>>

\* The two registers AFR[0] and AFR[1], each with a field per pin of its half.
AfrField == {0, 1} \X (0 .. HALF - 1)

Steps == {"idle", "clear_mode", "clear_type", "clear_pull", "mode", "type", "pull",
          "clear_af", "af"}

TypeOK ==
  /\ MODER \in [Pin -> SUBSET {0, 1}]
  /\ OTYPER \in [Pin -> SUBSET {0}]
  /\ PUPDR \in [Pin -> SUBSET {0, 1}]
  /\ AFR \in [AfrField -> SUBSET (0 .. 3)]
  /\ OSPEEDR \in [Pin -> Speed]
  /\ ODR \in [Pin -> BOOLEAN]
  /\ call \in [step : Steps, pin : Pin, mode : Mode, af : SUBSET (0 .. 3)]
  /\ asked \in [Pin -> [mode : Mode, af : SUBSET (0 .. 3)]]

\* After gpio_init: reset values (every pin analog), and 50 MHz everywhere.
Init ==
  /\ MODER = [p \in Pin |-> {0, 1}]
  /\ OTYPER = [p \in Pin |-> {}] /\ PUPDR = [p \in Pin |-> {}]
  /\ AFR = [f \in AfrField |-> {}]
  /\ OSPEEDR = [p \in Pin |-> "FAST"]
  /\ ODR = [p \in Pin |-> FALSE]
  /\ call = [step |-> "idle", pin |-> 0, mode |-> "ANALOG", af |-> {}]
  /\ asked = [p \in Pin |-> [mode |-> "ANALOG", af |-> {}]]

----------------------------------------------------------------------------
(* gpio_setMode.                                                           *)

\* The bits its switch writes for a mode.
ModeBits(m) ==
  CASE m \in Output    -> {0}
    [] m \in Alternate -> {1}
    [] m = "ANALOG"    -> {0, 1}
    [] OTHER           -> {}

TypeBits(m) ==
  IF m \in {"OPEN_DRAIN", "OPEN_DRAIN_PU", "ALTERNATE_OD", "ALTERNATE_OD_PU"} THEN {0} ELSE {}

PullBits(m) ==
  CASE m \in {"INPUT_PULL_UP", "ALTERNATE_OD_PU"} -> {0}
    [] m = "INPUT_PULL_DOWN"                      -> {1}
    [] OTHER                                      -> {}

\* A mutant: pins from 8 on are looked for in the first register, too.
AfFieldFirst(pin) == <<0, pin % HALF>>

\* The field setGpioAf writes.
AfField(pin) == IF pin < HALF THEN <<0, pin>> ELSE <<1, pin - HALF>>

gpio_setMode(pin, mode, af) ==
  /\ call.step = "idle"
  /\ call' = [step |-> "clear_mode", pin |-> pin, mode |-> mode, af |-> af]
  /\ UNCHANGED <<config, ODR, asked>>

\* The pin number is checked by the device interface only.
gpioApi_mode(pin, mode, af) == pin \in Pin /\ gpio_setMode(pin, mode, af)

\* The device interface dispatches to it.
gpioDev_setMode(pin, mode, af) == gpioApi_mode(pin, mode, af)

Write(from, to) == call.step = from /\ call' = [call EXCEPT !.step = to]

\* A mutant: the driver type is cleared before the mode, while the pin still drives.
ClearTypeFirst ==
  /\ \/ /\ OTYPER[call.pin] # {} /\ call.step = "clear_mode"
        /\ OTYPER' = [OTYPER EXCEPT ![call.pin] = {}]
        /\ UNCHANGED <<MODER, call>>
     \/ /\ OTYPER[call.pin] = {} /\ Write("clear_mode", "clear_type")
        /\ MODER' = [MODER EXCEPT ![call.pin] = {}]
        /\ UNCHANGED OTYPER
  /\ UNCHANGED <<PUPDR, AFR, OSPEEDR, ODR, asked>>

ClearMode ==
  /\ Write("clear_mode", "clear_type")
  /\ MODER' = [MODER EXCEPT ![call.pin] = {}]
  /\ UNCHANGED <<OTYPER, PUPDR, AFR, OSPEEDR, ODR, asked>>

ClearType ==
  /\ Write("clear_type", "clear_pull")
  /\ OTYPER' = [OTYPER EXCEPT ![call.pin] = {}]
  /\ UNCHANGED <<MODER, PUPDR, AFR, OSPEEDR, ODR, asked>>

ClearPull ==
  /\ Write("clear_pull", "mode")
  /\ PUPDR' = [PUPDR EXCEPT ![call.pin] = {}]
  /\ UNCHANGED <<MODER, OTYPER, AFR, OSPEEDR, ODR, asked>>

SetMode ==
  /\ Write("mode", "type")
  /\ MODER' = [MODER EXCEPT ![call.pin] = @ \cup ModeBits(call.mode)]
  /\ UNCHANGED <<OTYPER, PUPDR, AFR, OSPEEDR, ODR, asked>>

SetType ==
  /\ Write("type", "pull")
  /\ OTYPER' = [OTYPER EXCEPT ![call.pin] = @ \cup TypeBits(call.mode)]
  /\ UNCHANGED <<MODER, PUPDR, AFR, OSPEEDR, ODR, asked>>

Returns == asked' = [asked EXCEPT ![call.pin] = [mode |-> call.mode, af |-> call.af]]

SetPull ==
  /\ PUPDR' = [PUPDR EXCEPT ![call.pin] = @ \cup PullBits(call.mode)]
  /\ IF call.mode \in Alternate THEN Write("pull", "clear_af") /\ UNCHANGED asked
     ELSE Write("pull", "idle") /\ Returns
  /\ UNCHANGED <<MODER, OTYPER, AFR, OSPEEDR, ODR>>

ClearAf ==
  /\ Write("clear_af", "af")
  /\ AFR' = [AFR EXCEPT ![AfField(call.pin)] = {}]
  /\ UNCHANGED <<MODER, OTYPER, PUPDR, OSPEEDR, ODR, asked>>

SetAf ==
  /\ Write("af", "idle")
  /\ AFR' = [AFR EXCEPT ![AfField(call.pin)] = @ \cup call.af]
  /\ Returns
  /\ UNCHANGED <<MODER, OTYPER, PUPDR, OSPEEDR, ODR>>

\* The old function is masked out, then the new one put in its place.
setGpioAf == ClearAf \/ SetAf

SetModeStep ==
  ClearMode \/ ClearType \/ ClearPull \/ SetMode \/ SetType \/ SetPull \/ setGpioAf

----------------------------------------------------------------------------
(* The other operations.  A speed is masked and set, too, but nothing      *)
(* looks at it in between; a level is a single store.                      *)

gpio_setOutputSpeed(pin, spd) ==
  /\ call.step = "idle"
  /\ OSPEEDR' = [OSPEEDR EXCEPT ![pin] = spd]
  /\ UNCHANGED <<MODER, OTYPER, PUPDR, AFR, ODR, call, asked>>

\* A store to BSRR: the lower half sets pins, the upper half clears them.
BSRR(bit) ==
  /\ call.step = "idle"
  /\ ODR' = IF bit \in Pin THEN [ODR EXCEPT ![bit] = TRUE]
            ELSE [ODR EXCEPT ![bit - 2 * HALF] = FALSE]
  /\ UNCHANGED <<config, call, asked>>

gpio_setPin(pin) == BSRR(pin)
gpio_clearPin(pin) == BSRR(pin + 2 * HALF)

gpioDev_set(pin) == gpio_setPin(pin)
gpioDev_clear(pin) == gpio_clearPin(pin)

\* Callers give a function with the alternate modes only.
AfsFor(mode) == IF mode \in Alternate THEN Afs ELSE {{}}

Next ==
  \/ \E pin \in Pin, mode \in Modes : \E af \in AfsFor(mode) : gpioDev_setMode(pin, mode, af)
  \/ SetModeStep
  \/ \E pin \in Pin, spd \in Speeds : gpio_setOutputSpeed(pin, spd)
  \/ \E pin \in Pin : gpioDev_set(pin) \/ gpioDev_clear(pin)

Spec == Init /\ [][Next]_vars

----------------------------------------------------------------------------
(* Properties.                                                             *)

\* What the enum Mode documents (gpio.h:33-42).
DocDirection(m) ==
  CASE m \in Output -> "output" [] m \in Alternate -> "alternate"
    [] m = "ANALOG" -> "analog" [] OTHER -> "input"
DocOpenDrain(m) == m \in {"OPEN_DRAIN", "OPEN_DRAIN_PU", "ALTERNATE_OD", "ALTERNATE_OD_PU"}
DocPull(m) ==
  CASE m \in {"INPUT_PULL_UP", "OPEN_DRAIN_PU", "ALTERNATE_OD_PU"} -> "up"
    [] m = "INPUT_PULL_DOWN" -> "down" [] OTHER -> "none"

\* What the hardware makes of a pin's fields.
Direction(p) ==
  CASE MODER[p] = {}  -> "input"     [] MODER[p] = {0} -> "output"
    [] MODER[p] = {1} -> "alternate" [] OTHER          -> "analog"
OpenDrain(p) == OTYPER[p] = {0}
Pull(p) ==
  CASE PUPDR[p] = {}  -> "none" [] PUPDR[p] = {0} -> "up"
    [] PUPDR[p] = {1} -> "down" [] OTHER          -> "reserved"

\* The hardware takes the function of pin p from the field of its half.
Function(p) == AFR[<<p \div HALF, p % HALF>>]

\* A pin that is not being changed is what its last caller asked for, with
\* nothing left over from the modes it had before, and no trace of calls for
\* other pins.
PinsAsAsked ==
  \A p \in Pin : call.step = "idle" \/ call.pin # p =>
    /\ Direction(p) = DocDirection(asked[p].mode)
    /\ OpenDrain(p) = DocOpenDrain(asked[p].mode)
    /\ Pull(p) = DocPull(asked[p].mode)
    /\ asked[p].mode \in Alternate => Function(p) = asked[p].af

\* A pin drives both levels only as a settled push-pull output or on the way
\* from one or to an output: an open-drain line or an input is not shorted
\* while its pin is turned into anything else.
PushPull(p) == MODER[p] = {0} /\ OTYPER[p] = {}
NoStrayDrive ==
  \A p \in Pin : PushPull(p) =>
    \/ asked[p].mode = "OUTPUT"
    \/ call.step # "idle" /\ call.pin = p /\ call.mode \in Output
=============================================================================
