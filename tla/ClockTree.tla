----------------------------- MODULE ClockTree -----------------------------
(***************************************************************************)
(* start_pll (src/src/clock.c): the way from the internal oscillator to a  *)
(* core at 400 MHz and USB at 48 MHz, one action per register write; a     *)
(* wait loop of the code is the guard of the write behind it, and has no   *)
(* timeout.                                                                *)
(*                                                                         *)
(* Three registers are shared and changed by reading, masking and writing  *)
(* them: PLLCKSELR, PLLCFGR and CR.  The first two are sets of bits here,  *)
(* so that "&= ~" is a difference and "|=" a union; CR is the set of the   *)
(* clocks switched on.                                                     *)
(*                                                                         *)
(* The layout of the registers, the voltage regulator, the oscillator, the *)
(* PLLs and the clock switch are hardware, external: they follow the       *)
(* registers in their own time.  Frequencies are in MHz.                   *)
(***************************************************************************)
EXTENDS Integers

VARIABLES
  clk,     \* the registers of start_pll, and how far the hardware follows
  crystal  \* the external oscillator can start

HSI == 64   \* the internal oscillator, running since reset
HSE == 25   \* the external one

PLL == {"PLL1", "PLL3"}

\* PLLCKSELR: the source of all PLLs in bits 0 and 1, a divider M for each.
PLLSRC == 0 .. 1
DIVM == [PLL1 |-> 4, PLL3 |-> 20]
Mask(i) == DIVM[i] .. DIVM[i] + 5

\* PLLCFGR: two bits for the range of each input, one for each output.
RGE == [PLL1 |-> 2, PLL3 |-> 10]
DIVP1EN == 16
DIVQ1EN == 17
DIVQ3EN == 23

ResetClk ==
  [at      |-> 0,                             \* register writes of start_pll so far
   scuen   |-> TRUE, vos |-> 3, scale |-> 3,  \* scale: what the regulator supplies
   CR      |-> {"HSI"}, rdy |-> {"HSI"},
   PLLCKSELR |-> {9, 17, 25},                 \* HSI, every M is 32
   PLLCFGR |-> 16 .. 24,                      \* all outputs, inputs from 1 to 2 MHz
   DIVR    |-> [i \in PLL |-> [N |-> 128, P |-> 1, Q |-> 1, R |-> 1]],
   ahb     |-> 1, apb |-> [i \in 1 .. 4 |-> 1],
   waits   |-> 7,                             \* flash wait states
   sw      |-> "HSI", sws |-> "HSI",          \* sws: what the core runs from
   usb     |-> "OFF"]

----------------------------------------------------------------------------
(* The writes of start_pll.                                                *)

Ready(c) == c \in clk.CR \cap clk.rdy

\* The n-th write, which leaves the registers as given.
Write(n, regs) == clk.at = n - 1 /\ clk' = [regs EXCEPT !.at = n]

ClearScuen == Write(1, [clk EXCEPT !.scuen = FALSE])

SetScale == Write(2, [clk EXCEPT !.vos = 1])

\* A mutant: the wait for the regulator is left out.
VosReadyAtOnce == TRUE

VosReady == clk.scale = clk.vos

StartHse == VosReady /\ Write(3, [clk EXCEPT !.CR = @ \cup {"HSE"}])

\* 5 << DIVM_Pos, the bits 0 and 2 of the field.
Five(i) == {DIVM[i], DIVM[i] + 2}

SelectHse ==
  /\ Ready("HSE")
  /\ Write(4, [clk EXCEPT !.PLLCKSELR = (@ \ (Mask("PLL1") \cup PLLSRC)) \cup Five("PLL1") \cup {1}])

SetRatioPll1 ==
  Write(5, [clk EXCEPT !.DIVR["PLL1"] = [N |-> 160 - 1, P |-> 2 - 1, Q |-> 8 - 1, R |-> 2 - 1]])

\* RGE_2 is the upper of the two bits of a range.
ConfigurePll1 ==
  Write(6, [clk EXCEPT !.PLLCFGR = @ \cup {RGE["PLL1"] + 1, DIVP1EN, DIVQ1EN}])

StartPll1 == Write(7, [clk EXCEPT !.CR = @ \cup {"PLL1"}])

\* D1CFGR, D2CFGR and D3CFGR; the core itself is not divided.
DivideD1 == Ready("PLL1") /\ Write(8, [clk EXCEPT !.ahb = 2, !.apb[3] = 2])
DivideD2 == Write(9, [clk EXCEPT !.apb[1] = 2, !.apb[2] = 2])
DivideD3 == Write(10, [clk EXCEPT !.apb[4] = 2])

SetWaitStates == Write(11, [clk EXCEPT !.waits = 2])

SwitchToPll1 == Write(12, [clk EXCEPT !.sw = "PLL1"])

\* A mutant: the register is written without the bits of the first PLL.
DividePll3Alone ==
  /\ clk.sws = "PLL1"
  /\ Write(13, [clk EXCEPT !.PLLCKSELR = Five("PLL3")])

\* A mutant: the old divider is not masked out.
DividePll3Unmasked ==
  /\ clk.sws = "PLL1"
  /\ Write(13, [clk EXCEPT !.PLLCKSELR = @ \cup Five("PLL3")])

DividePll3 ==
  /\ clk.sws = "PLL1"
  /\ Write(13, [clk EXCEPT !.PLLCKSELR = (@ \ Mask("PLL3")) \cup Five("PLL3")])

\* The same divider once more, bit by bit.
DividePll3Again == Write(14, [clk EXCEPT !.PLLCKSELR = @ \cup Five("PLL3")])

SetRatioPll3 ==
  Write(15, [clk EXCEPT !.DIVR["PLL3"] = [N |-> 48 - 1, P |-> 2 - 1, Q |-> 5 - 1, R |-> 2 - 1]])

ConfigurePll3 == Write(16, [clk EXCEPT !.PLLCFGR = @ \cup {RGE["PLL3"] + 1, DIVQ3EN}])

StartPll3 == Write(17, [clk EXCEPT !.CR = @ \cup {"PLL3"}])

SelectUsbClock == Ready("PLL3") /\ Write(18, [clk EXCEPT !.usb = "PLL3Q"])

\* All of start_pll but its last write.
start_pll ==
  \/ ClearScuen \/ SetScale \/ StartHse
  \/ SelectHse \/ SetRatioPll1 \/ ConfigurePll1 \/ StartPll1
  \/ DivideD1 \/ DivideD2 \/ DivideD3 \/ SetWaitStates \/ SwitchToPll1
  \/ DividePll3 \/ DividePll3Again \/ SetRatioPll3 \/ ConfigurePll3 \/ StartPll3

----------------------------------------------------------------------------
(* The hardware.                                                           *)

Source ==
  LET bits == clk.PLLCKSELR \cap PLLSRC
  IN CASE bits = {}  -> IF Ready("HSI") THEN HSI ELSE 0
       [] bits = {1} -> IF Ready("HSE") THEN HSE ELSE 0
       [] OTHER      -> 0

ScaleReached ==
  /\ ~clk.scuen /\ clk.scale # clk.vos
  /\ clk' = [clk EXCEPT !.scale = clk.vos]

HseStarts ==
  /\ crystal /\ "HSE" \in clk.CR \ clk.rdy
  /\ clk' = [clk EXCEPT !.rdy = @ \cup {"HSE"}]

PllLocks ==
  /\ Source # 0
  /\ \E i \in PLL : i \in clk.CR \ clk.rdy /\ clk' = [clk EXCEPT !.rdy = @ \cup {i}]

ClockSwitches ==
  /\ clk.sw = "PLL1" /\ clk.sws = "HSI" /\ Ready("PLL1")
  /\ clk' = [clk EXCEPT !.sws = "PLL1"]

ClockHardware == ScaleReached \/ HseStarts \/ PllLocks \/ ClockSwitches

\* A field's k-th bit, weighed.
Bit(reg, pos, k, weight) == IF pos + k \in reg THEN weight ELSE 0

\* M, six bits; 0 switches the input off.
Divider(i) ==
  LET b(k, w) == Bit(clk.PLLCKSELR, DIVM[i], k, w)
  IN b(0, 1) + b(1, 2) + b(2, 4) + b(3, 8) + b(4, 16) + b(5, 32)

\* The range selected for the input: 1, 2, 4 or 8 MHz up to twice as much.
RangeFrom(i) ==
  (IF RGE[i] \in clk.PLLCFGR THEN 2 ELSE 1) * (IF RGE[i] + 1 \in clk.PLLCFGR THEN 4 ELSE 1)

\* The registers hold N - 1, P - 1 and Q - 1.
Vco(i) == IF Divider(i) = 0 THEN 0 ELSE (Source * (clk.DIVR[i].N + 1)) \div Divider(i)

CpuClock ==
  CASE clk.sws = "HSI"                              -> HSI
    [] clk.sws = "PLL1" /\ DIVP1EN \in clk.PLLCFGR  -> Vco("PLL1") \div (clk.DIVR["PLL1"].P + 1)
    [] OTHER                                        -> 0
AhbClock == CpuClock \div clk.ahb
ApbClock(i) == AhbClock \div clk.apb[i]
UsbClock ==
  IF clk.usb = "PLL3Q" /\ Ready("PLL3") /\ DIVQ3EN \in clk.PLLCFGR
  THEN Vco("PLL3") \div (clk.DIVR["PLL3"].Q + 1) ELSE 0

----------------------------------------------------------------------------
(* Properties.                                                             *)

\* At no step of start_pll does a clock leave what the chip allows at its
\* voltage: core, bus and peripherals by the supply scale reached so far, the
\* flash by its wait states, and a PLL that is on by the range its PLLCFGR field
\* selects for its input, and its oscillator.  The order of the writes and the
\* waits between them see to it.  The range is the one in the register; that in
\* the comment of clock.c:22, 8 to 16 MHz, is neither the one selected nor one the
\* reference lies in.
ClockWithinLimits ==
  /\ CpuClock <= (IF clk.scale = 1 THEN 400 ELSE 200)
  /\ AhbClock <= (IF clk.scale = 1 THEN 200 ELSE 100)
  /\ \A i \in 1 .. 4 : ApbClock(i) <= 100
  /\ AhbClock <= (clk.waits + 1) * (IF clk.scale = 1 THEN 70 ELSE 45)
  /\ \A i \in PLL \cap clk.CR :
       /\ RangeFrom(i) * Divider(i) <= Source /\ Source <= 2 * RangeFrom(i) * Divider(i)
       /\ Vco(i) \in 192 .. 836

\* What a PLL runs from and by, if it is on.
Running(i) ==
  IF i \in clk.CR THEN <<Source, Divider(i), RangeFrom(i), clk.DIVR[i]>> ELSE <<>>

\* The second PLL is set up through registers it shares with the first, from
\* which the core runs by then: none of these writes changes a bit of the first.
Pll1Undisturbed ==
  [][clk.at >= 7 /\ clk' # ResetClk => Running("PLL1")' = Running("PLL1")]_clk
============================================================================
