----------------------------- MODULE LoopTasks -----------------------------
(***************************************************************************)
(* The small tasks of the main loop (src/src/main.c): the SysTick counter, *)
(* the blinking LED and the console on the CDC interface.                  *)
(*                                                                         *)
(* The tick is interrupt driven and comes between any two steps of the     *)
(* loop.  TinyUSB's two FIFOs and the terminal of the host are external;   *)
(* only the number of bytes in a FIFO matters.                             *)
(***************************************************************************)
EXTENDS Integers

CONSTANTS
  WRAP,      \* the tick counts modulo this (2^32)
  INTERVAL,  \* blink_interval_ms (250)
  FIFO,      \* CFG_TUD_CDC_RX_BUFSIZE, CFG_TUD_CDC_TX_BUFSIZE (64)
  LINE       \* bytes printUnsignedInt writes (12)

ASSUME LoopAssumption ==
  /\ WRAP \in Nat /\ INTERVAL \in 1 .. WRAP - 1
  /\ FIFO \in Nat \ {0}
  /\ LINE \in Nat \ {0}

VARIABLES
  g_tickCount,
  led,   \* [start_ms, led_state, level: RED_LED, age: history, the ms since
         \*  the last beat]
  cdc    \* [rx, tx: bytes in the FIFOs, btn_prev]

tasks == <<g_tickCount, led, cdc>>

LoopTypeOK ==
  /\ g_tickCount \in 0 .. WRAP - 1
  /\ led \in [start_ms : 0 .. WRAP - 1, led_state : BOOLEAN, level : BOOLEAN,
              age : 0 .. WRAP - 1]
  /\ cdc \in [rx : 0 .. FIFO, tx : 0 .. FIFO, btn_prev : BOOLEAN]

ZeroTick == 0
\* main() lights the LED before the loop.
ZeroLed == [start_ms |-> 0, led_state |-> TRUE, level |-> TRUE, age |-> 0]
ZeroCdc == [rx |-> 0, tx |-> 0, btn_prev |-> FALSE]

Least(a, b) == IF a <= b THEN a ELSE b

----------------------------------------------------------------------------
\* The age of a beat is the true time, which does not wrap.  A loop that is
\* held up for WRAP ms (49 days) is left out.
SysTick_Handler ==
  /\ led.age < WRAP - 1
  /\ g_tickCount' = (g_tickCount + 1) % WRAP
  /\ led' = [led EXCEPT !.age = @ + 1]
  /\ UNCHANGED cdc

\* A mutant: the sum wraps, the difference does not.
DueBySum == g_tickCount >= (led.start_ms + INTERVAL) % WRAP

Due == (g_tickCount - led.start_ms) % WRAP >= INTERVAL

\* A mutant: start_ms is wider than the tick.
led_blinking_task_wide ==
  /\ Due
  /\ led' = [start_ms |-> led.start_ms + INTERVAL, led_state |-> ~led.led_state,
             level |-> led.led_state, age |-> led.age - INTERVAL]
  /\ UNCHANGED <<g_tickCount, cdc>>

\* One beat per call; after a long stall the next calls make up for it.
led_blinking_task ==
  /\ Due
  /\ led' = [start_ms |-> (led.start_ms + INTERVAL) % WRAP, led_state |-> ~led.led_state,
             level |-> led.led_state, age |-> led.age - INTERVAL]
  /\ UNCHANGED <<g_tickCount, cdc>>

\* What tud_cdc_write takes of n bytes; the callers do not look at it.
Accepted(n, tx) == Least(n, FIFO - tx)

\* Prints a number: what the FIFO takes of the line.
printUnsignedInt(tx) == Accepted(LINE, tx)

\* The buffer of cdc_task is as long as the FIFO it empties.  btn is the level
\* of the alarm key, high when it is released: a release prints the tick.
cdc_task(btn) ==
  LET echoed  == Accepted(cdc.rx, cdc.tx)
      printed == IF ~cdc.btn_prev /\ btn THEN printUnsignedInt(cdc.tx + echoed) ELSE 0
  IN /\ cdc' = [rx |-> 0, tx |-> cdc.tx + echoed + printed, btn_prev |-> btn]
     /\ UNCHANGED <<g_tickCount, led>>

\* The terminal sends; the endpoint takes no more than the FIFO has room for.
HostSends ==
  /\ \E n \in cdc.rx + 1 .. FIFO : cdc' = [cdc EXCEPT !.rx = n]
  /\ UNCHANGED <<g_tickCount, led>>

HostReads ==
  /\ \E n \in 0 .. cdc.tx - 1 : cdc' = [cdc EXCEPT !.tx = n]
  /\ UNCHANGED <<g_tickCount, led>>

----------------------------------------------------------------------------
(* Properties.                                                             *)

\* "Blink every interval ms" (main.c:144): a beat is due exactly when a whole
\* interval of true time has gone by since the last one, also when the counter
\* has wrapped in between and when the loop is late by several intervals.
BeatsOnTime == Due <=> led.age >= INTERVAL
=============================================================================
