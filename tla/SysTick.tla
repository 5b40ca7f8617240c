------------------------------ MODULE SysTick ------------------------------
(***************************************************************************)
(* The SysTick exception handler of src/main.rs and the globals it shares  *)
(* with main(): TIMING_DELAY, the delay_ms() counter, and the three arrays *)
(* of the debounced pushbuttons.  The handler runs once a millisecond; the *)
(* only code that can preempt it, the DMA1 channel 1 handler, touches none *)
(* of its data, so one tick is one step.                                   *)
(***************************************************************************)
EXTENDS Integers

CONSTANTS
  BUTTONS,    \* the pushbuttons, 0 .. 3 in the code
  DEBOUNCE    \* ticks for which a button is ignored after a change, 100

ASSUME SysTickAssumption == DEBOUNCE \in Nat

VARIABLES
  TIMING_DELAY, BUTTON_STATE, BUTTON_CHANGED, BUTTON_DEBOUNCE

sysTickVars == <<TIMING_DELAY, BUTTON_STATE, BUTTON_CHANGED, BUTTON_DEBOUNCE>>

\* Mutated form: no debounce time after a change.
FlippedUndebounced(down) ==
  {i \in BUTTONS : (i \in down) # BUTTON_STATE[i]}

\* Buttons whose debounced state a tick changes, if the pins of `down' are low.
Flipped(down) ==
  {i \in BUTTONS : BUTTON_DEBOUNCE[i] = 0 /\ (i \in down) # BUTTON_STATE[i]}

\* Mutated form: counts down past zero.
delay_tick_unguarded == TIMING_DELAY - 1

\* "decrement delay"
delay_tick == IF TIMING_DELAY # 0 THEN TIMING_DELAY - 1 ELSE 0

\* The handler; `down' is the set of buttons whose pin reads low at this tick.
systick_handler(down) ==
  /\ TIMING_DELAY' = delay_tick
  /\ BUTTON_STATE' = [i \in BUTTONS |-> IF i \in Flipped(down) THEN ~BUTTON_STATE[i]
                                                               ELSE BUTTON_STATE[i]]
  /\ BUTTON_CHANGED' = [i \in BUTTONS |-> i \in Flipped(down) \/ BUTTON_CHANGED[i]]
  /\ BUTTON_DEBOUNCE' = [i \in BUTTONS |->
        CASE i \in Flipped(down)    -> DEBOUNCE
          [] BUTTON_DEBOUNCE[i] > 0 -> BUTTON_DEBOUNCE[i] - 1
          [] OTHER                  -> 0]

SysTickTypeOK ==
  /\ TIMING_DELAY \in Nat
  /\ BUTTON_STATE \in [BUTTONS -> BOOLEAN]
  /\ BUTTON_CHANGED \in [BUTTONS -> BOOLEAN]
  /\ BUTTON_DEBOUNCE \in [BUTTONS -> 0 .. DEBOUNCE]
=============================================================================
