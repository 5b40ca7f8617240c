------------------------------ MODULE Timebase ------------------------------
(***************************************************************************)
(* The timebase: capture::set_timebase() reprogramming TIM15 in the middle *)
(* of a sweep, one register write at a time while the timer goes on        *)
(* counting, and ADC1, which takes its time over each conversion and       *)
(* ignores a trigger that comes before it is done.                         *)
(*                                                                         *)
(* `gap' and `settled' are history variables: the clocks since the latest  *)
(* conversion began, and whether it began under the present setting.       *)
(***************************************************************************)
EXTENDS Timer, TimebaseRegs

CONSTANTS
  Rates,         \* sample rates that set_timebase is called with
  FirstRate,     \* the rate that main() sets before its loop, 6400
  MaxCall        \* bound: clocks that the four register writes take together

VARIABLES
  pc,            \* next register write of set_timebase, "idle" outside it
  rate,          \* the setting: the argument of the latest completed call
  arg,           \* argument of the call in progress
  callClocks,    \* clocks since the call's first write
  busy,          \* clocks left of the conversion in progress
  gap, settled

callVars == <<pc, rate, arg, callClocks>>
adcVars  == <<busy, gap, settled>>
vars     == <<timerVars, callVars, adcVars>>

-----------------------------------------------------------------------------
ASSUME TimebaseAssumption ==
  /\ MaxCall \in Nat
  /\ Rates \subseteq 1 .. CLOCK /\ FirstRate \in Rates
  /\ \A r \in Rates : arr_of(r) >= 0

\* The first timebase has been set and a sweep is under way: the ADC is armed.
Init ==
  /\ rate = FirstRate /\ arg = rate /\ pc = "idle" /\ callClocks = 0
  /\ Loaded(arr_of(rate) % WRAP, psc_of(rate))
  /\ busy = CONVERSION /\ gap = 0 /\ settled = TRUE

-----------------------------------------------------------------------------
\* ADC1, `left' clocks before the end of its conversion, meets a trigger.
Trigger(left, g) ==
  IF left = 0 THEN busy' = CONVERSION /\ gap' = 0 ELSE busy' = left /\ gap' = g

Left == IF busy > 0 THEN busy - 1 ELSE 0

\* The next clock triggers a conversion and the ADC is ready for it.
ConversionDue == Expires /\ Left = 0

\* A clock of TIM15 and of the conversion; at the end of the period, a trigger.
Tick ==
  /\ pc # "idle" => callClocks < MaxCall
  /\ Clock
  /\ callClocks' = IF pc = "idle" THEN 0 ELSE callClocks + 1
  /\ IF Expires THEN Trigger(Left, gap + 1)
                ELSE busy' = Left /\ gap' = gap + 1
  /\ settled' = (settled \/ ConversionDue)
  /\ UNCHANGED <<pc, rate, arg>>

-----------------------------------------------------------------------------
\* set_timebase: main() calls it, with interrupts masked, for a press of button 1.
SetTimebase ==
  /\ pc = "idle"
  /\ arg' \in Rates
  /\ pc' = "arr"
  /\ callClocks' = 0
  /\ UNCHANGED <<timerVars, rate, adcVars>>

WriteArr ==
  /\ pc = "arr"
  /\ write_arr(arr_of(arg), TRUE)
  /\ pc' = "psc"
  /\ UNCHANGED <<rate, arg, callClocks, adcVars>>

\* Mutated form: the prescaler is left as it was.
WritePscForgotten ==
  /\ pc = "psc"
  /\ pc' = "cnt"
  /\ UNCHANGED <<timerVars, rate, arg, callClocks, adcVars>>

WritePsc ==
  /\ pc = "psc"
  /\ psc' = psc_of(arg)
  /\ pc' = "cnt"
  /\ UNCHANGED <<arr, arrShadow, pscShadow, cnt, pcnt, rate, arg, callClocks, adcVars>>

WriteCnt ==
  /\ pc = "cnt"
  /\ cnt' = 0
  /\ pc' = "egr"
  /\ UNCHANGED <<arr, psc, arrShadow, pscShadow, pcnt, rate, arg, callClocks, adcVars>>

\* Mutated form: the new values wait for the end of the old period.
ForceUpdateForgotten ==
  /\ pc = "egr"
  /\ pc' = "idle" /\ rate' = arg
  /\ UNCHANGED <<timerVars, arg, callClocks, adcVars>>

\* "immediately update registers": the update event is a trigger as well.
ForceUpdate ==
  /\ pc = "egr"
  /\ force_update
  /\ Trigger(busy, gap) /\ settled' = (busy = 0)
  /\ pc' = "idle" /\ rate' = arg
  /\ UNCHANGED <<arg, callClocks>>

set_timebase == SetTimebase \/ WriteArr \/ WritePsc \/ WriteCnt \/ ForceUpdate

Next == Tick \/ set_timebase

Spec == Init /\ [][Next]_vars

-----------------------------------------------------------------------------
\* Every variable keeps its type.
TypeOK ==
  /\ TimerTypeOK /\ psc \in {0, PRESCALE - 1}
  /\ pc \in {"idle", "arr", "psc", "cnt", "egr"}
  /\ rate \in Rates /\ arg \in Rates /\ callClocks \in 0 .. MaxCall
  /\ busy \in 0 .. CONVERSION /\ gap \in Nat /\ settled \in BOOLEAN

\* main.rs:120, "samples per second": from the first conversion after a call of
\* set_timebase on, conversions begin exactly one period of the requested rate
\* apart, no matter where in the old period, and between which two clocks, the
\* four registers were written.
EvenSpacing ==
  [][Tick /\ ConversionDue /\ pc = "idle" /\ settled => gap + 1 = Period(rate)]_vars

\* Reprogramming the running timer never makes it miss the end of a period: even
\* with ARR and PSC of two different settings, a sample comes at most a
\* conversion and a call later than the longer of the two periods.
NoStarvation ==
  gap <= CONVERSION + MaxCall + (IF Period(rate) > Period(arg) THEN Period(rate) ELSE Period(arg))

\* capture.rs:213, "Sets the timebase for sampling, to the specified number of
\* samples per second": outside a call the timer counts the longest whole number
\* of prescaled clocks that is not longer than the requested period, so that the
\* triggers are never slower than asked for, and faster by less than one count.
RateHonoured ==
  pc = "idle" => /\ TimerPeriod * rate <= CLOCK
                 /\ CLOCK < (TimerPeriod + pscShadow + 1) * rate
=============================================================================
