------------------------------- MODULE Timer -------------------------------
(***************************************************************************)
(* An up-counting STM32 timer whose update event is its trigger output, as *)
(* capture::setup() and siggen_setup() configure TIM15 and TIM2.  The      *)
(* counter works with shadow copies of ARR and PSC, which it loads from    *)
(* the registers at each update event; with ARPE = 0 a write of ARR goes   *)
(* through to the shadow at once.                                          *)
(***************************************************************************)
EXTENDS Integers

CONSTANT WRAP    \* 2^w for a counter of w bits: 2^16 for TIM15, 2^32 for TIM2

ASSUME TimerAssumption == WRAP \in Nat \ {0}

VARIABLES
  arr, psc,                \* the registers
  arrShadow, pscShadow,    \* the values the counter works with
  cnt,                     \* CNT
  pcnt                     \* clocks counted by the prescaler

timerVars == <<arr, psc, arrShadow, pscShadow, cnt, pcnt>>

\* The next clock ends the period.
Expires == pcnt = pscShadow /\ cnt = arrShadow

\* The counter starts over with the values in the registers.
Reload == arrShadow' = arr /\ pscShadow' = psc /\ cnt' = 0 /\ pcnt' = 0

\* One clock.  A counter above ARR misses the end of its period and wraps.
Clock ==
  /\ \/ Expires /\ Reload
     \/ /\ ~Expires
        /\ pcnt' = IF pcnt = pscShadow THEN 0 ELSE pcnt + 1
        /\ cnt' = IF pcnt = pscShadow THEN (cnt + 1) % WRAP ELSE cnt
        /\ UNCHANGED <<arrShadow, pscShadow>>
  /\ UNCHANGED <<arr, psc>>

write_arr(v, arpe) ==
  /\ arr' = v % WRAP
  /\ arrShadow' = IF arpe THEN arrShadow ELSE v % WRAP
  /\ UNCHANGED <<psc, pscShadow, cnt, pcnt>>

\* EGR.UG: an update event on demand.
force_update == Reload /\ UNCHANGED <<arr, psc>>

\* Clocks from one update event to the next.
TimerPeriod == (arrShadow + 1) * (pscShadow + 1)

\* The timer as it is left by a forced update.
Loaded(a, p) ==
  /\ arr = a /\ psc = p /\ arrShadow = a /\ pscShadow = p /\ cnt = 0 /\ pcnt = 0

TimerTypeOK ==
  /\ arr \in 0 .. WRAP - 1 /\ arrShadow \in 0 .. WRAP - 1 /\ cnt \in 0 .. WRAP - 1
  /\ psc \in Nat /\ pscShadow \in Nat /\ pcnt \in 0 .. pscShadow

\* Not in the weeds: the counter has not passed the end of its period.
CounterBelowArr == cnt <= arrShadow
=============================================================================
