---------------------------- MODULE TimebaseRegs ----------------------------
(***************************************************************************)
(* The values that capture::set_timebase() computes for TIM15's ARR and    *)
(* PSC: fast rates divide the clock directly, slow ones go through the     *)
(* prescaler.  And what becomes of them at the ADC.                        *)
(***************************************************************************)
EXTENDS Integers

CONSTANTS
  CLOCK,       \* clocks per second, 72_000_000
  PRESCALE,    \* prescaler of the slow rates, 2250
  LIMIT,       \* the highest slow rate, 1097
  CONVERSION   \* clocks per conversion of ADC1: 7.5 + 12.5 cycles of AHB/2, 40

ASSUME TimebaseRegsAssumption ==
  /\ CLOCK \in Nat \ {0} /\ PRESCALE \in Nat \ {0} /\ LIMIT \in Nat
  /\ CONVERSION \in Nat \ {0}

\* Mutated form: the number of counts, not the last count.
arr_of_count(sps) ==
  IF sps > LIMIT THEN CLOCK \div sps ELSE (CLOCK \div PRESCALE) \div sps

arr_of(sps) ==
  IF sps > LIMIT THEN CLOCK \div sps - 1 ELSE (CLOCK \div PRESCALE) \div sps - 1

\* Mutated form: the divisor, not one less.
psc_of_divisor(sps) == IF sps > LIMIT THEN 0 ELSE PRESCALE

psc_of(sps) == IF sps > LIMIT THEN 0 ELSE PRESCALE - 1

\* Clocks between triggers at a rate, if both registers hold what they are given.
Period(sps) == (arr_of(sps) + 1) * (psc_of(sps) + 1)

\* Clocks between conversions triggered every p clocks: ADC1 ignores the triggers
\* that come while it converts, and begins again with the first one after that.
SamplePeriod(p) == p * ((CONVERSION + p - 1) \div p)
=============================================================================
