----------------------------- MODULE SiggenRegs -----------------------------
(***************************************************************************)
(* The value that siggen_set_freq() computes for TIM2's ARR: one period of *)
(* the waveform is LEN periods of the timer.                               *)
(***************************************************************************)
EXTENDS Integers

CONSTANTS
  SIGGEN_CLOCK,    \* TIM2's clocks per second as siggen.rs takes it, 36_000_000
  LEN              \* length of the two sample tables, 144

ASSUME SiggenRegsAssumption == SIGGEN_CLOCK \in Nat \ {0} /\ LEN \in Nat \ {0}

siggen_arr(freq) ==
  LET a == (SIGGEN_CLOCK \div LEN) \div freq - 1 IN IF a > 1 THEN a ELSE 1
=============================================================================
