------------------------------ MODULE WaveSpec ------------------------------
(***************************************************************************)
(* What the signal generator promises: all outputs step through their      *)
(* tables together, over and over, and never skip or repeat a sample.      *)
(***************************************************************************)
EXTENDS Integers

CONSTANTS LEN, Waves

VARIABLE out    \* the sample each output shows, 1 .. LEN, 0 before the first

Init == out = [w \in Waves |-> 0]
Step == out' = [w \in Waves |-> (out[w] % LEN) + 1]
Spec == Init /\ [][Step]_out /\ WF_out(Step)
=============================================================================
