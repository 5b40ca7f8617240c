----------------------------- MODULE SweepSpec -----------------------------
(***************************************************************************)
(* What the oscilloscope promises of a sweep, with no registers, no        *)
(* interrupts and no shared buffer: a sweep captures N samples in the      *)
(* order they were converted, displays exactly those samples in that       *)
(* order, and is over when all N are displayed; then another sweep begins. *)
(* A sweep that loses a conversion to an overrun is held to the same order *)
(* but is not promised to go on: nothing restarts it.                      *)
(* Sweep.tla is shown to implement this specification.                     *)
(***************************************************************************)
EXTENDS Integers, Sequences

CONSTANTS N,            \* samples in a sweep
          Conversions   \* numbers that conversions of one sweep may carry

VARIABLES active,       \* a sweep is in progress
          overrun,      \* and has lost a conversion
          captured,     \* the conversions of this sweep stored so far
          displayed     \* the conversions of this sweep on the screen

vars == <<active, overrun, captured, displayed>>

Init == active = FALSE /\ overrun = FALSE /\ captured = <<>> /\ displayed = <<>>

Begin ==
  /\ ~active
  /\ active' = TRUE
  /\ UNCHANGED <<overrun, captured, displayed>>

\* A conversion comes before the previous one is stored.
Overrun ==
  /\ active /\ Len(captured) < N
  /\ overrun' = TRUE
  /\ UNCHANGED <<active, captured, displayed>>

\* A conversion later than every stored one is stored (one or more in between
\* may have been lost to an overrun).
Sample ==
  /\ active /\ Len(captured) < N
  /\ \E k \in Conversions :
       /\ captured # <<>> => k > captured[Len(captured)]
       /\ captured' = Append(captured, k)
  /\ UNCHANGED <<active, overrun, displayed>>

Show ==
  /\ active /\ Len(displayed) < Len(captured)
  /\ displayed' = Append(displayed, captured[Len(displayed) + 1])
  /\ UNCHANGED <<active, overrun, captured>>

End ==
  /\ active /\ Len(displayed) = N
  /\ active' = FALSE /\ overrun' = FALSE /\ captured' = <<>> /\ displayed' = <<>>

Next == Begin \/ Overrun \/ Sample \/ Show \/ End

Spec == Init /\ [][Next]_vars

\* Samples keep coming in a sweep without an overrun, and what was captured is
\* displayed, and sweeps begin and end, in any sweep.
FairSpec ==
  /\ Spec
  /\ WF_vars(Begin) /\ WF_vars(~overrun /\ Sample) /\ WF_vars(Show) /\ WF_vars(End)
=============================================================================
