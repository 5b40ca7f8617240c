----------------------------- MODULE PressSpec -----------------------------
(***************************************************************************)
(* What the pushbuttons promise the user: every press of a button moves    *)
(* its setting one step around its table, and nothing else moves it.       *)
(***************************************************************************)
EXTENDS Integers

CONSTANTS Polled,   \* the buttons that have a setting
          Steps     \* button -> length of its table

VARIABLES pending,  \* buttons pressed and not yet acted upon
          setting   \* button -> index into its table

vars == <<pending, setting>>

Step(i) ==
  /\ i \in pending
  /\ pending' = pending \ {i}
  /\ setting' = [setting EXCEPT ![i] = (@ + 1) % Steps[i]]

\* One tick may see several buttons pressed at once.
PressAll(S) ==
  /\ S \cap pending = {}
  /\ pending' = pending \cup S
  /\ UNCHANGED setting

Init == pending = {} /\ setting \in [Polled -> Nat]

Next == \/ \E S \in SUBSET Polled : PressAll(S)
        \/ \E i \in Polled : Step(i)

Spec == Init /\ [][Next]_vars /\ \A i \in Polled : WF_vars(Step(i))
=============================================================================
