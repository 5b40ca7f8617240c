------------------------------ MODULE Buttons ------------------------------
(***************************************************************************)
(* The pushbuttons: the SysTick handler that debounces them, and the end   *)
(* of each iteration of main()'s loop, which reads the handler's flags     *)
(* without masking the exception.  The handler may run between any two of  *)
(* main()'s accesses (button_get_changed, button_reset_changed and         *)
(* button_get_state, one volatile access each).  A press steps a setting   *)
(* of Settings.tla.                                                        *)
(*                                                                         *)
(* `owed' is a history variable: presses the handler has registered since  *)
(* the loop was entered, minus steps main() has made for them.             *)
(***************************************************************************)
EXTENDS SysTick, Settings

CONSTANTS
  Left, Right,      \* button 1, the timebase, and button 4, the frequency
  MaxLoopTicks      \* bound: SysTick exceptions during one loop iteration

Polled == {Left, Right}

\* For each button, the length of its table and the index into it.
Steps == [i \in Polled |-> IF i = Left THEN Len(TIMEBASE_INTERVALS) ELSE Len(SIGGEN_FREQUENCIES)]

\* Timing: an iteration draws at most two status lines, under 30 ms together,
\* so two iterations are shorter than the debounce time of 100 ticks.
ASSUME ButtonsAssumption ==
  /\ Polled \subseteq BUTTONS /\ Left # Right
  /\ MaxLoopTicks \in Nat /\ 2 * MaxLoopTicks <= DEBOUNCE + 1

VARIABLES
  pc,          \* next access of main()
  cur,         \* the button being polled
  loopTicks,   \* SysTick exceptions since this iteration began
  owed

vars == <<sysTickVars, settingsVars, pc, cur, loopTicks, owed>>

index == [i \in Polled |-> IF i = Left THEN timebase_index ELSE siggen_freq_index]

-----------------------------------------------------------------------------
\* The handler has been running for seconds when main() enters its loop, and
\* nobody has read its flags: a button that was ever pressed has CHANGED set.
BootInit ==
  /\ TIMING_DELAY = 0
  /\ BUTTON_STATE \in [BUTTONS -> BOOLEAN]
  /\ BUTTON_CHANGED \in [BUTTONS -> BOOLEAN]
  /\ BUTTON_DEBOUNCE \in [BUTTONS -> 0 .. DEBOUNCE]
  /\ \A i \in BUTTONS : BUTTON_CHANGED[i] \/ (~BUTTON_STATE[i] /\ BUTTON_DEBOUNCE[i] = 0)
  /\ pc = "match" /\ cur = Left /\ loopTicks = 0
  /\ SettingsInit
  /\ owed = [i \in Polled |-> IF BUTTON_STATE[i] THEN 1 ELSE 0]

\* No button was touched while the firmware booted.
Init == BootInit /\ BUTTON_CHANGED = [i \in BUTTONS |-> FALSE]

-----------------------------------------------------------------------------
\* The body of the loop before the buttons (Sweep.tla).
Match ==
  /\ pc = "match"
  /\ pc' = "changed"
  /\ UNCHANGED <<sysTickVars, cur, settingsVars, loopTicks, owed>>

\* On to the next button, or to the next iteration.
NextButton ==
  IF cur = Left THEN cur' = Right /\ pc' = "changed" /\ UNCHANGED loopTicks
                ELSE cur' = Left /\ pc' = "match" /\ loopTicks' = 0

GetChanged ==
  /\ pc = "changed"
  /\ IF BUTTON_CHANGED[cur] THEN pc' = "reset" /\ UNCHANGED <<cur, loopTicks>>
                            ELSE NextButton
  /\ UNCHANGED <<sysTickVars, settingsVars, owed>>

\* Mutated form: the flag is left set.
ResetChangedForgotten ==
  /\ pc = "reset"
  /\ pc' = "state"
  /\ UNCHANGED <<sysTickVars, cur, settingsVars, loopTicks, owed>>

ResetChanged ==
  /\ pc = "reset"
  /\ BUTTON_CHANGED' = [BUTTON_CHANGED EXCEPT ![cur] = FALSE]
  /\ pc' = "state"
  /\ UNCHANGED <<TIMING_DELAY, BUTTON_STATE, BUTTON_DEBOUNCE, cur, settingsVars, loopTicks, owed>>

\* If the button is down, step its setting and show it on the status line.
GetState ==
  /\ pc = "state"
  /\ IF ~BUTTON_STATE[cur] THEN UNCHANGED settingsVars
     ELSE IF cur = Left THEN NextTimebase ELSE NextSiggenFreq
  /\ owed' = IF BUTTON_STATE[cur] THEN [owed EXCEPT ![cur] = @ - 1] ELSE owed
  /\ NextButton
  /\ UNCHANGED sysTickVars

Main == Match \/ GetChanged \/ ResetChanged \/ GetState

Tick(down) ==
  /\ loopTicks < MaxLoopTicks
  /\ systick_handler(down)
  /\ loopTicks' = loopTicks + 1
  /\ owed' = [i \in Polled |->
                IF i \in Flipped(down) /\ ~BUTTON_STATE[i] THEN owed[i] + 1 ELSE owed[i]]
  /\ UNCHANGED <<pc, cur, settingsVars>>

Next == Main \/ \E down \in SUBSET BUTTONS : Tick(down)

\* The processor keeps executing main(); nothing obliges anyone to press.
Fairness == WF_vars(Main)

Spec == Init /\ [][Next]_vars /\ Fairness

BootSpec == BootInit /\ [][Next]_vars /\ Fairness

-----------------------------------------------------------------------------
\* Every variable keeps its type; in particular timebase_index and
\* siggen_freq_index stay inside their tables.
TypeOK ==
  /\ SysTickTypeOK
  /\ pc \in {"match", "changed", "reset", "state"} /\ cur \in Polled
  /\ timebase_index \in Nat /\ siggen_freq_index \in Nat /\ \A i \in Polled : index[i] < Steps[i]
  /\ loopTicks \in 0 .. MaxLoopTicks
  /\ owed \in [Polled -> Int]

\* The reads and the reset in main() lose no press and count none twice,
\* wherever the SysTick handler cuts in between them: at most one press of a
\* button is outstanding, its flag is still set or is being acted upon, and
\* the button still reads as pressed.
OneStepPerPress ==
  \A i \in Polled :
    /\ owed[i] \in {0, 1}
    /\ owed[i] = 1 => /\ BUTTON_STATE[i]
                      /\ BUTTON_CHANGED[i] \/ (cur = i /\ pc = "state")

\* README.rst: the timebase is selected "via pushbutton 1, in standard [...]
\* steps": main() never makes two steps for one press.
NoPressCountedTwice == \A i \in Polled : owed[i] >= 0

Abstract == INSTANCE PressSpec WITH
  pending <- {i \in Polled : owed[i] = 1},
  setting <- index

\* Each press moves the setting exactly one step, and does so eventually.
ImplementsPressSpec == Abstract!Spec
=============================================================================
