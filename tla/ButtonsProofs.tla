--------------------------- MODULE ButtonsProofs ---------------------------
(***************************************************************************)
(* Proofs about the pushbuttons and the settings that they step through,   *)
(* for every set of buttons, every debounce time and every number of ticks *)
(* in an iteration of the loop that the debounce time allows.              *)
(***************************************************************************)
EXTENDS Buttons, FiniteSetTheorems, TLAPS

-----------------------------------------------------------------------------
(* The tables.                                                             *)

LEMMA TableLengths ==
  Len(TIMEBASE_INTERVALS) = 17 /\ Len(SIGGEN_FREQUENCIES) = 9
  BY DEF TIMEBASE_INTERVALS, SIGGEN_FREQUENCIES

-----------------------------------------------------------------------------
(* Presses.                                                                *)

\* main() has a change of button i still to look at, or is looking at it.
Flagged(i) == BUTTON_CHANGED[i] \/ (cur = i /\ pc = "state")

\* Ticks that may come before main() is done with what it now knows of button i:
\* the rest of this iteration, and all of the next if it has passed i already.
TicksLeft(i) ==
  MaxLoopTicks - loopTicks + (IF i = Left /\ cur = Right THEN MaxLoopTicks ELSE 0)

\* A press is outstanding exactly while the button is down and flagged; and while it
\* is flagged the debounce time outlasts what main() needs to get there.
Outstanding(i) ==
  /\ owed[i] = IF Flagged(i) /\ BUTTON_STATE[i] THEN 1 ELSE 0
  /\ cur = i /\ pc = "reset" => BUTTON_CHANGED[i]
  /\ cur = i /\ pc = "state" => ~BUTTON_CHANGED[i]
  /\ Flagged(i) => BUTTON_DEBOUNCE[i] >= TicksLeft(i)

BInv ==
  /\ TypeOK
  /\ pc = "match" => cur = Left
  /\ \A i \in Polled : Outstanding(i)

LEMMA InitBInv ==
  ASSUME Init
  PROVE  BInv
<1> USE ButtonsAssumption, SysTickAssumption
<1>1. TypeOK
  BY TableLengths DEF Init, BootInit, SettingsInit, TypeOK, SysTickTypeOK, index, Steps, Polled
<1>2. \A i \in Polled : Outstanding(i)
  BY DEF Init, BootInit, Outstanding, Flagged, Polled
<1> QED
  BY <1>1, <1>2 DEF BInv, Init, BootInit

\* What a tick does to one button.
LEMMA TickOfButton ==
  ASSUME SysTickTypeOK, NEW down, systick_handler(down), NEW i \in BUTTONS
  PROVE  /\ i \in Flipped(down) => /\ BUTTON_DEBOUNCE[i] = 0 /\ BUTTON_DEBOUNCE'[i] = DEBOUNCE
                                   /\ (BUTTON_STATE'[i] <=> ~BUTTON_STATE[i]) /\ BUTTON_CHANGED'[i]
         /\ i \notin Flipped(down) =>
              /\ BUTTON_DEBOUNCE'[i] = IF BUTTON_DEBOUNCE[i] > 0 THEN BUTTON_DEBOUNCE[i] - 1 ELSE 0
              /\ (BUTTON_STATE'[i] <=> BUTTON_STATE[i]) /\ (BUTTON_CHANGED'[i] <=> BUTTON_CHANGED[i])
<1>1. i \in Flipped(down) => BUTTON_DEBOUNCE[i] = 0
  BY DEF Flipped
<1>2. BUTTON_STATE'[i] = IF i \in Flipped(down) THEN ~BUTTON_STATE[i] ELSE BUTTON_STATE[i]
  BY Zenon DEF systick_handler
<1>3. BUTTON_CHANGED'[i] = (i \in Flipped(down) \/ BUTTON_CHANGED[i])
  BY Zenon DEF systick_handler
<1>4. BUTTON_DEBOUNCE'[i] = CASE i \in Flipped(down)    -> DEBOUNCE
                              [] BUTTON_DEBOUNCE[i] > 0 -> BUTTON_DEBOUNCE[i] - 1
                              [] OTHER                  -> 0
  BY Zenon DEF systick_handler
<1>5. BUTTON_CHANGED[i] \in BOOLEAN
  BY DEF SysTickTypeOK
<1>6. i \in Flipped(down) => BUTTON_DEBOUNCE'[i] = DEBOUNCE
  BY <1>1, <1>4
<1>7. i \notin Flipped(down) =>
        BUTTON_DEBOUNCE'[i] = IF BUTTON_DEBOUNCE[i] > 0 THEN BUTTON_DEBOUNCE[i] - 1 ELSE 0
  BY <1>4
<1> QED
  BY <1>1, <1>2, <1>3, <1>5, <1>6, <1>7, Zenon

\* A tick of the handler keeps the types of what it shares with main().
LEMMA TickTypes ==
  ASSUME SysTickTypeOK, NEW down, systick_handler(down)
  PROVE  SysTickTypeOK'
<1> USE SysTickAssumption
<1>1. TIMING_DELAY' \in Nat
  BY DEF SysTickTypeOK, systick_handler, delay_tick
<1>2. \A i \in BUTTONS : BUTTON_DEBOUNCE'[i] \in 0 .. DEBOUNCE
  BY TickOfButton DEF SysTickTypeOK
<1>3. \A i \in BUTTONS :
        /\ (IF i \in Flipped(down) THEN ~BUTTON_STATE[i] ELSE BUTTON_STATE[i]) \in BOOLEAN
        /\ (i \in Flipped(down) \/ BUTTON_CHANGED[i]) \in BOOLEAN
  BY Zenon DEF SysTickTypeOK
<1>4. BUTTON_DEBOUNCE' \in [BUTTONS -> 0 .. DEBOUNCE]
  BY <1>2, Zenon DEF systick_handler
<1>5. BUTTON_STATE' \in [BUTTONS -> BOOLEAN] /\ BUTTON_CHANGED' \in [BUTTONS -> BOOLEAN]
  BY <1>3, Zenon DEF systick_handler
<1> QED
  BY <1>1, <1>4, <1>5 DEF SysTickTypeOK

LEMMA TickKeepsBInv ==
  ASSUME BInv, NEW down \in SUBSET BUTTONS, Tick(down)
  PROVE  BInv'
<1> USE ButtonsAssumption, SysTickAssumption
<1>1. TypeOK /\ SysTickTypeOK /\ \A i \in Polled : Outstanding(i)
  BY DEF BInv, TypeOK
<1>2. /\ loopTicks < MaxLoopTicks /\ loopTicks' = loopTicks + 1 /\ loopTicks \in Nat
      /\ UNCHANGED <<pc, cur, settingsVars>> /\ systick_handler(down)
  BY <1>1 DEF Tick, TypeOK
<1>3. SysTickTypeOK'
  BY <1>1, <1>2, TickTypes
<1>4. ASSUME NEW i \in Polled
      PROVE  /\ Outstanding(i)'
             /\ owed'[i] = IF i \in Flipped(down) /\ ~BUTTON_STATE[i] THEN owed[i] + 1 ELSE owed[i]
             /\ i \in Flipped(down) => owed[i] = 0
  <2>1. /\ i \in BUTTONS /\ Outstanding(i) /\ BUTTON_STATE[i] \in BOOLEAN
        /\ BUTTON_DEBOUNCE[i] \in 0 .. DEBOUNCE
    BY <1>1 DEF SysTickTypeOK
  <2>2. owed'[i] = IF i \in Flipped(down) /\ ~BUTTON_STATE[i] THEN owed[i] + 1 ELSE owed[i]
    BY DEF Tick
  <2>3. Flagged(i) => BUTTON_DEBOUNCE[i] > 0
    BY <1>2, <2>1 DEF Outstanding, TicksLeft
  <2>4. CASE i \in Flipped(down)
    <3>1. /\ ~Flagged(i) /\ owed[i] = 0 /\ BUTTON_DEBOUNCE'[i] = DEBOUNCE
          /\ (BUTTON_STATE'[i] <=> ~BUTTON_STATE[i]) /\ BUTTON_CHANGED'[i]
      BY <1>1, <1>2, <2>1, <2>3, <2>4, TickOfButton DEF Outstanding
    <3>2. TicksLeft(i)' <= DEBOUNCE
      BY <1>2 DEF TicksLeft
    <3> QED
      BY <1>2, <2>1, <2>2, <2>4, <3>1, <3>2 DEF Outstanding, Flagged
  <2>5. CASE i \notin Flipped(down)
    <3>1. /\ BUTTON_DEBOUNCE'[i] = IF BUTTON_DEBOUNCE[i] > 0 THEN BUTTON_DEBOUNCE[i] - 1 ELSE 0
          /\ (BUTTON_STATE'[i] <=> BUTTON_STATE[i]) /\ (BUTTON_CHANGED'[i] <=> BUTTON_CHANGED[i])
      BY <1>1, <1>2, <2>1, <2>5, TickOfButton
    <3>2. TicksLeft(i)' = TicksLeft(i) - 1
      BY <1>2 DEF TicksLeft
    <3>3. Flagged(i)' <=> Flagged(i)
      BY <1>2, <3>1 DEF Flagged
    <3>4. Flagged(i)' => BUTTON_DEBOUNCE'[i] >= TicksLeft(i)'
      BY <1>2, <2>1, <2>3, <3>1, <3>2, <3>3 DEF Outstanding, TicksLeft
    <3> QED
      BY <1>2, <2>1, <2>2, <2>5, <3>1, <3>3, <3>4 DEF Outstanding
  <2> QED
    BY <2>2, <2>4, <2>5
<1>5. owed' \in [Polled -> Int]
  BY <1>1 DEF Tick, TypeOK
<1>6. TypeOK'
  BY <1>1, <1>2, <1>3, <1>5 DEF TypeOK, settingsVars, index
<1> QED
  BY <1>2, <1>4, <1>6 DEF BInv

\* main() goes on to the next button when this one has no flag set and no press owed.
LEMMA NextButtonKeepsOutstanding ==
  ASSUME BInv, pc \in {"changed", "state"}, ~BUTTON_CHANGED[cur], NextButton,
         UNCHANGED sysTickVars, owed' \in [Polled -> Int], owed'[cur] = 0,
         \A i \in Polled \ {cur} : owed'[i] = owed[i]
  PROVE  /\ \A i \in Polled : Outstanding(i)'
         /\ pc' \in {"match", "changed"} /\ (pc' = "match" => cur' = Left)
         /\ cur' \in Polled /\ loopTicks' \in 0 .. MaxLoopTicks
<1> USE ButtonsAssumption, SysTickAssumption
<1>1. /\ loopTicks \in 0 .. MaxLoopTicks /\ cur \in Polled /\ SysTickTypeOK
      /\ \A i \in Polled : Outstanding(i)
  BY DEF BInv, TypeOK
<1>2. /\ pc' \in {"match", "changed"} /\ (pc' = "match" => cur' = Left)
      /\ cur' \in Polled /\ loopTicks' \in 0 .. MaxLoopTicks
  BY <1>1 DEF NextButton, Polled
<1>3. ASSUME NEW i \in Polled
      PROVE  Outstanding(i)'
  <2>1. BUTTON_CHANGED'[i] = BUTTON_CHANGED[i] /\ BUTTON_STATE'[i] = BUTTON_STATE[i]
        /\ BUTTON_DEBOUNCE'[i] = BUTTON_DEBOUNCE[i]
    BY DEF sysTickVars
  <2>2. Flagged(i)' <=> BUTTON_CHANGED[i]
    BY <1>2, <2>1 DEF Flagged
  <2>3. CASE i = cur
    BY <1>2, <2>1, <2>2, <2>3 DEF Outstanding
  <2>4. CASE i # cur
    <3>1. Flagged(i) <=> BUTTON_CHANGED[i]
      BY <2>4 DEF Flagged
    <3>2. owed'[i] = IF Flagged(i)' /\ BUTTON_STATE'[i] THEN 1 ELSE 0
      BY <1>1, <2>1, <2>2, <2>4, <3>1 DEF Outstanding
    <3>3. TicksLeft(i)' \in Int /\ TicksLeft(i) \in Int /\ TicksLeft(i)' <= TicksLeft(i)
      BY <1>1, <2>4 DEF TicksLeft, NextButton, Polled
    <3>4. BUTTON_DEBOUNCE[i] \in Int
      BY <1>1 DEF SysTickTypeOK
    <3>5. Flagged(i)' => BUTTON_DEBOUNCE'[i] >= TicksLeft(i)'
      BY <1>1, <2>1, <2>2, <3>1, <3>3, <3>4 DEF Outstanding
    <3> QED
      BY <1>2, <3>2, <3>5 DEF Outstanding
  <2> QED
    BY <2>3, <2>4
<1> QED
  BY <1>2, <1>3

LEMMA MatchKeepsBInv ==
  ASSUME BInv, Match
  PROVE  BInv'
<1>1. /\ TypeOK /\ pc = "match" /\ pc' = "changed"
      /\ UNCHANGED <<TIMING_DELAY, BUTTON_STATE, BUTTON_CHANGED, BUTTON_DEBOUNCE, cur,
                     timebase_index, siggen_freq_index, loopTicks, owed>>
  BY DEF BInv, Match, sysTickVars, settingsVars
<1>2. TypeOK'
  BY <1>1 DEF TypeOK, SysTickTypeOK, index
<1>3. ASSUME NEW i \in Polled
      PROVE  Outstanding(i)'
  BY <1>1 DEF BInv, Outstanding, Flagged, TicksLeft
<1> QED
  BY <1>1, <1>2, <1>3 DEF BInv

LEMMA GetChangedKeepsBInv ==
  ASSUME BInv, GetChanged
  PROVE  BInv' /\ UNCHANGED <<owed, index>>
<1>1. /\ TypeOK /\ pc = "changed" /\ cur \in Polled
      /\ UNCHANGED <<sysTickVars, timebase_index, siggen_freq_index, owed, index>>
  BY DEF BInv, TypeOK, GetChanged, settingsVars, index
<1>2. CASE BUTTON_CHANGED[cur]
  <2>1. pc' = "reset" /\ UNCHANGED <<cur, loopTicks>>
    BY <1>2 DEF GetChanged
  <2>2. TypeOK'
    BY <1>1, <2>1 DEF TypeOK, SysTickTypeOK, sysTickVars
  <2>3. ASSUME NEW i \in Polled
        PROVE  Outstanding(i)'
    BY <1>1, <1>2, <2>1 DEF BInv, Outstanding, Flagged, TicksLeft, sysTickVars
  <2> QED
    BY <1>1, <2>1, <2>2, <2>3 DEF BInv
<1>3. CASE ~BUTTON_CHANGED[cur]
  <2>1. NextButton
    BY <1>3 DEF GetChanged
  <2>2. owed[cur] = 0 /\ owed \in [Polled -> Int]
    BY <1>1, <1>3 DEF BInv, Outstanding, Flagged, TypeOK
  <2>3. /\ \A i \in Polled : Outstanding(i)'
        /\ pc' \in {"match", "changed"} /\ (pc' = "match" => cur' = Left)
        /\ cur' \in Polled /\ loopTicks' \in 0 .. MaxLoopTicks
    BY <1>1, <1>3, <2>1, <2>2, NextButtonKeepsOutstanding
  <2>4. TypeOK'
    BY <1>1, <2>3 DEF TypeOK, SysTickTypeOK, sysTickVars
  <2> QED
    BY <1>1, <2>3, <2>4 DEF BInv
<1> QED
  BY <1>1, <1>2, <1>3

LEMMA ResetChangedKeepsBInv ==
  ASSUME BInv, ResetChanged
  PROVE  BInv' /\ UNCHANGED <<owed, index>>
<1>1. /\ TypeOK /\ SysTickTypeOK /\ pc = "reset" /\ pc' = "state" /\ cur \in Polled
      /\ BUTTON_CHANGED' = [BUTTON_CHANGED EXCEPT ![cur] = FALSE] /\ BUTTON_CHANGED[cur]
      /\ UNCHANGED <<TIMING_DELAY, BUTTON_STATE, BUTTON_DEBOUNCE, cur, timebase_index,
                     siggen_freq_index, loopTicks, owed, index>>
  BY DEF BInv, TypeOK, ResetChanged, settingsVars, index, Outstanding
<1>2. BUTTON_CHANGED' \in [BUTTONS -> BOOLEAN]
  BY <1>1, Zenon DEF SysTickTypeOK
<1>3. TypeOK'
  BY <1>1, <1>2 DEF TypeOK, SysTickTypeOK
<1>4. ASSUME NEW i \in Polled
      PROVE  Outstanding(i)'
  <2>1. i \in BUTTONS
    BY ButtonsAssumption
  <2>2. i # cur => BUTTON_CHANGED'[i] = BUTTON_CHANGED[i]
    BY <1>1
  <2>3. i = cur => ~BUTTON_CHANGED'[i]
    BY <1>1, <2>1, Zenon DEF SysTickTypeOK
  <2>4. Flagged(i)' <=> Flagged(i)
    BY <1>1, <2>2, <2>3 DEF Flagged
  <2>5. Outstanding(i) /\ TicksLeft(i)' = TicksLeft(i)
    BY <1>1 DEF BInv, TicksLeft
  <2> QED
    BY <1>1, <2>3, <2>4, <2>5 DEF Outstanding
<1> QED
  BY <1>1, <1>3, <1>4 DEF BInv

\* Stepping the setting of the button that is polled leaves the other's alone.
LEMMA GetStateSteps ==
  ASSUME BInv, GetState
  PROVE  /\ index' = IF BUTTON_STATE[cur] THEN [index EXCEPT ![cur] = (@ + 1) % Steps[cur]] ELSE index
         /\ timebase_index' \in 0 .. Len(TIMEBASE_INTERVALS) - 1
         /\ siggen_freq_index' \in 0 .. Len(SIGGEN_FREQUENCIES) - 1
<1>1. /\ timebase_index \in 0 .. Len(TIMEBASE_INTERVALS) - 1 /\ Left \in Polled /\ Right \in Polled
      /\ siggen_freq_index \in 0 .. Len(SIGGEN_FREQUENCIES) - 1 /\ cur \in Polled
  BY TableLengths, ButtonsAssumption DEF BInv, TypeOK, index, Steps, Polled
<1>2. CASE ~BUTTON_STATE[cur]
  BY <1>1, <1>2 DEF GetState, settingsVars, index
<1>3. CASE BUTTON_STATE[cur] /\ cur = Left
  <2>1. NextTimebase
    BY <1>3 DEF GetState
  <2>2. /\ timebase_index' = (timebase_index + 1) % Len(TIMEBASE_INTERVALS)
        /\ siggen_freq_index' = siggen_freq_index
    BY <2>1 DEF NextTimebase, next_index
  <2>3. timebase_index' \in 0 .. Len(TIMEBASE_INTERVALS) - 1
    BY <1>1, <2>2, TableLengths
  <2> QED
    BY <1>1, <1>3, <2>2, <2>3 DEF index, Steps
<1>4. CASE BUTTON_STATE[cur] /\ cur # Left
  <2>1. NextSiggenFreq
    BY <1>4 DEF GetState
  <2>2. /\ siggen_freq_index' = (siggen_freq_index + 1) % Len(SIGGEN_FREQUENCIES)
        /\ timebase_index' = timebase_index
    BY <2>1 DEF NextSiggenFreq, next_index
  <2>3. siggen_freq_index' \in 0 .. Len(SIGGEN_FREQUENCIES) - 1
    BY <1>1, <2>2, TableLengths
  <2>4. cur = Right
    BY <1>1, <1>4 DEF Polled
  <2> QED
    BY <1>1, <1>4, <2>2, <2>3, <2>4 DEF index, Steps, Polled
<1> QED
  BY <1>2, <1>3, <1>4

LEMMA GetStateKeepsBInv ==
  ASSUME BInv, GetState
  PROVE  BInv'
<1>1. /\ TypeOK /\ SysTickTypeOK /\ pc = "state" /\ cur \in Polled /\ owed \in [Polled -> Int]
      /\ ~BUTTON_CHANGED[cur] /\ Outstanding(cur) /\ Flagged(cur)
      /\ owed' = (IF BUTTON_STATE[cur] THEN [owed EXCEPT ![cur] = @ - 1] ELSE owed)
      /\ NextButton /\ UNCHANGED sysTickVars
  BY DEF BInv, TypeOK, GetState, Outstanding, Flagged
<1>2. owed' \in [Polled -> Int] /\ owed'[cur] = 0 /\ \A i \in Polled \ {cur} : owed'[i] = owed[i]
  BY <1>1 DEF Outstanding
<1>3. /\ \A i \in Polled : Outstanding(i)'
      /\ pc' \in {"match", "changed"} /\ (pc' = "match" => cur' = Left)
      /\ cur' \in Polled /\ loopTicks' \in 0 .. MaxLoopTicks
  BY <1>1, <1>2, NextButtonKeepsOutstanding
<1>4. timebase_index' \in Nat /\ siggen_freq_index' \in Nat /\ \A i \in Polled : index'[i] < Steps[i]
  BY GetStateSteps, TableLengths DEF index, Steps
<1>5. SysTickTypeOK'
  BY <1>1 DEF SysTickTypeOK, sysTickVars
<1>6. TypeOK'
  BY <1>2, <1>3, <1>4, <1>5 DEF TypeOK
<1> QED
  BY <1>3, <1>6 DEF BInv

LEMMA StepKeepsBInv ==
  ASSUME BInv, [Next]_vars
  PROVE  BInv'
<1>1. CASE Match
  BY <1>1, MatchKeepsBInv
<1>2. CASE GetChanged
  BY <1>2, GetChangedKeepsBInv
<1>3. CASE ResetChanged
  BY <1>3, ResetChangedKeepsBInv
<1>4. CASE GetState
  BY <1>4, GetStateKeepsBInv
<1>5. ASSUME NEW down \in SUBSET BUTTONS, Tick(down)
      PROVE  BInv'
  BY <1>5, TickKeepsBInv
<1>6. CASE UNCHANGED vars
  BY <1>6 DEF vars, sysTickVars, settingsVars, BInv, TypeOK, SysTickTypeOK, index, Outstanding,
              Flagged, TicksLeft
<1> QED
  BY <1>1, <1>2, <1>3, <1>4, <1>5, <1>6 DEF Next, Main

\* The inductive invariant holds in every reachable state.
THEOREM PressInvariant == Spec => []BInv
<1>1. Init => BInv
  BY InitBInv
<1>2. BInv /\ [Next]_vars => BInv'
  BY StepKeepsBInv
<1> QED
  BY <1>1, <1>2, PTL DEF Spec

\* Every variable keeps its type, and both indices stay inside their tables: main()
\* never reads past the end of SIGGEN_FREQUENCIES or TIMEBASE_INTERVALS.
THEOREM ButtonTypes == Spec => []TypeOK
<1>1. BInv => TypeOK
  BY DEF BInv
<1> QED
  BY <1>1, PressInvariant, PTL

\* For every debounce time that outlasts two iterations of the loop, no interleaving of
\* the SysTick handler with main()'s three unprotected accesses loses a press or
\* counts one twice.
THEOREM PressesAreCounted == Spec => []OneStepPerPress
<1>1. BInv => OneStepPerPress
  BY DEF BInv, Outstanding, Flagged, OneStepPerPress
<1> QED
  BY <1>1, PressInvariant, PTL

-----------------------------------------------------------------------------
(* Presses are steps of PressSpec.                                         *)

\* A tick presses the buttons that it finds newly down, none of them pending.
LEMMA TickPresses ==
  ASSUME BInv, NEW down \in SUBSET BUTTONS, Tick(down)
  PROVE  \E S \in SUBSET Polled : Abstract!PressAll(S)
<1> DEFINE S == {i \in Polled : i \in Flipped(down) /\ ~BUTTON_STATE[i]}
<1>1. UNCHANGED index
  BY DEF Tick, settingsVars, index
<1>2. ASSUME NEW i \in Polled
      PROVE  /\ owed[i] \in {0, 1} /\ (i \in S => owed[i] = 0)
             /\ owed'[i] = IF i \in S THEN owed[i] + 1 ELSE owed[i]
  <2>1. owed'[i] = IF i \in Flipped(down) /\ ~BUTTON_STATE[i] THEN owed[i] + 1 ELSE owed[i]
    BY DEF Tick
  <2>2. i \in BUTTONS /\ Outstanding(i) /\ BUTTON_STATE[i] \in BOOLEAN
    BY ButtonsAssumption DEF BInv, TypeOK, SysTickTypeOK
  <2> QED
    BY <2>1, <2>2 DEF Outstanding
<1>3. S \cap {i \in Polled : owed[i] = 1} = {}
  BY <1>2
<1>4. {i \in Polled : owed'[i] = 1} = {i \in Polled : owed[i] = 1} \cup S
  BY <1>2
<1>5. S \in SUBSET Polled
  OBVIOUS
<1> HIDE DEF S
<1> QED
  BY <1>1, <1>3, <1>4, <1>5 DEF Abstract!PressAll

\* Looking at the state of a flagged button that is down is the step of its setting.
LEMMA GetStateIsStep ==
  ASSUME BInv, GetState
  PROVE  (\E i \in Polled : Abstract!Step(i)) \/ UNCHANGED Abstract!vars
<1>1. /\ cur \in Polled /\ owed \in [Polled -> Int] /\ Outstanding(cur) /\ Flagged(cur)
      /\ owed' = IF BUTTON_STATE[cur] THEN [owed EXCEPT ![cur] = @ - 1] ELSE owed
  BY DEF BInv, TypeOK, GetState, Flagged
<1>2. CASE BUTTON_STATE[cur]
  <2>1. owed[cur] = 1 /\ owed'[cur] = 0 /\ \A i \in Polled \ {cur} : owed'[i] = owed[i]
    BY <1>1, <1>2 DEF Outstanding
  <2>2. index' = [index EXCEPT ![cur] = (@ + 1) % Steps[cur]]
    BY <1>2, GetStateSteps
  <2>3. {i \in Polled : owed'[i] = 1} = {i \in Polled : owed[i] = 1} \ {cur}
    BY <1>1, <2>1
  <2> QED
    BY <1>1, <2>1, <2>2, <2>3 DEF Abstract!Step
<1>3. CASE ~BUTTON_STATE[cur]
  BY <1>1, <1>3, GetStateSteps DEF Abstract!vars
<1> QED
  BY <1>2, <1>3

\* The safety of ImplementsPressSpec: whatever the interleaving, a setting moves only
\* for a press, one step around its table for each, and no press is forgotten.  (That
\* the step is made eventually is liveness, which TLC checks.)
THEOREM PressesMoveSettings == Spec => Abstract!Init /\ [][Abstract!Next]_(Abstract!vars)
<1>1. Init => Abstract!Init
  <2>1. Init => \A i \in Polled : owed[i] = 0
    BY ButtonsAssumption DEF Init, BootInit, Polled
  <2>2. Init => timebase_index \in Nat /\ siggen_freq_index \in Nat
    BY InitBInv DEF BInv, TypeOK
  <2> QED
    BY <2>1, <2>2 DEF Abstract!Init, index
<1>2. BInv /\ [Next]_vars => [Abstract!Next]_(Abstract!vars)
  <2> SUFFICES ASSUME BInv, [Next]_vars
               PROVE  [Abstract!Next]_(Abstract!vars)
    OBVIOUS
  <2>1. CASE Match
    BY <2>1 DEF Match, Abstract!vars, index, settingsVars
  <2>2. CASE GetChanged
    BY <2>2, GetChangedKeepsBInv DEF Abstract!vars
  <2>3. CASE ResetChanged
    BY <2>3, ResetChangedKeepsBInv DEF Abstract!vars
  <2>4. CASE GetState
    BY <2>4, GetStateIsStep DEF Abstract!Next
  <2>5. ASSUME NEW down \in SUBSET BUTTONS, Tick(down)
        PROVE  Abstract!Next
    BY <2>5, TickPresses DEF Abstract!Next
  <2>6. CASE UNCHANGED vars
    BY <2>6 DEF vars, Abstract!vars, index, settingsVars
  <2> QED
    BY <2>1, <2>2, <2>3, <2>4, <2>5, <2>6 DEF Next, Main
<1> QED
  BY <1>1, <1>2, PressInvariant, PTL DEF Spec

-----------------------------------------------------------------------------
(* The labels.                                                             *)

\* The triggers of a timebase leave ADC1 the time of a conversion.
Triggers(t)  == (timebase_regs(t).arr + 1) * (timebase_regs(t).psc + 1)
AdcKeepsUp(t) == Triggers(t) \in Nat /\ Triggers(t) >= 40

\* A division of 32 samples takes the time that its label states, within 5% if it
\* says "~", in eighths of a microsecond's 72 clocks.
TimebaseHonest(t) ==
  LET actual == 4 * Triggers(t)
      stated == 9 * t.us
  IN  /\ AdcKeepsUp(t) /\ stated \in Nat
      /\ IF t.about THEN 20 * (actual - stated) <= stated /\ 20 * (stated - actual) <= stated
                    ELSE actual = stated

\* An ADC that keeps up converts at every trigger.
LEMMA EveryTriggerConverts ==
  ASSUME NEW p \in Nat, CONVERSION \in Nat \ {0}, p >= CONVERSION
  PROVE  SamplePeriod(p) = p
<1>1. p \in Nat \ {0} /\ CONVERSION - 1 \in 0 .. p - 1
  OBVIOUS
<1>2. (CONVERSION + p - 1) \div p = 1
  BY <1>1
<1> QED
  BY <1>1, <1>2 DEF SamplePeriod

LEMMA IntervalFields ==
  ASSUME NEW r, NEW l, NEW u
  PROVE  /\ Interval(r, l, u).sample_rate = r /\ Interval(r, l, u).us = u
         /\ Interval(r, l, u).about <=> l \in {"~50us", "~10us"}
  BY Zenon DEF Interval

LEMMA IntervalTriggers ==
  ASSUME NEW r, NEW l, NEW u
  PROVE  Triggers(Interval(r, l, u)) = ((arr_of(r) % 65536) + 1) * ((psc_of(r) % 65536) + 1)
<1>1. 2^16 = 65536
  BY SMT
<1> QED
  BY <1>1, IntervalFields, SMT DEF Triggers, timebase_regs

LEMMA TimebasesHonest ==
  ASSUME CLOCK = 72000000, PRESCALE = 2250, LIMIT = 1097, NEW i \in 1 .. 16
  PROVE  TimebaseHonest(TIMEBASE_INTERVALS[i])
<1> USE IntervalFields, IntervalTriggers, SMTT(30) DEF TimebaseHonest, AdcKeepsUp, arr_of, psc_of
<1>1. TimebaseHonest(Interval(1, "32s", 32000000))
  OBVIOUS
<1>2. TimebaseHonest(Interval(32, "1s", 1000000))
  OBVIOUS
<1>3. TimebaseHonest(Interval(64, ".5s", 500000))
  OBVIOUS
<1>4. TimebaseHonest(Interval(160, ".2s", 200000))
  OBVIOUS
<1>5. TimebaseHonest(Interval(320, ".1s", 100000))
  OBVIOUS
<1>6. TimebaseHonest(Interval(640, "50ms", 50000))
  OBVIOUS
<1>7. TimebaseHonest(Interval(1600, "20ms", 20000))
  OBVIOUS
<1>8. TimebaseHonest(Interval(3200, "10ms", 10000))
  OBVIOUS
<1>9. TimebaseHonest(Interval(6400, "5ms", 5000))
  OBVIOUS
<1>10. TimebaseHonest(Interval(16000, "2ms", 2000))
  OBVIOUS
<1>11. TimebaseHonest(Interval(32000, "1ms", 1000))
  OBVIOUS
<1>12. TimebaseHonest(Interval(64000, ".5ms", 500))
  OBVIOUS
<1>13. TimebaseHonest(Interval(160000, ".2ms", 200))
  OBVIOUS
<1>14. TimebaseHonest(Interval(320000, ".1ms", 100))
  OBVIOUS
<1>15. TimebaseHonest(Interval(640000, "~50us", 50))
  OBVIOUS
<1>16. TimebaseHonest(Interval(1600000, "20us", 20))
  OBVIOUS
<1> HIDE IntervalFields, IntervalTriggers DEF TimebaseHonest, AdcKeepsUp, arr_of, psc_of
<1> QED
  BY <1>1, <1>2, <1>3, <1>4, <1>5, <1>6, <1>7, <1>8, <1>9, <1>10, <1>11, <1>12, <1>13, <1>14,
     <1>15, <1>16 DEF TIMEBASE_INTERVALS

-----------------------------------------------------------------------------
(* The settings, the registers that follow them and the line that names    *)
(* them.                                                                   *)

siggen_line(f) ==
  st7735_print(st7735_print([c \in Cells |-> Blank], "siggen freq:", 0), f.label, 13)

\* The registers hold what the indices select, and the line is exactly what was
\* printed for the setting made last.
SettingsInv ==
  /\ timebase_index \in 0 .. 16 /\ siggen_freq_index \in 0 .. 8
  /\ tim15 = timebase_regs(Timebase) /\ tim2_arr = siggen_arr(SiggenFreq.frequency)
  /\ \/ latest = "timebase" /\ line = timebase_line([c \in Cells |-> Blank], Timebase)
     \/ latest = "siggen" /\ line = siggen_line(SiggenFreq)

LEMMA InitSettings ==
  ASSUME Init
  PROVE  SettingsInv
<1>1. SettingsInit /\ timebase_index = 8
  BY TableLengths DEF Init, BootInit, SettingsInit
<1>2. SiggenFreq.frequency = 1000
  BY <1>1, SMT DEF SettingsInit, SiggenFreq, SIGGEN_FREQUENCIES, Freq
<1> QED
  BY <1>1, <1>2, SMT DEF SettingsInit, SettingsInv

LEMMA NextTimebaseKeepsSettings ==
  ASSUME SettingsInv, NextTimebase
  PROVE  SettingsInv'
<1>1. timebase_index' \in 0 .. 16 /\ UNCHANGED <<siggen_freq_index, tim2_arr>>
  BY TableLengths, SMT DEF SettingsInv, NextTimebase, next_index
<1>2. /\ tim15' = timebase_regs(Timebase') /\ line' = timebase_line(line, Timebase')
      /\ latest' = "timebase"
  BY DEF NextTimebase, set_capture_timebase_from_index, Timebase
<1>3. line' = timebase_line([c \in Cells |-> Blank], Timebase')
  BY <1>2 DEF timebase_line, clear_status_line
<1> QED
  BY <1>1, <1>2, <1>3 DEF SettingsInv, SiggenFreq, Timebase

LEMMA NextSiggenFreqKeepsSettings ==
  ASSUME SettingsInv, NextSiggenFreq
  PROVE  SettingsInv'
<1>1. siggen_freq_index' \in 0 .. 8 /\ UNCHANGED <<timebase_index, tim15>>
  BY TableLengths, SMT DEF SettingsInv, NextSiggenFreq, next_index
<1>2. /\ tim2_arr' = siggen_arr(SiggenFreq'.frequency) /\ line' = siggen_line(SiggenFreq')
      /\ latest' = "siggen"
  BY DEF NextSiggenFreq, set_siggen_freq_from_index, SiggenFreq, siggen_line, clear_status_line
<1> QED
  BY <1>1, <1>2 DEF SettingsInv, SiggenFreq, Timebase

\* main.rs:303-340: after every press, TIM15, TIM2 and the status line are those of the table
\* entries that the two indices select.
THEOREM SettingsFollowed == Spec => []SettingsInv
<1>1. Init => SettingsInv
  BY InitSettings
<1>2. SettingsInv /\ [Next]_vars => SettingsInv'
  <2> SUFFICES ASSUME SettingsInv, [Next]_vars
               PROVE  SettingsInv'
    OBVIOUS
  <2>1. CASE UNCHANGED settingsVars
    BY <2>1 DEF settingsVars, SettingsInv, Timebase, SiggenFreq
  <2>2. NextTimebase \/ NextSiggenFreq \/ UNCHANGED settingsVars
    BY DEF Next, vars, Main, Match, GetChanged, ResetChanged, GetState, Tick
  <2> QED
    BY <2>1, <2>2, NextTimebaseKeepsSettings, NextSiggenFreqKeepsSettings
<1> QED
  BY <1>1, <1>2, PTL DEF Spec

\* With the clocks of the board, and in whatever order the buttons reach them: the samples
\* of every timebase but the last come at the pace that its label states.
THEOREM LabelsHonest ==
  ASSUME CLOCK = 72000000, PRESCALE = 2250, LIMIT = 1097, CONVERSION = 40
  PROVE  Spec => []TimebaseLabelTrue
<1>1. SettingsInv => TimebaseLabelTrue
  <2> SUFFICES ASSUME SettingsInv, ~BeyondAdc
               PROVE  TimebaseLabelTrue
    BY SMT DEF TimebaseLabelTrue
  <2>1. timebase_index + 1 \in 1 .. 16
    BY TableLengths, SMT DEF SettingsInv, BeyondAdc
  <2>2. TimebaseHonest(Timebase)
    BY <2>1, TimebasesHonest, SMT DEF Timebase
  <2>3. (tim15.arr + 1) * (tim15.psc + 1) = Triggers(Timebase)
    BY SMT DEF SettingsInv, Triggers
  <2>4. Triggers(Timebase) \in Nat /\ SamplePeriod(Triggers(Timebase)) = Triggers(Timebase)
    BY <2>2, EveryTriggerConverts, SMT DEF TimebaseHonest, AdcKeepsUp
  <2> QED
    BY <2>2, <2>3, <2>4, SMT DEF TimebaseLabelTrue, TimebaseHonest
<1> QED
  BY <1>1, SettingsFollowed, PTL

\* The line shows m characters of one text and, from cell p on, n of another.
Runs(a, m, b, n, p) ==
  \A c \in Cells : line[c] = IF c \in p .. p + n - 1 THEN <<b, c - p + 1>>
                            ELSE IF c \in 0 .. m - 1 THEN <<a, c + 1>> ELSE Blank

LEMMA TwoRuns ==
  ASSUME NEW a, NEW b, NEW m \in Nat, NEW n \in Nat, NEW p \in Nat,
         m > 0, n > 0, m <= p, p + n <= 20, Runs(a, m, b, n, p)
  PROVE  /\ \A k \in 1 .. m : 0 + k - 1 \in Cells /\ line[0 + k - 1] = <<a, k>>
         /\ \A k \in 1 .. n : p + k - 1 \in Cells /\ line[p + k - 1] = <<b, k>>
         /\ Cardinality({c \in Cells : line[c] # Blank}) = m + n
<1> USE DEF Runs
<1>1. \A k \in 1 .. m : 0 + k - 1 \in Cells /\ line[0 + k - 1] = <<a, k>>
  BY SMT DEF Cells
<1>2. \A k \in 1 .. n : p + k - 1 \in Cells /\ line[p + k - 1] = <<b, k>>
  BY SMT DEF Cells
<1> DEFINE A == 0 .. m - 1
           B == p .. p + n - 1
<1>3. \A c \in Cells : line[c] # Blank <=> c \in A \/ c \in B
  <2>1. \A k \in Nat \ {0} : <<a, k>> # Blank /\ <<b, k>> # Blank
    BY DEF Blank
  <2>2. \A c \in Cells : c + 1 \in Nat \ {0} /\ (c \in B => c - p + 1 \in Nat \ {0})
    BY SMT DEF Cells
  <2> QED
    BY <2>1, <2>2, Zenon
<1>4. A \subseteq Cells /\ B \subseteq Cells /\ A \cap B = {}
  BY SMT DEF Cells
<1>5. IsFiniteSet(A) /\ Cardinality(A) = m
  <2>1. IsFiniteSet(0 .. m - 1) /\ Cardinality(0 .. m - 1) = IF 0 > m - 1 THEN 0 ELSE m - 1 - 0 + 1
    BY FS_Interval, SMT
  <2> QED
    BY <2>1, SMT
<1>6. IsFiniteSet(B) /\ Cardinality(B) = n
  <2>1. /\ IsFiniteSet(p .. p + n - 1)
        /\ Cardinality(p .. p + n - 1) = IF p > p + n - 1 THEN 0 ELSE p + n - 1 - p + 1
    BY FS_Interval, SMT
  <2> QED
    BY <2>1, SMT
<1> HIDE DEF A, B
<1>7. {c \in Cells : line[c] # Blank} = A \cup B
  BY <1>3, <1>4
<1>8. Cardinality(A \cup B) = m + n
  <2>1. Cardinality(A \cup B) = Cardinality(A) + Cardinality(B) - Cardinality(A \cap B)
    BY <1>5, <1>6, FS_Union, Zenon
  <2>2. Cardinality(A \cap B) = 0
    BY <1>4, FS_EmptySet, Zenon
  <2> QED
    BY <1>5, <1>6, <2>1, <2>2, SMT
<1> QED
  BY <1>1, <1>2, <1>7, <1>8

\* Two texts printed on a blank line, the second to the right of the first, are both
\* there and nothing else is.
LEMMA TwoTexts ==
  ASSUME NEW a, NEW b, NEW p \in Nat, Width(a) \in Nat, Width(b) \in Nat,
         Width(a) > 0, Width(b) > 0, Width(a) <= p, p + Width(b) <= 20,
         line = st7735_print(st7735_print([c \in Cells |-> Blank], a, 0), b, p)
  PROVE  Shows(a, 0) /\ Shows(b, p) /\ Inked = Width(a) + Width(b)
<1>1. Runs(a, Width(a), b, Width(b), p)
  <2>1. \A c \in Cells : line[c] = IF c - p \in 0 .. Width(b) - 1 THEN <<b, c - p + 1>>
                         ELSE IF c - 0 \in 0 .. Width(a) - 1 THEN <<a, c - 0 + 1>> ELSE Blank
    BY Zenon DEF st7735_print
  <2>2. \A c \in Cells : /\ c - p \in 0 .. Width(b) - 1 <=> c \in p .. p + Width(b) - 1
                         /\ c - 0 = c
    BY SMT DEF Cells
  <2> QED
    BY <2>1, <2>2, Zenon DEF Runs
<1>2. /\ \A k \in 1 .. Width(a) : 0 + k - 1 \in Cells /\ line[0 + k - 1] = <<a, k>>
      /\ \A k \in 1 .. Width(b) : p + k - 1 \in Cells /\ line[p + k - 1] = <<b, k>>
      /\ Cardinality({c \in Cells : line[c] # Blank}) = Width(a) + Width(b)
  BY <1>1, TwoRuns, Zenon
<1> QED
  BY <1>2, Zenon DEF Shows, Inked

LEMMA LineOfTimebase ==
  ASSUME SettingsInv, latest = "timebase"
  PROVE  StatusLineCurrent
<1> DEFINE n == Width(Timebase.label)
<1>1. n \in 1 .. 16
  <2>1. timebase_index + 1 \in 1 .. Len(TIMEBASE_INTERVALS)
    BY TableLengths, SMT DEF SettingsInv
  <2> QED
    BY <2>1, TextWidths, Zenon DEF Timebase
<1>2. /\ n \in Nat /\ 4 \in Nat /\ n > 0 /\ 4 > 0 /\ n <= n /\ n + 4 <= 20
  BY <1>1, SMT
<1>3. line = st7735_print(st7735_print([c \in Cells |-> Blank], Timebase.label, 0), "/div", n)
  BY Zenon DEF SettingsInv, timebase_line, clear_status_line
<1>4. Shows(Timebase.label, 0) /\ Shows("/div", n) /\ Inked = n + 4
  BY <1>2, <1>3, TextWidths, TwoTexts, Zenon
<1> QED
  BY <1>4, Zenon DEF StatusLineCurrent

LEMMA LineOfSiggen ==
  ASSUME SettingsInv, latest = "siggen"
  PROVE  StatusLineCurrent
<1> DEFINE n == Width(SiggenFreq.label)
<1>1. n \in 1 .. 7
  <2>1. siggen_freq_index + 1 \in 1 .. Len(SIGGEN_FREQUENCIES)
    BY TableLengths, SMT DEF SettingsInv
  <2> QED
    BY <2>1, TextWidths, Zenon DEF SiggenFreq
<1>2. /\ n \in Nat /\ 12 \in Nat /\ 13 \in Nat /\ n > 0 /\ 12 > 0 /\ 12 <= 13 /\ 13 + n <= 20
  BY <1>1, SMT
<1>3. line = st7735_print(st7735_print([c \in Cells |-> Blank], "siggen freq:", 0), SiggenFreq.label, 13)
  BY Zenon DEF SettingsInv, siggen_line
<1>4. Shows("siggen freq:", 0) /\ Shows(SiggenFreq.label, 13) /\ Inked = 12 + n
  BY <1>2, <1>3, TextWidths, TwoTexts, Zenon
<1> QED
  BY <1>4, Zenon DEF StatusLineCurrent

\* After any sequence of presses of both buttons the status line names, to its last
\* character, the value in force of the setting made last, and nothing else is left on it.
THEOREM StatusLineNamesSetting == Spec => []StatusLineCurrent
<1>1. SettingsInv => StatusLineCurrent
  BY LineOfTimebase, LineOfSiggen DEF SettingsInv
<1> QED
  BY <1>1, SettingsFollowed, PTL
=============================================================================
