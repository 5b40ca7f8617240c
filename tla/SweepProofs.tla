---------------------------- MODULE SweepProofs ----------------------------
(***************************************************************************)
(* Proofs about Sweep.tla, for every sweep length N and every number of    *)
(* lost conversions.  IInv is inductive: NextIInv has one step per action  *)
(* and under it one per conjunct.  The theorems at the end read the        *)
(* properties off it.                                                      *)
(***************************************************************************)
EXTENDS Sweep, SequenceTheorems, TLAPS

\* The state in which main() enters its loop satisfies the invariant.
LEMMA InitIInv == Init => IInv
<1> SUFFICES ASSUME Init PROVE IInv
  OBVIOUS
<1>1. TypeOK
  <2>1. [x \in Columns |-> 0] \in [Columns -> 0 .. N + MaxLost]
    BY SweepAssumption
  <2>2. trace \in [Columns -> 0 .. N + MaxLost] /\ buf \in [Columns -> 0 .. N + MaxLost]
    BY <2>1, Zenon DEF Init
  <2>3. x_out \in 0 .. N /\ conv \in 0 .. N + MaxLost /\ cndtr \in 0 .. N
    BY SweepAssumption DEF Init
  <2> QED
    BY <2>2, <2>3 DEF Init, TypeOK, Labels, LEDs
<1>2. Masking /\ Progress /\ Hardware
  BY DEF Init, Masking, Progress, Hardware, Finishing, SweepActive
<1>3. Overruns /\ Stored
  BY DEF Init, Overruns, Stored, SweepActive, Plotting
<1>4. FreshTrace /\ Ld3ShowsCapture
  BY DEF Init, FreshTrace, Ld3ShowsCapture, Plotting
<1> QED
  BY <1>1, <1>2, <1>3, <1>4 DEF IInv

\* Every step of main(), of the handler, of the ADC and of the DMA controller
\* preserves the invariant.
LEMMA NextIInv == IInv /\ [Next]_vars => IInv'
<1> SUFFICES ASSUME TypeOK, Masking, Progress, Hardware, Overruns, Stored,
                    FreshTrace, Ld3ShowsCapture, [Next]_vars
             PROVE  IInv'
  BY DEF IInv
<1>1. CASE BeginEnableDma
  <2>1. TypeOK'
    BY <1>1 DEF BeginEnableDma, TypeOK, Labels, adcVars
  <2>2. Masking'
    BY <1>1 DEF BeginEnableDma, Masking
  <2>3. Progress'
    BY <1>1 DEF BeginEnableDma, Progress, Finishing
  <2>4. Hardware'
    BY <1>1 DEF BeginEnableDma, MainAt, Progress, Hardware, SweepActive, adcVars
  <2>5. Overruns'
    BY <1>1 DEF BeginEnableDma, MainAt, Overruns, SweepActive, adcVars
  <2>6. Stored'
    BY <1>1 DEF BeginEnableDma, Stored, SweepActive, Plotting
  <2>7. FreshTrace'
    BY <1>1 DEF BeginEnableDma, FreshTrace, Plotting
  <2>8. Ld3ShowsCapture'
    BY <1>1 DEF BeginEnableDma, MainAt, Ld3ShowsCapture, adcVars
  <2> QED
    BY <2>1, <2>2, <2>3, <2>4, <2>5, <2>6, <2>7, <2>8 DEF IInv
<1>2. CASE BeginStartAdc
  <2>1. TypeOK'
    <3>1. [x \in Columns |-> 0] \in [Columns -> 0 .. N + MaxLost]
      BY SweepAssumption
    <3>2. buf' \in [Columns -> 0 .. N + MaxLost] /\ trace' \in [Columns -> 0 .. N + MaxLost]
      BY <1>2, <3>1, Zenon DEF BeginStartAdc
    <3>3. conv' \in 0 .. N + MaxLost
      BY <1>2, SweepAssumption DEF BeginStartAdc
    <3>4. pc' \in Labels /\ primask' \in BOOLEAN /\ adstart' \in BOOLEAN
      BY <1>2 DEF BeginStartAdc, Labels
    <3> QED
      BY <1>2, <3>2, <3>3, <3>4, Zenon DEF BeginStartAdc, TypeOK, Columns
  <2>2. Masking'
    BY <1>2 DEF BeginStartAdc, Masking
  <2>3. Progress'
    BY <1>2 DEF BeginStartAdc, MainAt, Progress, Finishing
  <2>4. Hardware'
    BY <1>2, SweepAssumption DEF BeginStartAdc, MainAt, Progress, Hardware, SweepActive
  <2>5. Overruns'
    BY <1>2, SweepAssumption DEF BeginStartAdc, MainAt, Progress, Hardware, Overruns,
       SweepActive, Lost
  <2>6. Stored'
    BY <1>2, SweepAssumption DEF BeginStartAdc, MainAt, Progress, Hardware, Stored
  <2>7. FreshTrace'
    BY <1>2 DEF BeginStartAdc, MainAt, Progress, FreshTrace, Plotting
  <2>8. Ld3ShowsCapture'
    BY <1>2 DEF BeginStartAdc, Ld3ShowsCapture
  <2> QED
    BY <2>1, <2>2, <2>3, <2>4, <2>5, <2>6, <2>7, <2>8 DEF IInv
<1>3. CASE BeginLedOn
  <2>1. TypeOK'
    BY <1>3, SweepAssumption DEF BeginLedOn, led_on, LEDs, TypeOK, Labels, adcVars, dmaVars
  <2>2. Masking'
    BY <1>3 DEF BeginLedOn, MainAt, Masking, dmaVars
  <2>3. Progress'
    BY <1>3, SweepAssumption DEF BeginLedOn, MainAt, TypeOK, Progress, Finishing, dmaVars
  <2>4. Hardware'
    BY <1>3 DEF BeginLedOn, MainAt, Hardware, Finishing, SweepActive, adcVars, dmaVars
  <2>5. Overruns'
    BY <1>3 DEF BeginLedOn, MainAt, Overruns, SweepActive, Lost, adcVars, dmaVars
  <2>6. Stored'
    BY <1>3 DEF BeginLedOn, MainAt, Stored, SweepActive, adcVars, dmaVars
  <2>7. FreshTrace'
    BY <1>3 DEF BeginLedOn, FreshTrace
  <2>8. Ld3ShowsCapture'
    BY <1>3 DEF BeginLedOn, led_on, MainAt, Progress, Hardware, Ld3ShowsCapture, SweepActive,
       adcVars
  <2> QED
    BY <2>1, <2>2, <2>3, <2>4, <2>5, <2>6, <2>7, <2>8 DEF IInv
<1>4. CASE PollSampleCount
  <2>1. TypeOK'
    BY <1>4 DEF PollSampleCount, TypeOK, Labels, adcVars, dmaVars
  <2>2. Masking'
    BY <1>4 DEF PollSampleCount, MainAt, Masking, dmaVars
  <2>3. Progress'
    BY <1>4 DEF PollSampleCount, get_transferred_sample_count, Progress, Finishing, dmaVars
  <2>4. Hardware'
    BY <1>4 DEF PollSampleCount, Progress, Hardware, Finishing, SweepActive, adcVars, dmaVars
  <2>5. Overruns'
    BY <1>4 DEF PollSampleCount, Progress, Overruns, SweepActive, Lost, adcVars, dmaVars
  <2>6. Stored'
    BY <1>4 DEF PollSampleCount, Progress, Stored, SweepActive, Plotting, adcVars, dmaVars
  <2>7. FreshTrace'
    BY <1>4 DEF PollSampleCount, FreshTrace, Plotting
  <2>8. Ld3ShowsCapture'
    BY <1>4 DEF PollSampleCount, Progress, Ld3ShowsCapture, adcVars, dmaVars
  <2> QED
    BY <2>1, <2>2, <2>3, <2>4, <2>5, <2>6, <2>7, <2>8 DEF IInv
<1>5. CASE Plot
  <2>1. TypeOK'
    BY <1>5, SweepAssumption DEF Plot, MainAt, TypeOK, Progress, Columns, Labels, adcVars,
       dmaVars
  <2>2. Masking'
    BY <1>5 DEF Plot, MainAt, InterruptTaken, Masking, dmaVars
  <2>3. Progress'
    BY <1>5, SweepAssumption DEF Plot, sweep_done, MainAt, TypeOK, Progress, Finishing, dmaVars
  <2>4. Hardware'
    BY <1>5 DEF Plot, MainAt, Hardware, Finishing, SweepActive, adcVars, dmaVars
  <2>5. Overruns'
    BY <1>5 DEF Plot, MainAt, Overruns, SweepActive, Lost, adcVars, dmaVars
  <2>6. Stored'
    BY <1>5, SweepAssumption DEF Plot, MainAt, TypeOK, Progress, Stored, SweepActive,
       Plotting, Columns, adcVars, dmaVars
  <2>7. FreshTrace'
    <3>1. x_out \in Columns /\ x_out < N - cndtr /\ SweepActive /\ Plotting
      BY <1>5, SweepAssumption DEF Plot, MainAt, TypeOK, Progress, SweepActive, Plotting,
         Columns
    <3>2. \A x \in 0 .. x_out - 1 : trace'[x] = trace[x] /\ trace[x] = buf[x]
      BY <1>5, <3>1 DEF Plot, TypeOK, Stored, Columns
    <3>3. trace'[x_out] = buf[x_out]
      BY <1>5, <3>1 DEF Plot, TypeOK
    <3> QED
      BY <1>5, <3>1, <3>2, <3>3, SweepAssumption DEF Plot, TypeOK, Stored, FreshTrace, Plotting
  <2>8. Ld3ShowsCapture'
    BY <1>5 DEF Plot, MainAt, Ld3ShowsCapture, adcVars, dmaVars
  <2> QED
    BY <2>1, <2>2, <2>3, <2>4, <2>5, <2>6, <2>7, <2>8 DEF IInv
<1>6. CASE FinishDisableDma
  <2>1. TypeOK'
    BY <1>6 DEF FinishDisableDma, TypeOK, Labels, adcVars
  <2>2. Masking'
    BY <1>6 DEF FinishDisableDma, MainAt, Masking
  <2>3. Progress'
    BY <1>6 DEF FinishDisableDma, Progress, Finishing
  <2>4. Hardware'
    BY <1>6 DEF FinishDisableDma, Progress, Hardware, SweepActive, adcVars
  <2>5. Overruns'
    BY <1>6 DEF FinishDisableDma, MainAt, TypeOK, Progress, Hardware, Overruns, Finishing,
       SweepActive, Lost, adcVars
  <2>6. Stored'
    BY <1>6 DEF FinishDisableDma, Stored, SweepActive, Plotting
  <2>7. FreshTrace'
    BY <1>6 DEF FinishDisableDma, FreshTrace, Plotting
  <2>8. Ld3ShowsCapture'
    BY <1>6 DEF FinishDisableDma, Progress, Ld3ShowsCapture, adcVars
  <2> QED
    BY <2>1, <2>2, <2>3, <2>4, <2>5, <2>6, <2>7, <2>8 DEF IInv
<1>7. CASE FinishResetCount
  <2>1. TypeOK'
    BY <1>7 DEF FinishResetCount, write_ndt, TypeOK, Labels, adcVars
  <2>2. Masking'
    BY <1>7 DEF FinishResetCount, write_ndt, MainAt, Masking, Progress
  <2>3. Progress'
    BY <1>7 DEF FinishResetCount, MainAt, Progress, Finishing
  <2>4. Hardware'
    BY <1>7 DEF FinishResetCount, write_ndt, MainAt, Progress, Hardware, Finishing,
       SweepActive, adcVars
  <2>5. Overruns'
    BY <1>7 DEF FinishResetCount, MainAt, Progress, Overruns, Finishing, SweepActive, adcVars
  <2>6. Stored'
    BY <1>7 DEF FinishResetCount, write_ndt, MainAt, Stored, SweepActive, Plotting, adcVars
  <2>7. FreshTrace'
    BY <1>7 DEF FinishResetCount, FreshTrace, Plotting
  <2>8. Ld3ShowsCapture'
    BY <1>7 DEF FinishResetCount, MainAt, Ld3ShowsCapture, adcVars
  <2> QED
    BY <2>1, <2>2, <2>3, <2>4, <2>5, <2>6, <2>7, <2>8 DEF IInv
<1>8. CASE CheckOvr
  <2>1. TypeOK'
    BY <1>8 DEF CheckOvr, TypeOK, Labels, adcVars, dmaVars
  <2>2. Masking'
    BY <1>8 DEF CheckOvr, MainAt, Masking, dmaVars
  <2>3. Progress'
    BY <1>8 DEF CheckOvr, MainAt, Progress, Finishing, dmaVars
  <2>4. Hardware'
    BY <1>8 DEF CheckOvr, MainAt, Hardware, Finishing, SweepActive, adcVars, dmaVars
  <2>5. Overruns'
    BY <1>8 DEF CheckOvr, MainAt, Progress, Overruns, Finishing, SweepActive, adcVars, dmaVars
  <2>6. Stored'
    BY <1>8 DEF CheckOvr, MainAt, Stored, SweepActive, Plotting, adcVars, dmaVars
  <2>7. FreshTrace'
    BY <1>8 DEF CheckOvr, FreshTrace, Plotting
  <2>8. Ld3ShowsCapture'
    BY <1>8 DEF CheckOvr, MainAt, Ld3ShowsCapture, adcVars, dmaVars
  <2> QED
    BY <2>1, <2>2, <2>3, <2>4, <2>5, <2>6, <2>7, <2>8 DEF IInv
<1>9. CASE ClearOvr
  <2>1. TypeOK'
    BY <1>9 DEF ClearOvr, TypeOK, Labels, dmaVars
  <2>2. Masking'
    BY <1>9 DEF ClearOvr, MainAt, Masking, dmaVars
  <2>3. Progress'
    BY <1>9 DEF ClearOvr, MainAt, Progress, Finishing, dmaVars
  <2>4. Hardware'
    BY <1>9 DEF ClearOvr, MainAt, Hardware, Finishing, SweepActive, dmaVars
  <2>5. Overruns'
    BY <1>9 DEF ClearOvr, MainAt, Progress, Overruns, Finishing, SweepActive, dmaVars
  <2>6. Stored'
    BY <1>9 DEF ClearOvr, MainAt, Stored, SweepActive, Plotting, dmaVars
  <2>7. FreshTrace'
    BY <1>9 DEF ClearOvr, FreshTrace, Plotting
  <2>8. Ld3ShowsCapture'
    BY <1>9 DEF ClearOvr, MainAt, Ld3ShowsCapture, dmaVars
  <2> QED
    BY <2>1, <2>2, <2>3, <2>4, <2>5, <2>6, <2>7, <2>8 DEF IInv
<1>10. CASE ToggleRead
  <2>1. TypeOK'
    BY <1>10 DEF ToggleRead, led_toggle_read, TypeOK, Labels, adcVars, dmaVars
  <2>2. Masking'
    BY <1>10 DEF ToggleRead, MainAt, Masking, dmaVars
  <2>3. Progress'
    BY <1>10 DEF ToggleRead, MainAt, Progress, Finishing, dmaVars
  <2>4. Hardware'
    BY <1>10 DEF ToggleRead, MainAt, Hardware, Finishing, SweepActive, adcVars, dmaVars
  <2>5. Overruns'
    BY <1>10 DEF ToggleRead, MainAt, Progress, Overruns, Finishing, SweepActive, adcVars,
       dmaVars
  <2>6. Stored'
    BY <1>10 DEF ToggleRead, MainAt, Stored, SweepActive, Plotting, adcVars, dmaVars
  <2>7. FreshTrace'
    BY <1>10 DEF ToggleRead, FreshTrace, Plotting
  <2>8. Ld3ShowsCapture'
    BY <1>10 DEF ToggleRead, MainAt, Ld3ShowsCapture, adcVars, dmaVars
  <2> QED
    BY <2>1, <2>2, <2>3, <2>4, <2>5, <2>6, <2>7, <2>8 DEF IInv
<1>11. CASE ToggleWrite
  <2>1. TypeOK'
    BY <1>11 DEF ToggleWrite, led_toggle_write, led_set, LEDs, TypeOK, Labels, adcVars, dmaVars
  <2>2. Masking'
    BY <1>11 DEF ToggleWrite, MainAt, InterruptTaken, Masking, dmaVars
  <2>3. Progress'
    BY <1>11 DEF ToggleWrite, MainAt, Progress, Finishing, dmaVars
  <2>4. Hardware'
    BY <1>11 DEF ToggleWrite, MainAt, Hardware, Finishing, SweepActive, adcVars, dmaVars
  <2>5. Overruns'
    BY <1>11 DEF ToggleWrite, MainAt, Progress, Overruns, Finishing, SweepActive, adcVars,
       dmaVars
  <2>6. Stored'
    BY <1>11 DEF ToggleWrite, MainAt, Stored, SweepActive, Plotting, adcVars, dmaVars
  <2>7. FreshTrace'
    BY <1>11 DEF ToggleWrite, FreshTrace, Plotting
  <2>8. Ld3ShowsCapture'
    BY <1>11 DEF ToggleWrite, led_toggle_write, led_set, MainAt, Ld3ShowsCapture, adcVars,
       dmaVars
  <2> QED
    BY <2>1, <2>2, <2>3, <2>4, <2>5, <2>6, <2>7, <2>8 DEF IInv
<1>12. CASE Button1
  <2>1. TypeOK'
    BY <1>12, ZenonT(40) DEF Button1, Button, TypeOK, Labels, adcVars, dmaVars
  <2>2. Masking'
    BY <1>12 DEF Button1, Button, MainAt, Masking, dmaVars
  <2>3. Progress'
    BY <1>12 DEF Button1, Button, MainAt, Progress, Finishing, dmaVars
  <2>4. Hardware'
    BY <1>12 DEF Button1, Button, MainAt, Hardware, Finishing, SweepActive, adcVars, dmaVars
  <2>5. Overruns'
    BY <1>12 DEF Button1, Button, MainAt, Overruns, SweepActive, Lost, adcVars, dmaVars
  <2>6. Stored'
    BY <1>12 DEF Button1, Button, MainAt, Stored, SweepActive, Plotting, adcVars, dmaVars
  <2>7. FreshTrace'
    BY <1>12 DEF Button1, Button, FreshTrace, Plotting
  <2>8. Ld3ShowsCapture'
    BY <1>12 DEF Button1, Button, MainAt, Ld3ShowsCapture, adcVars, dmaVars
  <2> QED
    BY <2>1, <2>2, <2>3, <2>4, <2>5, <2>6, <2>7, <2>8 DEF IInv
<1>13. CASE SetTimebase
  <2>1. TypeOK'
    BY <1>13 DEF SetTimebase, LeaveCritical, TypeOK, Labels, adcVars, dmaVars
  <2>2. Masking'
    BY <1>13 DEF SetTimebase, LeaveCritical, Masking, dmaVars
  <2>3. Progress'
    BY <1>13 DEF SetTimebase, LeaveCritical, MainAt, Progress, Finishing, dmaVars
  <2>4. Hardware'
    BY <1>13 DEF SetTimebase, LeaveCritical, MainAt, Hardware, Finishing, SweepActive,
       adcVars, dmaVars
  <2>5. Overruns'
    BY <1>13 DEF SetTimebase, LeaveCritical, MainAt, Overruns, SweepActive, Lost, adcVars,
       dmaVars
  <2>6. Stored'
    BY <1>13 DEF SetTimebase, LeaveCritical, MainAt, Stored, SweepActive, Plotting, adcVars,
       dmaVars
  <2>7. FreshTrace'
    BY <1>13 DEF SetTimebase, LeaveCritical, FreshTrace, Plotting
  <2>8. Ld3ShowsCapture'
    BY <1>13 DEF SetTimebase, LeaveCritical, MainAt, Ld3ShowsCapture, adcVars, dmaVars
  <2> QED
    BY <2>1, <2>2, <2>3, <2>4, <2>5, <2>6, <2>7, <2>8 DEF IInv
<1>14. CASE Button4
  <2>1. TypeOK'
    BY <1>14, ZenonT(40) DEF Button4, Button, TypeOK, Labels, adcVars, dmaVars
  <2>2. Masking'
    BY <1>14 DEF Button4, Button, MainAt, Masking, dmaVars
  <2>3. Progress'
    BY <1>14 DEF Button4, Button, MainAt, Progress, Finishing, dmaVars
  <2>4. Hardware'
    BY <1>14 DEF Button4, Button, MainAt, Hardware, Finishing, SweepActive, adcVars, dmaVars
  <2>5. Overruns'
    BY <1>14 DEF Button4, Button, MainAt, Overruns, SweepActive, Lost, adcVars, dmaVars
  <2>6. Stored'
    BY <1>14 DEF Button4, Button, MainAt, Stored, SweepActive, Plotting, adcVars, dmaVars
  <2>7. FreshTrace'
    BY <1>14 DEF Button4, Button, FreshTrace, Plotting
  <2>8. Ld3ShowsCapture'
    BY <1>14 DEF Button4, Button, MainAt, Ld3ShowsCapture, adcVars, dmaVars
  <2> QED
    BY <2>1, <2>2, <2>3, <2>4, <2>5, <2>6, <2>7, <2>8 DEF IInv
<1>15. CASE SetSiggenFreq
  <2>1. TypeOK'
    BY <1>15 DEF SetSiggenFreq, LeaveCritical, TypeOK, Labels, adcVars, dmaVars
  <2>2. Masking'
    BY <1>15 DEF SetSiggenFreq, LeaveCritical, Masking, dmaVars
  <2>3. Progress'
    BY <1>15 DEF SetSiggenFreq, LeaveCritical, MainAt, Progress, Finishing, dmaVars
  <2>4. Hardware'
    BY <1>15 DEF SetSiggenFreq, LeaveCritical, MainAt, Hardware, Finishing, SweepActive,
       adcVars, dmaVars
  <2>5. Overruns'
    BY <1>15 DEF SetSiggenFreq, LeaveCritical, MainAt, Overruns, SweepActive, Lost, adcVars,
       dmaVars
  <2>6. Stored'
    BY <1>15 DEF SetSiggenFreq, LeaveCritical, MainAt, Stored, SweepActive, Plotting, adcVars,
       dmaVars
  <2>7. FreshTrace'
    BY <1>15 DEF SetSiggenFreq, LeaveCritical, FreshTrace, Plotting
  <2>8. Ld3ShowsCapture'
    BY <1>15 DEF SetSiggenFreq, LeaveCritical, MainAt, Ld3ShowsCapture, adcVars, dmaVars
  <2> QED
    BY <2>1, <2>2, <2>3, <2>4, <2>5, <2>6, <2>7, <2>8 DEF IInv
<1>16. CASE HandlerLedOff
  <2>1. TypeOK'
    BY <1>16 DEF HandlerLedOff, led_off, TypeOK, mainVars, adcVars, dmaVars
  <2>2. Masking'
    BY <1>16 DEF HandlerLedOff, led_off, InterruptTaken, Masking, mainVars, dmaVars
  <2>3. Progress'
    BY <1>16 DEF HandlerLedOff, Progress, mainVars, dmaVars
  <2>4. Hardware'
    BY <1>16 DEF HandlerLedOff, InterruptTaken, Masking, Hardware, mainVars, adcVars, dmaVars
  <2>5. Overruns'
    BY <1>16 DEF HandlerLedOff, Overruns, SweepActive, Lost, mainVars, adcVars, dmaVars
  <2>6. Stored'
    BY <1>16 DEF HandlerLedOff, Stored, SweepActive, Plotting, mainVars, adcVars, dmaVars
  <2>7. FreshTrace'
    BY <1>16 DEF HandlerLedOff, FreshTrace, Plotting, mainVars
  <2>8. Ld3ShowsCapture'
    BY <1>16 DEF HandlerLedOff, led_off, InterruptTaken, Masking, Hardware, Ld3ShowsCapture,
       adcVars
  <2> QED
    BY <2>1, <2>2, <2>3, <2>4, <2>5, <2>6, <2>7, <2>8 DEF IInv
<1>17. CASE HandlerClearFlag
  <2>1. TypeOK'
    BY <1>17 DEF HandlerClearFlag, TypeOK, mainVars, adcVars
  <2>2. Masking'
    BY <1>17 DEF HandlerClearFlag, Masking, mainVars
  <2>3. Progress'
    BY <1>17 DEF HandlerClearFlag, Progress, mainVars
  <2>4. Hardware'
    BY <1>17 DEF HandlerClearFlag, Masking, Hardware, mainVars, adcVars
  <2>5. Overruns'
    BY <1>17 DEF HandlerClearFlag, Overruns, SweepActive, Lost, mainVars, adcVars
  <2>6. Stored'
    BY <1>17 DEF HandlerClearFlag, Stored, SweepActive, Plotting, mainVars, adcVars
  <2>7. FreshTrace'
    BY <1>17 DEF HandlerClearFlag, FreshTrace, Plotting, mainVars
  <2>8. Ld3ShowsCapture'
    BY <1>17 DEF HandlerClearFlag, Masking, Ld3ShowsCapture, mainVars, adcVars
  <2> QED
    BY <2>1, <2>2, <2>3, <2>4, <2>5, <2>6, <2>7, <2>8 DEF IInv
<1>18. CASE Convert
  <2>1. TypeOK'
    BY <1>18, SweepAssumption DEF Convert, TypeOK, Hardware, Overruns, Lost, mainVars, dmaVars
  <2>2. Masking'
    BY <1>18 DEF Convert, Masking, mainVars, dmaVars
  <2>3. Progress'
    BY <1>18 DEF Convert, Progress, mainVars, dmaVars
  <2>4. Hardware'
    BY <1>18 DEF Convert, Hardware, SweepActive, mainVars, dmaVars
  <2>5. Overruns'
    BY <1>18, SweepAssumption DEF Convert, TypeOK, Progress, Hardware, Overruns, Finishing,
       SweepActive, Lost, mainVars, dmaVars
  <2>6. Stored'
    BY <1>18, SweepAssumption, SMTT(40) DEF Convert, TypeOK, Hardware, Stored, SweepActive, Plotting,
       Columns, mainVars, dmaVars
  <2>7. FreshTrace'
    BY <1>18 DEF Convert, FreshTrace, Plotting, mainVars
  <2>8. Ld3ShowsCapture'
    BY <1>18 DEF Convert, Ld3ShowsCapture, mainVars
  <2> QED
    BY <2>1, <2>2, <2>3, <2>4, <2>5, <2>6, <2>7, <2>8 DEF IInv
<1>19. CASE DmaTransfer
  <2>0. (adstart' <=> adstart /\ cndtr > 1) /\ (tcif' <=> tcif \/ cndtr = 1)
    BY <1>19, Zenon DEF DmaTransfer, adstart_after_transfer, TypeOK
  <2>1. TypeOK'
    <3>1. N - cndtr \in Columns
      BY <1>19, SweepAssumption DEF DmaTransfer, TypeOK, Columns
    <3>2. buf' \in [Columns -> 0 .. N + MaxLost]
      BY <1>19, <3>1 DEF DmaTransfer, TypeOK
    <3>3. tcif' \in BOOLEAN /\ adstart' \in BOOLEAN
      BY <1>19, Zenon DEF DmaTransfer, adstart_after_transfer
    <3>4. cndtr' \in 0 .. N
      BY <1>19, SweepAssumption DEF DmaTransfer, TypeOK
    <3> QED
      BY <1>19, <3>2, <3>3, <3>4 DEF DmaTransfer, TypeOK, mainVars
  <2>2. Masking'
    BY <1>19 DEF DmaTransfer, LedOnIsPrompt, TypeOK, Masking, Progress, Hardware, SweepActive,
       mainVars
  <2>3. Progress'
    BY <1>19, SweepAssumption DEF DmaTransfer, TypeOK, Progress, mainVars
  <2>4. Hardware'
    BY <1>19, <2>0, SweepAssumption DEF DmaTransfer, LedOnIsPrompt, TypeOK, Progress,
       Hardware, SweepActive, Finishing, mainVars
  <2>5. Overruns'
    BY <1>19, SweepAssumption DEF DmaTransfer, TypeOK, Overruns, SweepActive, Lost, mainVars
  <2>6. Stored'
    <3> DEFINE k == N - cndtr
    <3>1. k \in Columns /\ SweepActive
      BY <1>19, SweepAssumption DEF DmaTransfer, TypeOK, Hardware, Columns, SweepActive
    <3>2. buf'[k] = conv /\ \A i \in 0 .. k - 1 : buf'[i] = buf[i] /\ buf[i] < conv
      BY <1>19, <3>1 DEF DmaTransfer, TypeOK, Stored, Columns
    <3>3. conv \in k + 1 .. k + 1 + MaxLost
      BY <1>19, <3>1, SweepAssumption DEF DmaTransfer, TypeOK, Overruns, Lost
    <3>4. \A i \in 0 .. k - 1 : buf[i] \in i + 1 .. i + 1 + MaxLost /\ (i > 0 => buf[i - 1] < buf[i])
      BY <3>1 DEF Stored
    <3>5. ~req' /\ conv' = conv /\ N - cndtr' = k + 1
      BY <1>19, SweepAssumption DEF DmaTransfer, TypeOK
    <3>6. \A i \in 0 .. k : /\ buf'[i] \in i + 1 .. i + 1 + MaxLost
                            /\ i > 0 => buf'[i - 1] < buf'[i]
                            /\ buf'[i] <= conv
      BY <3>1, <3>2, <3>3, <3>4, SweepAssumption DEF Columns
    <3>7. Plotting' => \A x \in 0 .. x_out' - 1 : trace'[x] = buf'[x]
      BY <1>19, <3>1, <3>2, SweepAssumption DEF DmaTransfer, TypeOK, Progress, Stored,
         Plotting, mainVars
    <3>8. (k + 1) - 1 = k
      BY SweepAssumption DEF TypeOK
    <3> HIDE DEF k
    <3> QED
      BY <3>5, <3>6, <3>7, <3>8 DEF Stored
  <2>7. FreshTrace'
    BY <1>19 DEF DmaTransfer, FreshTrace, Plotting, mainVars
  <2>8. Ld3ShowsCapture'
    BY <1>19, <2>0, SweepAssumption, SMTT(40) DEF DmaTransfer, TypeOK, Ld3ShowsCapture, mainVars
  <2> QED
    BY <2>1, <2>2, <2>3, <2>4, <2>5, <2>6, <2>7, <2>8 DEF IInv
<1>20. CASE UNCHANGED vars
  <2>1. TypeOK' /\ Masking' /\ Progress'
    BY <1>20 DEF vars, mainVars, adcVars, dmaVars, IInv, TypeOK, Masking, Progress
  <2>2. Hardware' /\ Overruns'
    BY <1>20 DEF vars, mainVars, adcVars, dmaVars, IInv, Hardware, Overruns, Lost, SweepActive
  <2>3. Stored' /\ FreshTrace' /\ Ld3ShowsCapture'
    BY <1>20 DEF vars, mainVars, adcVars, dmaVars, IInv, Stored, FreshTrace, Ld3ShowsCapture, SweepActive, Plotting
  <2> QED
    BY <2>1, <2>2, <2>3 DEF IInv
<1> QED
  BY <1>1, <1>2, <1>3, <1>4, <1>5, <1>6, <1>7, <1>8, <1>9, <1>10, <1>11, <1>12, <1>13, <1>14,
     <1>15, <1>16, <1>17, <1>18, <1>19, <1>20 DEF Next, MainLoop, dma1ch1_interrupt_handler

\* The invariant holds throughout.
THEOREM SweepInvariant == Spec => []IInv
<1>1. Init => IInv
  BY InitIInv
<1>2. IInv /\ [Next]_vars => IInv'
  BY NextIInv
<1> QED
  BY <1>1, <1>2, PTL DEF Spec

\* Type correctness: CNDTR, x_out and the conversion count stay in their ranges,
\* so neither the buffer nor the columns of the screen are ever overrun.
THEOREM TypeCorrect == Spec => []TypeOK
<1>1. IInv => TypeOK
  BY DEF IInv
<1> QED
  BY <1>1, SweepInvariant, PTL

\* The columns plotted by main() show this sweep's conversions, in order.
THEOREM TraceIsFresh == Spec => []FreshTrace
<1>1. IInv => FreshTrace
  BY DEF IInv
<1> QED
  BY <1>1, SweepInvariant, PTL

\* OVR, when check_adc_ovr_flag reads it, tells of the sweep that just ended.
THEOREM OvrIsCurrent == Spec => []OvrIsAboutThisSweep
<1>1. IInv => OvrIsAboutThisSweep
  BY DEF IInv, Overruns, OvrIsAboutThisSweep
<1> QED
  BY <1>1, SweepInvariant, PTL

\* LD3 is lit during the capture and goes out with it.
THEOREM Ld3IsCorrect == Spec => []Ld3ShowsCapture
<1>1. IInv => Ld3ShowsCapture
  BY DEF IInv
<1> QED
  BY <1>1, SweepInvariant, PTL

\* begin_sweep and finish_sweep switch the DMA channel only while nothing is in
\* flight, although they mask at most the interrupt and never the hardware.
THEOREM SwitchedAtRest == Spec => ChannelSwitchedAtRest
<1> DEFINE AtRest == ~adstart /\ ~req /\ ~tcif /\ hpc = "idle"
<1>1. IInv /\ [Next]_vars => [dmaEn' # dmaEn => AtRest]_vars
  <2> SUFFICES ASSUME IInv, Next, dmaEn' # dmaEn PROVE AtRest
    OBVIOUS
  <2>1. CASE BeginEnableDma
    BY <2>1 DEF BeginEnableDma, MainAt, IInv, TypeOK, Masking, Progress, Hardware, SweepActive
  <2>2. CASE FinishDisableDma
    BY <2>2, SMTT(40) DEF FinishDisableDma, MainAt, IInv, TypeOK, Masking, Progress, Hardware, Finishing,
       SweepActive
  <2>3. BeginEnableDma \/ FinishDisableDma
    BY DEF Next, MainLoop, dma1ch1_interrupt_handler, BeginStartAdc, BeginLedOn, PollSampleCount,
       Plot, FinishResetCount, CheckOvr, ClearOvr, ToggleRead, ToggleWrite, Button1, SetTimebase,
       Button4, SetSiggenFreq, Button, LeaveCritical, HandlerLedOff, HandlerClearFlag, Convert,
       DmaTransfer, dmaVars
  <2> QED
    BY <2>1, <2>2, <2>3
<1> QED
  BY <1>1, SweepInvariant, PTL DEF Spec, ChannelSwitchedAtRest

-----------------------------------------------------------------------------
(* Every step is a step of SweepSpec.                                      *)

LEMMA FirstIsSeq ==
  ASSUME NEW n \in Nat, NEW S, NEW f, \A i \in 0 .. n - 1 : f[i] \in S
  PROVE  /\ First(n, f) \in Seq(S) /\ Len(First(n, f)) = n
         /\ \A i \in 1 .. n : First(n, f)[i] = f[i - 1]
<1>1. First(n, f) \in [1 .. n -> S]
  BY DEF First
<1>2. First(n, f) \in Seq(S)
  BY <1>1, SeqDef
<1>3. DOMAIN First(n, f) = 1 .. n
  BY DEF First
<1>4. Len(First(n, f)) \in Nat /\ DOMAIN First(n, f) = 1 .. Len(First(n, f))
  BY <1>2, LenProperties
<1> HIDE DEF First
<1>5. Len(First(n, f)) = n
  BY <1>3, <1>4
<1> QED
  BY <1>2, <1>5 DEF First

\* One element more, the others the same: that element is appended.
Extends(g, n, f, S) == g[n] \in S /\ \A i \in 0 .. n - 1 : f[i] \in S /\ g[i] = f[i]

LEMMA FirstAppend ==
  ASSUME NEW n \in Nat, NEW S, NEW f, NEW g, Extends(g, n, f, S)
  PROVE  First(n + 1, g) = Append(First(n, f), g[n])
<1> USE DEF Extends
<1> DEFINE s == First(n, f)
           t == First(n + 1, g)
<1>1. s \in Seq(S) /\ Len(s) = n /\ \A i \in 1 .. n : s[i] = f[i - 1]
  <2>1. \A i \in 0 .. n - 1 : f[i] \in S
    OBVIOUS
  <2> QED
    BY <2>1, FirstIsSeq, ZenonT(40)
<1>2. n + 1 \in Nat /\ \A i \in 0 .. (n + 1) - 1 : g[i] \in S
  OBVIOUS
<1>3. /\ t \in Seq(S) /\ Len(t) = n + 1
      /\ \A i \in 1 .. n + 1 : t[i] = g[i - 1]
  <2>1. t \in Seq(S) /\ Len(t) = n + 1
    BY <1>2, FirstIsSeq, Zenon
  <2> QED
    BY <2>1 DEF First
<1> HIDE DEF s, t
<1> DEFINE u == Append(s, g[n])
<1>4. /\ u \in Seq(S) /\ Len(u) = n + 1
      /\ \A i \in 1 .. n : u[i] = s[i]
      /\ u[n + 1] = g[n]
  BY <1>1, AppendProperties
<1> HIDE DEF u
<1>5. ASSUME NEW i \in 1 .. n + 1
      PROVE  t[i] = u[i]
  <2>1. CASE i = n + 1
    BY <1>3, <1>4, <2>1
  <2>2. CASE i \in 1 .. n
    <3>1. i - 1 \in 0 .. n - 1
      BY <2>2
    <3> QED
      BY <1>1, <1>3, <1>4, <2>2, <3>1
  <2> QED
    BY <2>1, <2>2
<1>6. t = u
  BY <1>3, <1>4, <1>5, SeqEqual
<1> QED
  BY <1>6 DEF s, t, u

LEMMA FirstNone ==
  ASSUME NEW f
  PROVE  First(0, f) = << >>
<1>1. First(0, f) \in Seq({}) /\ Len(First(0, f)) = 0
  BY FirstIsSeq
<1> QED
  BY <1>1, EmptySeq, Zenon

\* What the invariant says of the two sequences.
LEMMA MappedState ==
  ASSUME IInv
  PROVE  /\ CapturedCount \in 0 .. N /\ DisplayedCount \in 0 .. CapturedCount
         /\ \A i \in 0 .. CapturedCount - 1 : buf[i] \in 1 .. N + MaxLost
         /\ \A i \in 0 .. DisplayedCount - 1 : trace[i] = buf[i]
         /\ Len(Captured) = CapturedCount /\ Len(Displayed) = DisplayedCount
         /\ \A i \in 1 .. CapturedCount : Captured[i] = buf[i - 1]
<1> USE SweepAssumption DEF IInv
<1>1. CapturedCount \in 0 .. N /\ DisplayedCount \in 0 .. CapturedCount
  BY DEF TypeOK, Progress, CapturedCount, DisplayedCount, SweepActive, Plotting
<1>2. \A i \in 0 .. CapturedCount - 1 : buf[i] \in 1 .. N + MaxLost
  <2>1. CapturedCount > 0 => SweepActive /\ CapturedCount = N - cndtr
    BY DEF CapturedCount
  <2>2. \A i \in 0 .. CapturedCount - 1 : i \in Columns /\ buf[i] \in i + 1 .. i + 1 + MaxLost
    BY <1>1, <2>1 DEF Stored, Columns
  <2>3. \A i \in Columns : buf[i] \in 0 .. N + MaxLost
    BY DEF TypeOK
  <2> QED
    BY <1>1, <2>2, <2>3 DEF Columns
<1>3. \A i \in 0 .. DisplayedCount - 1 : trace[i] = buf[i]
  BY DEF Stored, DisplayedCount, TypeOK
<1>4. \A i \in 0 .. DisplayedCount - 1 : trace[i] \in 1 .. N + MaxLost
  BY <1>1, <1>2, <1>3
<1>5. CapturedCount \in Nat /\ DisplayedCount \in Nat
  BY <1>1
<1>6. /\ Len(Captured) = CapturedCount
      /\ \A i \in 1 .. CapturedCount : Captured[i] = buf[i - 1]
  <2>1. Len(Captured) = CapturedCount
    BY <1>2, <1>5, FirstIsSeq, Zenon DEF Captured
  <2> QED
    BY <2>1 DEF Captured, First
<1>7. Len(Displayed) = DisplayedCount
  BY <1>4, <1>5, FirstIsSeq, Zenon DEF Displayed
<1> QED
  BY <1>1, <1>2, <1>3, <1>6, <1>7

\* Steps that leave the sweep alone, and steps between sweeps.
LEMMA SweepUntouched ==
  ASSUME UNCHANGED <<SweepActive, ovr, Plotting, cndtr, x_out, buf, trace>>
  PROVE  UNCHANGED Abstract!vars
  BY DEF Abstract!vars, Captured, Displayed, First, CapturedCount, DisplayedCount

LEMMA NothingBetweenSweeps ==
  ASSUME ~SweepActive, ~SweepActive', SweepActive \in BOOLEAN, SweepActive' \in BOOLEAN
  PROVE  UNCHANGED Abstract!vars
<1>1. SweepActive' = SweepActive /\ (SweepActive /\ ovr)' = (SweepActive /\ ovr)
  OBVIOUS
<1>2. CapturedCount = 0 /\ CapturedCount' = 0 /\ DisplayedCount = 0 /\ DisplayedCount' = 0
  BY DEF CapturedCount, DisplayedCount
<1>3. Captured = << >> /\ Captured' = << >> /\ Displayed = << >> /\ Displayed' = << >>
  BY <1>2, FirstNone, Zenon DEF Captured, Displayed
<1> QED
  BY <1>1, <1>3 DEF Abstract!vars

\* Setting ADSTART begins the sweep, with nothing captured and nothing displayed.
LEMMA StartAdcBegins ==
  ASSUME IInv, BeginStartAdc
  PROVE  Abstract!Begin
<1>1. /\ ~SweepActive /\ SweepActive' = TRUE /\ state = "Before" /\ cndtr = N
      /\ UNCHANGED <<state, cndtr>>
  BY DEF IInv, Progress, Hardware, BeginStartAdc, MainAt, SweepActive
<1>2. CapturedCount = 0 /\ CapturedCount' = 0 /\ DisplayedCount = 0 /\ DisplayedCount' = 0
  BY <1>1, SweepAssumption DEF CapturedCount, DisplayedCount, Plotting
<1>3. Captured = << >> /\ Captured' = << >> /\ Displayed = << >> /\ Displayed' = << >>
  BY <1>2, FirstNone, Zenon DEF Captured, Displayed
<1>4. (SweepActive /\ ovr)' = (SweepActive /\ ovr)
  BY <1>1 DEF IInv, Overruns, BeginStartAdc, MainAt
<1> QED
  BY <1>1, <1>3, <1>4 DEF Abstract!Begin

\* main() enters SweepState::During with no column plotted.
LEMMA LedOnStutters ==
  ASSUME IInv, BeginLedOn
  PROVE  UNCHANGED Abstract!vars
<1>1. UNCHANGED <<SweepActive, ovr, cndtr, buf>> /\ x_out' = 0 /\ state = "Before"
  BY DEF IInv, Progress, BeginLedOn, MainAt, SweepActive, adcVars, dmaVars
<1>2. UNCHANGED Captured
  BY <1>1 DEF Captured, CapturedCount, First
<1>3. DisplayedCount = 0 /\ DisplayedCount' = 0
  BY <1>1 DEF DisplayedCount, Plotting
<1>4. Displayed = << >> /\ Displayed' = << >>
  BY <1>3, FirstNone, Zenon DEF Displayed
<1> QED
  BY <1>1, <1>2, <1>4 DEF Abstract!vars

\* A transfer appends a conversion later than those before it.
LEMMA TransferSamples ==
  ASSUME IInv, DmaTransfer
  PROVE  Abstract!Sample
<1> USE SweepAssumption
<1> DEFINE k == N - cndtr
<1>1. /\ SweepActive /\ SweepActive' = SweepActive /\ cndtr \in 1 .. N /\ cndtr' = cndtr - 1
      /\ CapturedCount = k /\ CapturedCount' = k + 1 /\ k \in Columns /\ k \in Nat /\ k < N
      /\ UNCHANGED <<ovr, Plotting, x_out, trace>>
  BY DEF IInv, TypeOK, Hardware, DmaTransfer, SweepActive, CapturedCount, Plotting, Columns, mainVars
<1>2. buf'[k] = conv /\ \A i \in 0 .. k - 1 : buf'[i] = buf[i] /\ buf[i] < conv
  BY <1>1 DEF DmaTransfer, IInv, TypeOK, Stored, Columns
<1>3. conv \in 1 .. N + MaxLost
  BY <1>1 DEF DmaTransfer, IInv, TypeOK, Overruns, Lost
<1>4. \A i \in 0 .. k - 1 : buf[i] \in 1 .. N + MaxLost
  BY <1>1, MappedState
<1>5. UNCHANGED Displayed
  BY <1>1 DEF Displayed, DisplayedCount, First
<1> HIDE DEF k
<1>6. First(k + 1, buf') = Append(First(k, buf), buf'[k])
  <2> DEFINE S == 1 .. N + MaxLost
  <2>1. Extends(buf', k, buf, S)
    BY <1>2, <1>3, <1>4 DEF Extends
  <2> HIDE DEF S
  <2> QED
    BY <1>1, <2>1, FirstAppend, ZenonT(40)
<1>7. Captured' = Append(Captured, conv)
  BY <1>1, <1>2, <1>6, Zenon DEF Captured
<1>8. Len(Captured) = k /\ \A i \in 1 .. k : Captured[i] = buf[i - 1]
  BY <1>1, MappedState
<1>9. Captured # << >> => conv > Captured[Len(Captured)]
  <2>1. Captured # << >> => k > 0
    <3>1. k = 0 => Captured = << >>
      BY <1>1, FirstNone, Zenon DEF Captured
    <3> QED
      BY <1>1, <3>1
  <2>2. k > 0 => k - 1 \in 0 .. k - 1 /\ k \in 1 .. k
    BY <1>1
  <2>3. k > 0 => Captured[k] < conv
    BY <1>2, <1>8, <2>2
  <2> QED
    BY <1>8, <2>1, <2>3, <1>2, <1>3, <1>4, <2>2
<1> QED
  BY <1>1, <1>3, <1>5, <1>7, <1>8, <1>9, Zenon DEF Abstract!Sample

\* Plotting column x_out displays the sample captured there.
LEMMA PlotShows ==
  ASSUME IInv, Plot
  PROVE  Abstract!Show
<1> USE SweepAssumption
<1> DEFINE k == x_out
<1>1. /\ SweepActive /\ SweepActive' = SweepActive /\ Plotting /\ Plotting' /\ k \in Columns /\ k \in Nat
      /\ DisplayedCount = k /\ DisplayedCount' = k + 1 /\ k < N - cndtr /\ CapturedCount = N - cndtr
      /\ UNCHANGED <<ovr, cndtr, buf>>
  BY DEF IInv, TypeOK, Progress, Plot, MainAt, SweepActive, DisplayedCount, CapturedCount, Plotting,
         Columns, adcVars, dmaVars
<1>2. trace'[k] = buf[k] /\ \A i \in 0 .. k - 1 : trace'[i] = trace[i]
  BY <1>1 DEF Plot, IInv, TypeOK, Columns
<1>3. \A i \in 0 .. CapturedCount - 1 : buf[i] \in 1 .. N + MaxLost
  BY MappedState
<1>4. UNCHANGED Captured
  BY <1>1 DEF Captured, CapturedCount, First
<1>5. /\ Len(Captured) = CapturedCount /\ Len(Displayed) = DisplayedCount
      /\ \A i \in 1 .. CapturedCount : Captured[i] = buf[i - 1]
      /\ \A i \in 0 .. k - 1 : trace[i] = buf[i]
      /\ CapturedCount \in 0 .. N
  BY <1>1, MappedState
<1> HIDE DEF k
<1>6. First(k + 1, trace') = Append(First(k, trace), trace'[k])
  <2> DEFINE S == 1 .. N + MaxLost
  <2>1. k \in Nat /\ k \in 0 .. CapturedCount - 1 /\ \A i \in 0 .. k - 1 : i \in 0 .. CapturedCount - 1
    BY <1>1, <1>5
  <2>2. Extends(trace', k, trace, S)
    BY <1>2, <1>3, <1>5, <2>1, Zenon DEF Extends
  <2> HIDE DEF S
  <2> QED
    BY <2>1, <2>2, FirstAppend, ZenonT(40)
<1>7. Displayed' = Append(Displayed, buf[k])
  BY <1>1, <1>2, <1>6, Zenon DEF Displayed
<1>8. Len(Displayed) < Len(Captured) /\ Captured[Len(Displayed) + 1] = buf[k]
  <2>1. k + 1 \in 1 .. CapturedCount /\ (k + 1) - 1 = k /\ k < CapturedCount
    BY <1>1, <1>5
  <2> QED
    BY <1>1, <1>5, <2>1
<1> QED
  BY <1>1, <1>4, <1>7, <1>8, Zenon DEF Abstract!Show

\* Disabling the channel ends the sweep, all N samples displayed.
LEMMA DisableDmaEnds ==
  ASSUME IInv, FinishDisableDma
  PROVE  Abstract!End
<1>1. SweepActive /\ SweepActive' = FALSE /\ DisplayedCount = N
  BY DEF IInv, Progress, FinishDisableDma, MainAt, SweepActive, DisplayedCount, Plotting, Finishing
<1>2. CapturedCount' = 0 /\ DisplayedCount' = 0
  BY <1>1 DEF CapturedCount, DisplayedCount
<1>3. Captured' = << >> /\ Displayed' = << >>
  BY <1>2, FirstNone, Zenon DEF Captured, Displayed
<1>4. Len(Displayed) = N
  BY <1>1, MappedState
<1> QED
  BY <1>1, <1>3, <1>4 DEF Abstract!End

\* A conversion is invisible, unless it overruns the one before it.
LEMMA ConvertOverruns ==
  ASSUME IInv, Convert
  PROVE  Abstract!Overrun \/ UNCHANGED Abstract!vars
<1>1. /\ SweepActive /\ SweepActive' = SweepActive /\ cndtr \in 1 .. N
      /\ UNCHANGED <<Plotting, cndtr, x_out, buf, trace>>
  BY DEF IInv, TypeOK, Hardware, Convert, SweepActive, Plotting, mainVars, dmaVars
<1>2. CASE req
  <2>1. (SweepActive /\ ovr)' = TRUE
    BY <1>1, <1>2 DEF Convert
  <2>2. UNCHANGED <<Captured, Displayed>>
    BY <1>1 DEF Captured, Displayed, First, CapturedCount, DisplayedCount
  <2>3. Len(Captured) < N
    <3>1. Len(Captured) = CapturedCount
      BY MappedState
    <3> QED
      BY <1>1, <3>1, SweepAssumption DEF CapturedCount
  <2> QED
    BY <1>1, <2>1, <2>2, <2>3 DEF Abstract!Overrun
<1>3. CASE ~req
  <2>1. ovr' = ovr
    BY <1>3 DEF Convert, IInv, TypeOK
  <2> QED
    BY <1>1, <2>1, SweepUntouched
<1> QED
  BY <1>2, <1>3

\* Everything else that main() and the handler do is invisible.
LEMMA OthersStutter ==
  ASSUME IInv,
         \/ BeginEnableDma \/ PollSampleCount \/ FinishResetCount \/ CheckOvr \/ ClearOvr
         \/ ToggleRead \/ ToggleWrite \/ Button1 \/ SetTimebase \/ Button4 \/ SetSiggenFreq
         \/ HandlerLedOff \/ HandlerClearFlag \/ UNCHANGED vars
  PROVE  UNCHANGED Abstract!vars
<1> DEFINE Kept == UNCHANGED <<ovr, state, dmaEn, cndtr, x_out, buf, trace>>
<1>1. CASE BeginEnableDma
  <2>1. ~dmaEn /\ pc' = "adstart"
    BY <1>1 DEF BeginEnableDma, MainAt, IInv, Progress
  <2>2. SweepActive = FALSE /\ SweepActive' = FALSE
    BY <2>1 DEF SweepActive
  <2> QED
    BY <2>2, NothingBetweenSweeps, Zenon
<1>2. CASE FinishResetCount \/ CheckOvr \/ ClearOvr \/ ToggleRead \/ ToggleWrite
  <2>1. pc \in Finishing /\ dmaEn' = dmaEn
    BY <1>2 DEF FinishResetCount, CheckOvr, ClearOvr, ToggleRead, ToggleWrite, MainAt, dmaVars, Finishing
  <2>2. ~dmaEn
    BY <2>1 DEF IInv, Progress, Finishing
  <2>3. SweepActive = FALSE /\ SweepActive' = FALSE
    BY <2>1, <2>2 DEF SweepActive
  <2> QED
    BY <2>3, NothingBetweenSweeps, Zenon
<1>3. CASE PollSampleCount \/ Button1 \/ SetTimebase \/ Button4 \/ SetSiggenFreq
  <2>1. Kept /\ pc # "adstart" /\ pc' # "adstart"
    <3>1. CASE PollSampleCount
      BY <3>1 DEF PollSampleCount, MainAt, adcVars, dmaVars
    <3>2. CASE Button1 \/ Button4
      BY <3>2 DEF Button1, Button4, Button, MainAt, adcVars, dmaVars
    <3>3. CASE SetTimebase \/ SetSiggenFreq
      BY <3>3 DEF SetTimebase, SetSiggenFreq, LeaveCritical, MainAt, adcVars, dmaVars
    <3> QED
      BY <1>3, <3>1, <3>2, <3>3
  <2>2. UNCHANGED <<SweepActive, ovr, Plotting, cndtr, x_out, buf, trace>>
    BY <2>1 DEF SweepActive, Plotting
  <2> QED
    BY <2>2, SweepUntouched
<1>4. CASE HandlerLedOff \/ HandlerClearFlag \/ UNCHANGED vars
  <2>1. Kept /\ pc' = pc
    BY <1>4 DEF HandlerLedOff, HandlerClearFlag, vars, mainVars, adcVars, dmaVars
  <2>2. UNCHANGED <<SweepActive, ovr, Plotting, cndtr, x_out, buf, trace>>
    BY <2>1 DEF SweepActive, Plotting
  <2> QED
    BY <2>2, SweepUntouched
<1> QED
  BY <1>1, <1>2, <1>3, <1>4

\* The safety of ImplementsSweepSpec, for every sweep length: the registers, the
\* interrupt and the shared buffer implement a sweep that captures N samples in order,
\* displays them in order and ends when all are displayed, overruns or none.  (That
\* sweeps without an overrun follow one another is liveness, which TLC checks.)
THEOREM SweepIsImplemented == Spec => Abstract!Spec
<1>1. Init => Abstract!Init
  <2> SUFFICES ASSUME Init
               PROVE  Abstract!Init
    OBVIOUS
  <2>1. SweepActive = FALSE /\ CapturedCount = 0 /\ DisplayedCount = 0
    BY DEF Init, SweepActive, CapturedCount, DisplayedCount
  <2>2. Captured = << >> /\ Displayed = << >>
    BY <2>1, FirstNone, Zenon DEF Captured, Displayed
  <2> QED
    BY <2>1, <2>2 DEF Abstract!Init
<1>2. IInv /\ [Next]_vars => [Abstract!Next]_(Abstract!vars)
  <2> SUFFICES ASSUME IInv, [Next]_vars
               PROVE  [Abstract!Next]_(Abstract!vars)
    OBVIOUS
  <2>1. CASE BeginStartAdc
    BY <2>1, StartAdcBegins DEF Abstract!Next
  <2>2. CASE BeginLedOn
    BY <2>2, LedOnStutters
  <2>3. CASE Plot
    BY <2>3, PlotShows DEF Abstract!Next
  <2>4. CASE FinishDisableDma
    BY <2>4, DisableDmaEnds DEF Abstract!Next
  <2>5. CASE DmaTransfer
    BY <2>5, TransferSamples DEF Abstract!Next
  <2>6. CASE Convert
    BY <2>6, ConvertOverruns DEF Abstract!Next
  <2> QED
    BY <2>1, <2>2, <2>3, <2>4, <2>5, <2>6, OthersStutter
       DEF Next, MainLoop, dma1ch1_interrupt_handler
<1> QED
  BY <1>1, <1>2, SweepInvariant, PTL DEF Spec, Abstract!Spec
=============================================================================
