---------------------------- MODULE SiggenProofs ----------------------------
(***************************************************************************)
(* Proofs about Siggen for every table length, counter width and set of    *)
(* frequencies.                                                            *)
(***************************************************************************)
EXTENDS Siggen, TLAPS

\* How many samples of the table come before the one after sample x.
Past(x) == IF x = LEN THEN 0 ELSE x

\* siggen_setup has run up to `step', and TIM2 does not run before its last step.
SetupDone == on = {siggen_setup[i] : i \in 1 .. step - 1}

\* Nothing has triggered the DAC yet.
Fresh == \A w \in Waves : dhr[w] = 0 /\ dor[w] = 0 /\ ndt[w] = LEN /\ ~req[w]

\* The outputs agree; each DMA channel has fetched the sample after the one its
\* output shows, or is about to.
Running ==
  /\ step = 10
  /\ dor["sine"] = dor["ramp"]
  /\ \A w \in Waves :
       IF req[w] THEN dhr[w] = dor[w] /\ ndt[w] = LEN - Past(dor[w])
                 ELSE dhr[w] = Past(dor[w]) + 1 /\ ndt[w] = LEN - Past(dhr[w])

SInv == TypeOK /\ CounterBelowArr /\ SetupDone /\ (Fresh \/ Running)

-----------------------------------------------------------------------------
LEMMA PastIsMod ==
  ASSUME NEW x \in 0 .. LEN
  PROVE  x % LEN = Past(x)
  BY SiggenRegsAssumption DEF Past

\* siggen_set_freq's values fit the counter.
LEMMA ArrFits ==
  ASSUME NEW f \in Freqs
  PROVE  siggen_arr(f) \in 0 .. WRAP - 1
<1> DEFINE a == (SIGGEN_CLOCK \div LEN) \div f - 1
<1>1. f \in Nat \ {0} /\ siggen_arr(f) < WRAP
  BY SiggenAssumption
<1>2. a \in Int
  BY <1>1, SiggenRegsAssumption
<1>3. siggen_arr(f) = IF a > 1 THEN a ELSE 1
  BY DEF siggen_arr
<1> HIDE DEF a
<1> QED
  BY <1>1, <1>2, <1>3, TimerAssumption

LEMMA SetupLength == Len(siggen_setup) = 9
  BY DEF siggen_setup

\* The parts that are on before the timer is, and when all is set up.
LEMMA SetupParts ==
  ASSUME SetupDone, step \in 1 .. 10
  PROVE  /\ "cen" \in on <=> step = 10
         /\ step = 10 => {"dac", "en_dac", "dmaen", "dma3", "dma4", "en_ch3", "en_ch4"} \subseteq on
         /\ step < 10 => (siggen_setup[step] = "tim2" <=> step = 1)
         /\ step = 1 => on = {}
<1>1. /\ siggen_setup[1] = "tim2" /\ siggen_setup[2] = "dac" /\ siggen_setup[3] = "dma3"
      /\ siggen_setup[4] = "dma4" /\ siggen_setup[5] = "en_dac" /\ siggen_setup[6] = "en_ch3"
      /\ siggen_setup[7] = "en_ch4" /\ siggen_setup[8] = "dmaen" /\ siggen_setup[9] = "cen"
  BY DEF siggen_setup
<1>2. \A i \in 1 .. 9 : i \in 1 .. step - 1 => siggen_setup[i] \in on
  BY DEF SetupDone
<1>3. "cen" \in on <=> step = 10
  BY <1>1 DEF SetupDone
<1>4. step = 10 => {"dac", "en_dac", "dmaen", "dma3", "dma4", "en_ch3", "en_ch4"} \subseteq on
  BY <1>1, <1>2
<1>5. step < 10 => (siggen_setup[step] = "tim2" <=> step = 1)
  BY <1>1
<1>6. step = 1 => on = {}
  BY DEF SetupDone
<1> QED
  BY <1>3, <1>4, <1>5, <1>6

-----------------------------------------------------------------------------
LEMMA InitSInv ==
  ASSUME Init
  PROVE  SInv
<1> USE TimerAssumption, SiggenRegsAssumption
<1>1. TypeOK /\ CounterBelowArr
  BY SetupLength DEF Init, Loaded, TypeOK, TimerTypeOK, CounterBelowArr
<1>2. SetupDone
  BY DEF Init, SetupDone
<1>3. Fresh
  BY DEF Init, Fresh
<1> QED
  BY <1>1, <1>2, <1>3 DEF SInv

LEMMA SetupStepKeepsSInv ==
  ASSUME SInv, SetupStep
  PROVE  SInv'
<1> USE TimerAssumption, SiggenRegsAssumption
<1>1. TypeOK /\ TimerTypeOK /\ CounterBelowArr /\ SetupDone /\ step \in 1 .. 9 /\ Fresh
  BY SetupLength DEF SInv, TypeOK, SetupStep, Running
<1>2. step' = step + 1 /\ on' = on \cup {siggen_setup[step]}
  BY DEF SetupStep
<1>3. SetupDone'
  BY <1>1, <1>2 DEF SetupDone
<1>4. UNCHANGED <<dhr, dor, ndt, req>>
  <2>1. CASE siggen_setup[step] = "tim2"
    <3>1. Trigger /\ on = {}
      BY <1>1, <2>1, SetupParts DEF SetupStep
    <3> QED
      BY <3>1 DEF Trigger
  <2>2. CASE siggen_setup[step] # "tim2"
    BY <2>2 DEF SetupStep
  <2> QED
    BY <2>1, <2>2
<1>5. TimerTypeOK' /\ CounterBelowArr'
  BY <1>1, SiggenAssumption, SMTT(40) DEF SetupStep, TimerTypeOK, CounterBelowArr, timerVars
<1>6. TypeOK'
  <2>1. on' \subseteq {siggen_setup[i] : i \in 1 .. Len(siggen_setup)}
    BY <1>1, <1>2, SetupLength DEF TypeOK
  <2> QED
    BY <1>1, <1>2, <1>4, <1>5, <2>1, SetupLength DEF TypeOK
<1>7. Fresh'
  BY <1>1, <1>4 DEF Fresh
<1> QED
  BY <1>3, <1>5, <1>6, <1>7 DEF SInv

\* No clock of TIM2 takes the counter past ARR.
LEMMA ClockInRange ==
  ASSUME TimerTypeOK, CounterBelowArr, Clock
  PROVE  TimerTypeOK' /\ CounterBelowArr'
<1> USE TimerAssumption DEF TimerTypeOK, CounterBelowArr
<1>1. CASE Expires
  BY <1>1 DEF Clock, Reload
<1>2. CASE ~Expires
  <2>1. pcnt = pscShadow => cnt + 1 <= arrShadow /\ (cnt + 1) % WRAP = cnt + 1
    BY <1>2 DEF Expires
  <2>2. /\ pcnt' = IF pcnt = pscShadow THEN 0 ELSE pcnt + 1
        /\ cnt' = IF pcnt = pscShadow THEN (cnt + 1) % WRAP ELSE cnt
        /\ UNCHANGED <<arrShadow, pscShadow, arr, psc>>
    BY <1>2 DEF Clock
  <2> QED
    BY <2>1, <2>2
<1> QED
  BY <1>1, <1>2

LEMMA TickKeepsSInv ==
  ASSUME SInv, Tick
  PROVE  SInv'
<1> USE TimerAssumption, SiggenRegsAssumption
<1>1. TypeOK /\ TimerTypeOK /\ CounterBelowArr /\ SetupDone /\ (Fresh \/ Running)
  BY DEF SInv, TypeOK
<1>2. Clock /\ step' = step /\ on' = on
  BY DEF Tick
<1>3. TimerTypeOK' /\ CounterBelowArr' /\ SetupDone'
  BY <1>1, <1>2, ClockInRange DEF SetupDone
<1>4. /\ step = 10 /\ {"dac", "en_dac", "dmaen"} \subseteq on
      /\ \A w \in Waves : Served(w)
  <2>1. step = 10
    BY <1>1, SetupParts, SetupLength DEF Tick, TypeOK
  <2>2. {"dac", "en_dac", "dmaen", "dma3", "dma4", "en_ch3", "en_ch4"} \subseteq on
    BY <1>1, <2>1, SetupParts
  <2> QED
    BY <2>1, <2>2 DEF Served, Waves, dma_config, dma_enable
<1>5. CASE ~Expires
  <2>1. UNCHANGED <<dhr, dor, ndt, req>>
    BY <1>5 DEF Tick
  <2>2. TypeOK' /\ (Fresh' \/ Running')
    BY <1>1, <1>2, <1>3, <2>1 DEF TypeOK, Fresh, Running
  <2> QED
    BY <1>3, <2>2 DEF SInv
<1>6. CASE Expires
  <2>1. \A w \in Waves : ~req[w]
    BY <1>4, <1>6 DEF Tick
  <2>2. dor' = dhr /\ dhr' = dhr /\ ndt' = ndt /\ req' = [w \in Waves |-> TRUE]
    BY <1>4, <1>6 DEF Tick, Trigger
  <2>3. TypeOK'
    BY <1>1, <1>2, <1>3, <2>2 DEF TypeOK
  <2>4. dhr["sine"] = dhr["ramp"] /\ \A w \in Waves : ndt[w] = LEN - Past(dhr[w])
    <3>1. CASE Fresh
      BY <3>1 DEF Fresh, Past, Waves
    <3>2. CASE Running
      BY <2>1, <3>2 DEF Running, Waves
    <3> QED
      BY <1>1, <3>1, <3>2
  <2>5. Running'
    BY <1>2, <1>4, <2>2, <2>4 DEF Running
  <2> QED
    BY <1>3, <2>3, <2>5 DEF SInv
<1> QED
  BY <1>5, <1>6

LEMMA TransferKeepsSInv ==
  ASSUME SInv, NEW w \in Waves, Transfer(w)
  PROVE  SInv'
<1> USE TimerAssumption, SiggenRegsAssumption
<1>1. TypeOK /\ CounterBelowArr /\ SetupDone /\ Running
  BY DEF SInv, Transfer, Fresh
<1>2. /\ req[w] /\ UNCHANGED <<timerVars, step, on, dor>>
      /\ dhr' = [dhr EXCEPT ![w] = LEN - ndt[w] + 1]
      /\ ndt' = [ndt EXCEPT ![w] = ndt_after(ndt[w])]
      /\ req' = [req EXCEPT ![w] = FALSE]
  BY DEF Transfer
<1>3. dor[w] \in 0 .. LEN /\ dhr[w] = dor[w] /\ ndt[w] = LEN - Past(dor[w])
  BY <1>1, <1>2 DEF Running, TypeOK
<1>4. LEN - ndt[w] + 1 = Past(dor[w]) + 1 /\ LEN - ndt[w] + 1 \in 1 .. LEN
  BY <1>3 DEF Past
<1>5. ndt_after(ndt[w]) = LEN - Past(LEN - ndt[w] + 1) /\ ndt_after(ndt[w]) \in 1 .. LEN
  <2>1. ndt[w] \in 1 .. LEN
    BY <1>1 DEF TypeOK
  <2>2. CASE ndt[w] = 1
    BY <2>1, <2>2 DEF Past, ndt_after
  <2>3. CASE ndt[w] # 1
    BY <2>1, <2>3 DEF Past, ndt_after
  <2> QED
    BY <2>2, <2>3
<1>6. TypeOK'
  <2>1. dhr' \in [Waves -> 0 .. LEN] /\ ndt' \in [Waves -> 1 .. LEN] /\ req' \in [Waves -> BOOLEAN]
    BY <1>1, <1>2, <1>4, <1>5 DEF TypeOK
  <2> QED
    BY <1>1, <1>2, <2>1 DEF TypeOK, TimerTypeOK, timerVars
<1>7. CounterBelowArr' /\ SetupDone'
  BY <1>1, <1>2 DEF CounterBelowArr, SetupDone, timerVars
<1>8. Running'
  <2>1. ASSUME NEW v \in Waves
        PROVE  IF req'[v] THEN dhr'[v] = dor[v] /\ ndt'[v] = LEN - Past(dor[v])
                          ELSE dhr'[v] = Past(dor[v]) + 1 /\ ndt'[v] = LEN - Past(dhr'[v])
    <3>1. CASE v = w
      <4>1. dhr'[w] = LEN - ndt[w] + 1 /\ ndt'[w] = ndt_after(ndt[w]) /\ ~req'[w]
        BY <1>1, <1>2 DEF TypeOK
      <4> QED
        BY <1>4, <1>5, <3>1, <4>1
    <3>2. CASE v # w
      <4>1. dhr'[v] = dhr[v] /\ ndt'[v] = ndt[v] /\ req'[v] = req[v]
        BY <1>1, <1>2, <3>2 DEF TypeOK
      <4> QED
        BY <1>1, <4>1 DEF Running
    <3> QED
      BY <3>1, <3>2
  <2> QED
    BY <1>1, <1>2, <2>1 DEF Running
<1> QED
  BY <1>6, <1>7, <1>8 DEF SInv

LEMMA SetFreqKeepsSInv ==
  ASSUME SInv, NEW f \in Freqs, siggen_set_freq(f)
  PROVE  SInv'
<1>1. /\ arr' \in 0 .. WRAP - 1 /\ arrShadow' = arrShadow
      /\ UNCHANGED <<psc, pscShadow, cnt, pcnt, step, on, dhr, dor, ndt, req>>
  BY ArrFits, TimerAssumption DEF siggen_set_freq, write_arr, arpe
<1>2. TypeOK' /\ CounterBelowArr' /\ SetupDone'
  BY <1>1 DEF SInv, TypeOK, TimerTypeOK, CounterBelowArr, SetupDone
<1>3. Fresh' \/ Running'
  BY <1>1 DEF SInv, Fresh, Running
<1> QED
  BY <1>2, <1>3 DEF SInv

\* Timer, DAC and DMA2 channels agree at every moment of every behaviour of
\* siggen_setup(), siggen_set_freq() and the hardware.
THEOREM SiggenInvariant == Spec => []SInv
<1>1. Init => SInv
  BY InitSInv
<1>2. SInv /\ [Next]_vars => SInv'
  <2> SUFFICES ASSUME SInv, [Next]_vars
               PROVE  SInv'
    OBVIOUS
  <2>1. CASE SetupStep
    BY <2>1, SetupStepKeepsSInv
  <2>2. CASE Tick
    BY <2>2, TickKeepsSInv
  <2>3. CASE \E w \in Waves : Transfer(w)
    BY <2>3, TransferKeepsSInv
  <2>4. CASE \E f \in Freqs : siggen_set_freq(f)
    BY <2>4, SetFreqKeepsSInv
  <2>5. CASE UNCHANGED vars
    BY <2>5 DEF vars, timerVars, SInv, TypeOK, TimerTypeOK, CounterBelowArr, SetupDone, Fresh, Running
  <2> QED
    BY <2>1, <2>2, <2>3, <2>4, <2>5 DEF Next
<1> QED
  BY <1>1, <1>2, PTL DEF Spec

-----------------------------------------------------------------------------
\* siggen.rs:150: sine and ramp are always at the same sample of their tables,
\* whatever the tables' length.
THEOREM OutputsInPhase == Spec => []InPhase
<1>1. SInv => InPhase
  BY DEF SInv, Fresh, Running, InPhase, Waves
<1> QED
  BY <1>1, SiggenInvariant, PTL

\* siggen.rs:86-90: with ARPE set, no call of siggen_set_freq can leave TIM2's
\* counter above its period.
THEOREM CounterNeverLost == Spec => []NotInTheWeeds
<1>1. SInv => NotInTheWeeds
  BY DEF SInv, NotInTheWeeds
<1> QED
  BY <1>1, SiggenInvariant, PTL

\* siggen.rs:116-158: whatever is interleaved with them, the DAC outputs take only
\* steps of WaveSpec: no sample of a table is skipped, repeated or out of phase.
THEOREM OutputsAreTheWave == Spec => Wave!Init /\ [][Wave!Step]_dor
<1>1. Init => Wave!Init
  BY DEF Init, Wave!Init
<1>2. SInv /\ [Next]_vars => [Wave!Step]_dor
  <2> SUFFICES ASSUME SInv, Next, dor' # dor
               PROVE  Wave!Step
    BY DEF vars
  <2>1. TypeOK /\ SetupDone /\ (Fresh \/ Running)
    BY DEF SInv
  <2>2. CASE SetupStep
    <3>1. on = {}
      BY <2>1, <2>2, SetupParts, SetupLength DEF SetupStep, TypeOK
    <3> QED
      BY <2>2, <3>1 DEF SetupStep, Trigger
  <2>3. CASE Tick
    <3>1. Expires /\ dor' = dhr
      BY <2>3 DEF Tick, Trigger
    <3>2. Running
      BY <2>1, <3>1 DEF Fresh, TypeOK
    <3>3. \A w \in Waves : Served(w)
      <4>1. {"dac", "en_dac", "dmaen", "dma3", "dma4", "en_ch3", "en_ch4"} \subseteq on
        BY <2>1, <3>2, SetupParts DEF Running
      <4> QED
        BY <4>1 DEF Served, Waves, dma_config, dma_enable
    <3>4. \A w \in Waves : dhr[w] = Past(dor[w]) + 1
      BY <2>3, <3>1, <3>2, <3>3 DEF Tick, Running
    <3>5. \A w \in Waves : dhr[w] = (dor[w] % LEN) + 1
      BY <2>1, <3>4, PastIsMod DEF TypeOK
    <3> QED
      BY <2>1, <3>1, <3>5 DEF Wave!Step, TypeOK
  <2>4. CASE \E w \in Waves : Transfer(w)
    BY <2>4 DEF Transfer
  <2>5. CASE \E f \in Freqs : siggen_set_freq(f)
    BY <2>5 DEF siggen_set_freq
  <2> QED
    BY <2>2, <2>3, <2>4, <2>5 DEF Next
<1> QED
  BY <1>1, <1>2, SiggenInvariant, PTL DEF Spec
=============================================================================
