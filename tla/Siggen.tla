------------------------------- MODULE Siggen -------------------------------
(***************************************************************************)
(* The signal generator: TIM2 triggers both DAC channels, each of which    *)
(* outputs what its holding register holds and has a DMA2 channel fetch    *)
(* the next sample of its table.  siggen_setup() switches the parts on one *)
(* by one; siggen_set_freq() changes TIM2's period while all of it runs.   *)
(***************************************************************************)
EXTENDS Timer, SiggenRegs, Sequences

CONSTANTS
  SETUP_ARR,    \* ARR as siggen_setup leaves it, 249
  Freqs         \* frequencies that siggen_set_freq is called with

ASSUME SiggenAssumption ==
  /\ SETUP_ARR \in 0 .. WRAP - 1
  /\ Freqs \subseteq Nat \ {0} /\ \A f \in Freqs : siggen_arr(f) < WRAP

VARIABLES
  step,    \* position of siggen_setup
  on,      \* the parts that it has configured or enabled
  dhr,     \* sample number in each DAC channel's holding register, 0 at reset
  dor,     \* sample number at each output
  ndt,     \* CNDTR of each DMA channel
  req      \* DMA requests pending

vars == <<timerVars, step, on, dhr, dor, ndt, req>>

-----------------------------------------------------------------------------
\* The waveforms, with the DMA2 channel of each.
Waves == {"sine", "ramp"}
dma_config  == [sine |-> "dma3", ramp |-> "dma4"]
dma_enable  == [sine |-> "en_ch3", ramp |-> "en_ch4"]

\* Mutated form: TIM2 is started before the DMA channels.
siggen_setup_timer_first ==
  <<"tim2", "dac", "dma3", "dma4", "en_dac", "dmaen", "cen", "en_ch3", "en_ch4">>

\* The order in which siggen_setup configures and enables the parts.
siggen_setup ==
  <<"tim2", "dac", "dma3", "dma4", "en_dac", "en_ch3", "en_ch4", "dmaen", "cen">>

\* Mutated form: writes of ARR are not buffered.
arpe_clear == FALSE

\* CR1.ARPE: ARR is buffered.
arpe == TRUE

\* Mutated form: a transfer count of one less than the table has.
ndt_after_short(n) == IF n = 1 THEN LEN - 1 ELSE n - 1

\* Circular mode: the last transfer reloads CNDTR and the memory address.
ndt_after(n) == IF n = 1 THEN LEN ELSE n - 1

\* The chip after reset.
Init ==
  /\ Loaded(WRAP - 1, 0)
  /\ step = 1 /\ on = {}
  /\ dhr = [w \in Waves |-> 0] /\ dor = [w \in Waves |-> 0]
  /\ ndt = [w \in Waves |-> LEN] /\ req = [w \in Waves |-> FALSE]

-----------------------------------------------------------------------------
\* An update event of TIM2 reaches the DAC channels: each outputs its holding
\* register and asks for the next sample.
Trigger ==
  /\ dor' = IF {"dac", "en_dac"} \subseteq on THEN dhr ELSE dor
  /\ req' = IF {"dac", "en_dac", "dmaen"} \subseteq on THEN [w \in Waves |-> TRUE] ELSE req
  /\ UNCHANGED <<dhr, ndt>>

Served(w) == {dma_config[w], dma_enable[w]} \subseteq on

\* A clock of TIM2.  A DMA channel that is enabled has served its request before
\* the next trigger: with 25 clocks or more between triggers it has the time.
Tick ==
  /\ "cen" \in on
  /\ Expires => \A w \in Waves : Served(w) => ~req[w]
  /\ Clock
  /\ IF Expires THEN Trigger ELSE UNCHANGED <<dhr, dor, ndt, req>>
  /\ UNCHANGED <<step, on>>

\* The DMA channel of a waveform moves a sample from the table to the DAC.
Transfer(w) ==
  /\ Served(w) /\ req[w]
  /\ dhr' = [dhr EXCEPT ![w] = LEN - ndt[w] + 1]
  /\ ndt' = [ndt EXCEPT ![w] = ndt_after(@)]
  /\ req' = [req EXCEPT ![w] = FALSE]
  /\ UNCHANGED <<timerVars, step, on, dor>>

-----------------------------------------------------------------------------
\* The next statement of siggen_setup; TIM2's registers are loaded by an update
\* event, which is a trigger too.
SetupStep ==
  /\ step <= Len(siggen_setup)
  /\ on' = on \cup {siggen_setup[step]}
  /\ step' = step + 1
  /\ IF siggen_setup[step] = "tim2"
       THEN /\ arr' = SETUP_ARR /\ psc' = 0
            /\ arrShadow' = SETUP_ARR /\ pscShadow' = 0 /\ cnt' = 0 /\ pcnt' = 0
            /\ Trigger
       ELSE UNCHANGED <<timerVars, dhr, dor, ndt, req>>

siggen_set_freq(freq) ==
  /\ step > Len(siggen_setup)
  /\ write_arr(siggen_arr(freq), arpe)
  /\ UNCHANGED <<step, on, dhr, dor, ndt, req>>

Next ==
  \/ SetupStep \/ Tick
  \/ \E w \in Waves : Transfer(w)
  \/ \E f \in Freqs : siggen_set_freq(f)

\* The set-up code, the timer's clock and the DMA controller do not stop.
Fairness ==
  WF_vars(SetupStep) /\ WF_vars(Tick) /\ \A w \in Waves : WF_vars(Transfer(w))

Spec == Init /\ [][Next]_vars /\ Fairness

-----------------------------------------------------------------------------
\* Every variable keeps its type.
TypeOK ==
  /\ TimerTypeOK
  /\ step \in 1 .. Len(siggen_setup) + 1
  /\ on \subseteq {siggen_setup[i] : i \in 1 .. Len(siggen_setup)}
  /\ dhr \in [Waves -> 0 .. LEN] /\ dor \in [Waves -> 0 .. LEN]
  /\ ndt \in [Waves -> 1 .. LEN] /\ req \in [Waves -> BOOLEAN]

\* siggen.rs:150: two DMA channels with a position each feed the two outputs, yet
\* sine and ramp are always at the same sample of their tables: siggen_setup
\* starts the timer only when both channels are ready.
InPhase == dor["sine"] = dor["ramp"]

\* siggen.rs:86-90: whenever siggen_set_freq writes ARR, TIM2 does not "end up out
\* in the weeds (i.e. TIM2_CNT is bigger than TIM2_ARR, so nothing happens until
\* the timer wraps)".
NotInTheWeeds == CounterBelowArr

\* Through all set-up steps and changes of frequency the outputs are the
\* waveforms of WaveSpec: sample after sample, in phase, for ever.
Wave == INSTANCE WaveSpec WITH out <- dor
ImplementsWaveSpec == Wave!Spec
=============================================================================
