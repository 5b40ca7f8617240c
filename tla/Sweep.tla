------------------------------- MODULE Sweep -------------------------------
(***************************************************************************)
(* A sweep of the oscilloscope: the main loop of main() (src/main.rs), the *)
(* functions of capture.rs that it calls, the DMA1 channel 1 interrupt     *)
(* handler, and the hardware they share (ADC1, DMA1 channel 1, the LEDs).  *)
(*                                                                         *)
(* Four actors interleave: the main loop, one register access at a time;   *)
(* the interrupt handler, which preempts it; the ADC, triggered by TIM15;  *)
(* and the DMA controller, which stores each conversion.  interrupt::free  *)
(* sets PRIMASK: it holds off the handler and never the hardware.          *)
(*                                                                         *)
(* A conversion is modelled by its number within the sweep (1, 2, ...); 0  *)
(* stands for anything older than the present sweep.                       *)
(***************************************************************************)
EXTENDS Integers, Led

CONSTANTS
  N,        \* samples in a sweep, 160 in the code
  MaxLost   \* bound: conversions that a late DMA controller loses per sweep

ASSUME SweepAssumption == N \in Nat \ {0} /\ MaxLost \in Nat

VARIABLES
  pc,         \* next step of the main loop
  state,      \* SweepState of main()
  x_out,      \* columns plotted in this sweep
  trace,      \* column -> conversion whose dot it shows
  new_state,  \* local of led_toggle
  primask,    \* interrupts masked by interrupt::free
  hpc,        \* next step of the DMA1 channel 1 handler
  leds,       \* GPIOE ODR
  adstart,    \* ADC1 armed: every TIM15 trigger starts a conversion
  conv,       \* conversions finished in this sweep, the last one is in ADC1 DR
  req,        \* ADC1 DR holds a conversion the DMA has not read
  ovr,        \* ADC1 ISR.OVR
  dmaEn,      \* DMA1 CCR1.EN
  cndtr,      \* DMA1 CNDTR1, transfers left
  tcif,       \* DMA1 ISR.TCIF1
  buf         \* CAPTURE_CHANNEL_1

mainVars == <<pc, state, x_out, trace, new_state, primask>>
adcVars  == <<adstart, conv, req, ovr>>
dmaVars  == <<dmaEn, cndtr, tcif, buf>>
vars     == <<mainVars, hpc, leds, adcVars, dmaVars>>

Columns == 0 .. N - 1

\* main() before its loop (main.rs:229 and 236), with a channel that is set up but not
\* enabled, an ADC that has not been started, and nothing on the screen.
Init ==
  /\ pc = "match" /\ state = "Before" /\ x_out = 0
  /\ trace = [x \in Columns |-> 0]
  /\ new_state = FALSE /\ primask = FALSE /\ hpc = "idle"
  /\ leds = {"LD4"}
  /\ adstart = FALSE /\ conv = 0 /\ req = FALSE /\ ovr = FALSE
  /\ dmaEn = FALSE /\ cndtr = N /\ tcif = FALSE
  /\ buf = [x \in Columns |-> 0]

-----------------------------------------------------------------------------
(* The processor.  A pending completion interrupt (priority 0) is taken    *)
(* before the next instruction of the main loop, unless it is masked.      *)

InterruptTaken == tcif /\ ~primask

MainAt(label) == pc = label /\ hpc = "idle" /\ ~InterruptTaken

-----------------------------------------------------------------------------
(* SweepState::Before: begin_sweep, led_on(LD3).                           *)

\* begin_sweep: enter the critical section and enable the DMA channel.
BeginEnableDma ==
  /\ MainAt("match") /\ state = "Before"
  /\ primask' = TRUE
  /\ dmaEn' = TRUE
  /\ pc' = "adstart"
  /\ UNCHANGED <<state, x_out, trace, new_state, hpc, leds, adcVars, cndtr, tcif, buf>>

\* begin_sweep: start conversions, leave the critical section.  From here on
\* everything in the buffer and on the screen is older than the sweep.
BeginStartAdc ==
  /\ MainAt("adstart")
  /\ adstart' = TRUE /\ conv' = 0
  /\ buf' = [x \in Columns |-> 0] /\ trace' = [x \in Columns |-> 0]
  /\ primask' = FALSE
  /\ pc' = "led_on"
  /\ UNCHANGED <<state, x_out, new_state, hpc, leds, req, ovr, dmaEn, cndtr, tcif>>

BeginLedOn ==
  /\ MainAt("led_on")
  /\ leds' = led_on(leds, "LD3")
  /\ state' = "During" /\ x_out' = 0
  /\ pc' = "button1"
  /\ UNCHANGED <<trace, new_state, primask, hpc, adcVars, dmaVars>>

-----------------------------------------------------------------------------
(* SweepState::During: plot a sample if the DMA has stored one.            *)

\* Mutated form: the sample being transferred counted as transferred.
get_transferred_sample_count_early == N - cndtr + 1

get_transferred_sample_count == N - cndtr

PollSampleCount ==
  /\ MainAt("match") /\ state = "During"
  /\ pc' = IF get_transferred_sample_count > x_out THEN "plot" ELSE "button1"
  /\ UNCHANGED <<state, x_out, trace, new_state, primask, hpc, leds, adcVars, dmaVars>>

\* Mutated forms: the sweep ended one column early, or one column too late.
sweep_done_early == x_out + 2 >= N
sweep_done_late == x_out + 1 > N

\* "end of sweep?", on the x_out already incremented.
sweep_done == x_out + 1 >= N

\* Erase the old dot of column x_out, draw the new one, end of sweep?
Plot ==
  /\ MainAt("plot")
  /\ trace' = [trace EXCEPT ![x_out] = buf[x_out]]
  /\ x_out' = x_out + 1
  /\ state' = IF sweep_done THEN "After" ELSE state
  /\ pc' = "button1"
  /\ UNCHANGED <<new_state, primask, hpc, leds, adcVars, dmaVars>>

-----------------------------------------------------------------------------
(* SweepState::After: finish_sweep, check_adc_ovr_flag, led_toggle(LD5).   *)

FinishDisableDma ==
  /\ MainAt("match") /\ state = "After"
  /\ dmaEn' = FALSE
  /\ pc' = "ndt"
  /\ UNCHANGED <<state, x_out, trace, new_state, primask, hpc, leds, adcVars, cndtr, tcif, buf>>

\* Mutated form: the transfer length not re-set.
write_ndt_forgotten == cndtr

\* The channel ignores a write of CNDTR while it is enabled.
write_ndt == IF dmaEn THEN cndtr ELSE N

FinishResetCount ==
  /\ MainAt("ndt")
  /\ cndtr' = write_ndt
  /\ pc' = "ovr"
  /\ UNCHANGED <<state, x_out, trace, new_state, primask, hpc, leds, adcVars, dmaEn, tcif, buf>>

\* Mutated form: the flag is read and never cleared.
CheckOvrOnly ==
  /\ MainAt("ovr")
  /\ pc' = "toggle"
  /\ UNCHANGED <<state, x_out, trace, new_state, primask, hpc, leds, adcVars, dmaVars>>

CheckOvr ==
  /\ MainAt("ovr")
  /\ pc' = IF ovr THEN "ovr_clear" ELSE "toggle"
  /\ UNCHANGED <<state, x_out, trace, new_state, primask, hpc, leds, adcVars, dmaVars>>

ClearOvr ==
  /\ MainAt("ovr_clear")
  /\ ovr' = FALSE
  /\ pc' = "toggle"
  /\ UNCHANGED <<state, x_out, trace, new_state, primask, hpc, leds, adstart, conv, req, dmaVars>>

ToggleRead ==
  /\ MainAt("toggle")
  /\ new_state' = led_toggle_read(leds, "LD5")
  /\ pc' = "toggle_write"
  /\ UNCHANGED <<state, x_out, trace, primask, hpc, leds, adcVars, dmaVars>>

ToggleWrite ==
  /\ MainAt("toggle_write")
  /\ leds' = led_toggle_write(leds, "LD5", new_state)
  /\ state' = "Before"
  /\ pc' = "button1"
  /\ UNCHANGED <<x_out, trace, new_state, primask, hpc, adcVars, dmaVars>>

-----------------------------------------------------------------------------
(* The end of every iteration: the two pushbuttons.  Whether one of them   *)
(* was pressed is left open here (Buttons.tla decides it); what a sweep    *)
(* sees of the change is a critical section in the middle of it.           *)

\* A call that runs `body' inside interrupt::free, if the button was pressed.
Button(label, body, next) ==
  /\ MainAt(label)
  /\ \/ pc' = body /\ primask' = TRUE
     \/ pc' = next /\ UNCHANGED primask
  /\ UNCHANGED <<state, x_out, trace, new_state, hpc, leds, adcVars, dmaVars>>

\* Mutated form: the critical section is not left.
LeaveCriticalForgotten(label, next) ==
  /\ MainAt(label)
  /\ pc' = next
  /\ UNCHANGED <<state, x_out, trace, new_state, primask, hpc, leds, adcVars, dmaVars>>

LeaveCritical(label, next) ==
  /\ MainAt(label)
  /\ primask' = FALSE
  /\ pc' = next
  /\ UNCHANGED <<state, x_out, trace, new_state, hpc, leds, adcVars, dmaVars>>

Button1       == Button("button1", "set_timebase", "button4")
SetTimebase   == LeaveCritical("set_timebase", "button4")
Button4       == Button("button4", "set_freq", "match")
SetSiggenFreq == LeaveCritical("set_freq", "match")

-----------------------------------------------------------------------------
(* dma1ch1_interrupt_handler: led_off(LD3), then clear TCIF.               *)

HandlerLedOff ==
  /\ hpc = "idle" /\ InterruptTaken
  /\ leds' = led_off(leds, "LD3")
  /\ hpc' = "ifcr"
  /\ UNCHANGED <<mainVars, adcVars, dmaVars>>

HandlerClearFlag ==
  /\ hpc = "ifcr"
  /\ tcif' = FALSE
  /\ hpc' = "idle"
  /\ UNCHANGED <<mainVars, leds, adcVars, dmaEn, cndtr, buf>>

-----------------------------------------------------------------------------
(* The hardware, as capture::setup() configures it.                        *)

\* Conversions of this sweep that the DMA never read.
Lost == conv - (N - cndtr) - (IF req THEN 1 ELSE 0)

\* TIM15 triggers a conversion and it finishes.  If the DMA has not read the
\* previous one, that one is lost (OVRMOD = 1) and OVR is set.
Convert ==
  /\ adstart
  /\ req => Lost < MaxLost
  /\ conv' = conv + 1
  /\ req' = TRUE
  /\ ovr' = (ovr \/ req)
  /\ UNCHANGED <<mainVars, hpc, leds, adstart, dmaVars>>

\* Timing: main() gets from ADSTART to led_on(LD3), a few instructions, before
\* the sweep's last transfer, 160 conversion times (89 us or more) later.
LedOnIsPrompt == pc = "led_on" => cndtr > 1

\* Mutated form: the ADC left in DMA circular mode.
adstart_after_transfer_circular == adstart

\* DMA one-shot mode: the last transfer of the channel disarms the ADC.
adstart_after_transfer == adstart /\ cndtr > 1

\* The DMA controller stores the conversion; TCIF with the last one.  Whether the
\* ADC still sends requests while OVR is set is the hardware's affair, which the
\* repository does not settle: the transfer may happen then, or never (Fairness).
DmaTransfer ==
  /\ dmaEn /\ req /\ cndtr > 0
  /\ LedOnIsPrompt
  /\ buf' = [buf EXCEPT ![N - cndtr] = conv]
  /\ cndtr' = cndtr - 1
  /\ tcif' = (tcif \/ cndtr = 1)
  /\ req' = FALSE
  /\ adstart' = adstart_after_transfer
  /\ UNCHANGED <<mainVars, hpc, leds, conv, ovr, dmaEn>>

-----------------------------------------------------------------------------
MainLoop ==
  \/ BeginEnableDma \/ BeginStartAdc \/ BeginLedOn
  \/ PollSampleCount \/ Plot
  \/ FinishDisableDma \/ FinishResetCount
  \/ CheckOvr \/ ClearOvr \/ ToggleRead \/ ToggleWrite
  \/ Button1 \/ SetTimebase \/ Button4 \/ SetSiggenFreq

dma1ch1_interrupt_handler == HandlerLedOff \/ HandlerClearFlag

Next == MainLoop \/ dma1ch1_interrupt_handler \/ Convert \/ DmaTransfer

Spec == Init /\ [][Next]_vars

\* The processor never stops executing; TIM15 runs since capture::setup() and
\* keeps triggering; the DMA controller answers every request the ADC makes, and
\* the ADC is relied on to make one only while OVR is clear: once it is set, main()
\* clears it only after the sweep, and the transfers may stop until then.
Fairness ==
  /\ WF_vars(MainLoop) /\ WF_vars(dma1ch1_interrupt_handler)
  /\ WF_vars(Convert) /\ WF_vars(~ovr /\ DmaTransfer)

FairSpec == Spec /\ Fairness

-----------------------------------------------------------------------------
Labels == {"match", "adstart", "led_on", "plot", "ndt", "ovr", "ovr_clear", "toggle",
           "toggle_write", "button1", "set_timebase", "button4", "set_freq"}

\* Every variable keeps its type; in particular CNDTR stays within the buffer
\* and the ADC never converts more than one sweep's samples plus the lost ones.
TypeOK ==
  /\ pc \in Labels /\ state \in {"Before", "During", "After"}
  /\ x_out \in 0 .. N /\ trace \in [Columns -> 0 .. N + MaxLost]
  /\ new_state \in BOOLEAN /\ primask \in BOOLEAN
  /\ hpc \in {"idle", "ifcr"} /\ leds \in SUBSET LEDs
  /\ adstart \in BOOLEAN /\ conv \in 0 .. N + MaxLost
  /\ req \in BOOLEAN /\ ovr \in BOOLEAN
  /\ dmaEn \in BOOLEAN /\ cndtr \in 0 .. N /\ tcif \in BOOLEAN
  /\ buf \in [Columns -> 0 .. N + MaxLost]

\* A sweep is under way and main() has entered SweepState::During with it.
Plotting == state \in {"During", "After"}

\* What the loop of lines 248-288 draws is this sweep's data: every column
\* plotted so far shows a conversion made since begin_sweep, columns show
\* conversions in the order they were made, and a conversion is missing from
\* the trace only if an overrun lost it.
FreshTrace ==
  Plotting => \A x \in 0 .. x_out - 1 :
                /\ trace[x] \in x + 1 .. x + 1 + MaxLost
                /\ x > 0 => trace[x - 1] < trace[x]

\* check_adc_ovr_flag reports on the sweep that just ended: when main() reads
\* OVR, it is set exactly if a conversion of this very sweep was lost.
OvrIsAboutThisSweep == pc = "ovr" => (ovr <=> conv > N)

\* docs/peripherals.rst: LD3 is "on during each capture sweep".  It is lit from
\* led_on(LD3) until the transfer-complete handler, and it never stays lit once
\* the capture is complete and that handler has run.
Ld3ShowsCapture ==
  /\ adstart /\ pc # "led_on" => "LD3" \in leds
  /\ "LD3" \in leds => adstart \/ tcif

\* The DMA channel is switched on or off only when the capture hardware is at
\* rest: no conversion can arrive, none waits to be stored, and the completion
\* interrupt of the previous sweep has been taken and acknowledged.
ChannelSwitchedAtRest ==
  [][dmaEn' # dmaEn => ~adstart /\ ~req /\ ~tcif /\ hpc = "idle"]_vars

\* main() polls for the next sample of a sweep in which OVR is set.
HeldByOverrun == state = "During" /\ ovr /\ x_out = N - cndtr

\* Sweeps end again and again, and LD5, "toggled after each display sweep"
\* (docs/peripherals.rst), keeps blinking, with one exception that the code has no
\* way out of: an overrun during a sweep, after which main() may wait forever for
\* the rest of its samples.  Nothing else, no order of polls, presses, transfers and
\* interrupts, ever leaves main() waiting.
SweepsRecur ==
  \/ []<>("LD5" \in leds) /\ []<>("LD5" \notin leds)
  \/ <>[]HeldByOverrun

-----------------------------------------------------------------------------
(* The inductive invariant behind the safety properties.                   *)

SweepActive == dmaEn /\ pc # "adstart"

\* Interrupts are masked exactly inside the three critical sections, and the
\* handler runs only for a completed capture, with main() suspended.
Masking ==
  /\ primask <=> pc \in {"adstart", "set_timebase", "set_freq"}
  /\ tcif => state = "During" /\ cndtr = 0
  /\ hpc = "ifcr" => tcif /\ ~primask /\ "LD3" \notin leds

Finishing == {"ndt", "ovr", "ovr_clear", "toggle", "toggle_write"}

\* Where main() can be in each SweepState, what it has plotted, and whether the
\* DMA channel is enabled there.
Progress ==
  /\ pc \in {"adstart", "led_on"} => state = "Before"
  /\ pc \in Finishing => state = "After"
  /\ pc = "plot" => state = "During" /\ x_out < N - cndtr
  /\ state = "During" => x_out < N /\ x_out <= N - cndtr
  /\ state = "After" => x_out = N /\ (dmaEn => cndtr = 0)
  /\ dmaEn <=> \/ state = "Before" /\ pc \in {"adstart", "led_on"}
               \/ state = "During"
               \/ state = "After" /\ pc \notin Finishing

\* The ADC is armed exactly while a sweep has transfers left; between sweeps
\* the channel is ready for all N.
Hardware ==
  /\ adstart <=> SweepActive /\ cndtr > 0
  /\ req => adstart
  /\ pc = "led_on" => cndtr > 0
  /\ state = "Before" /\ pc # "led_on" => cndtr = N
  /\ pc \in Finishing \ {"ndt"} => cndtr = N

\* OVR counts for the sweep in progress, and is clear when the next one starts.
Overruns ==
  /\ SweepActive => Lost \in 0 .. MaxLost /\ (ovr <=> Lost > 0)
  /\ pc \in {"ndt", "ovr"} => (ovr <=> conv > N)
  /\ pc \in {"toggle", "toggle_write"} \/ (state = "Before" /\ pc # "led_on") => ~ovr

\* What the DMA has stored, and that the screen shows what was stored.
Stored ==
  /\ SweepActive => \A i \in 0 .. N - cndtr - 1 :
                      /\ buf[i] \in i + 1 .. i + 1 + MaxLost
                      /\ i > 0 => buf[i - 1] < buf[i]
                      /\ req => buf[i] < conv
                      /\ buf[i] <= conv
  /\ Plotting => \A x \in 0 .. x_out - 1 : trace[x] = buf[x]

\* Inductive, and strong enough for TypeOK, FreshTrace, OvrIsAboutThisSweep,
\* Ld3ShowsCapture and ChannelSwitchedAtRest: the position of main() determines
\* which of DMA, ADC, flags and buffer main() owns at each register access.
IInv ==
  /\ TypeOK /\ Masking /\ Progress /\ Hardware /\ Overruns /\ Stored
  /\ FreshTrace /\ Ld3ShowsCapture

-----------------------------------------------------------------------------
(* Refinement.  A sweep is in progress from ADSTART until finish_sweep     *)
(* disables the channel.                                                   *)

\* The samples of the sweep that the DMA has stored, and those on the screen.
CapturedCount  == IF SweepActive THEN N - cndtr ELSE 0
DisplayedCount == IF SweepActive /\ Plotting THEN x_out ELSE 0

First(n, f) == [i \in 1 .. n |-> f[i - 1]]
Captured    == First(CapturedCount, buf)
Displayed   == First(DisplayedCount, trace)

Abstract == INSTANCE SweepSpec WITH
  Conversions <- 1 .. N + MaxLost, active <- SweepActive,
  overrun <- SweepActive /\ ovr, captured <- Captured, displayed <- Displayed

\* The registers, the interrupt and the shared buffer implement the promise of
\* SweepSpec: N samples in order, displayed in order, and then the next sweep,
\* unless an overrun holds up the present one.
ImplementsSweepSpec == Abstract!FairSpec
=============================================================================
