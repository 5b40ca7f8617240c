------------------------------ MODULE Startup ------------------------------
(***************************************************************************)
(* main() from its first statement to its loop: the set-up functions in    *)
(* their order, the delays between them, and the two waits on the ADC.     *)
(* Blocks under interrupt::free that wait for nothing are one step.  The   *)
(* clock set-up is composed from SysClock.tla; the signal generator's is   *)
(* one step here and Siggen.tla in detail.                                 *)
(***************************************************************************)
EXTENDS LcdInit, Led, SysClock

CONSTANT Options    \* arguments of initR; main() passes "red"

VARIABLES
  ledPins,    \* LEDs whose pin is an output
  leds,       \* GPIOE ODR
  siggen,     \* signal generator running
  adc         \* ADC1 and TIM15

startupVars == <<ledPins, leds, siggen, adc>>
vars        == <<delayVars, lcdVars, startupVars, clockVars>>

\* Reset; no button is pressed yet.
Init ==
  /\ DelayInit /\ ClockInit /\ pc = "set_sys_clock"
  /\ options \in Options /\ list = "" /\ addr = 1 /\ numCommands = 0 /\ numArgs = 0 /\ ms = 0
  /\ lcd = [LcdReset EXCEPT !.cs = 1] /\ waited = 0
  /\ ledPins = {} /\ leds = {} /\ siggen = FALSE
  /\ adc = [clock |-> FALSE, regulator |-> FALSE, age |-> 0, cal |-> FALSE,
            calibrated |-> FALSE, en |-> FALSE, rdy |-> FALSE, tim15 |-> FALSE]

-----------------------------------------------------------------------------
\* main() goes on when set_sys_clock() has returned.
SetSysClock ==
  /\ At("set_sys_clock") /\ clkpc = "done" /\ pc' = "systick"
  /\ UNCHANGED <<cpuVars, timeVars, lcdVars, startupVars>>

led_init(pins, led) == pins \cup {led}

\* The LEDs, SysTick and the pushbuttons' pins.
StartSysTick ==
  /\ At("systick") /\ pc' = "lcd"
  /\ ledPins' = led_init(led_init(led_init(ledPins, "LD3"), "LD4"), "LD5")
  /\ ticking' = TRUE
  /\ UNCHANGED <<primask, phase, pending, timeVars, lcdVars, leds, siggen, adc>>

\* st7735_setup: the pins become outputs, all low.
LcdSetup ==
  /\ At("lcd")
  /\ Sends(LcdReset)
  /\ delay_ms(50, "initR")
  /\ UNCHANGED <<options, listVars, startupVars>>

SiggenSetup ==
  /\ At("siggen") /\ pc' = "capture"
  /\ siggen' = TRUE
  /\ UNCHANGED <<cpuVars, timeVars, lcdVars, ledPins, leds, adc>>

-----------------------------------------------------------------------------
(* capture::setup.                                                         *)

\* Mutated form: a delay that may return at once.
regulator_delay_1 == 1

regulator_delay == 2

\* Mutated form: the critical section is not left.
AdcRegulatorMasked ==
  /\ At("capture")
  /\ adc' = [adc EXCEPT !.clock = TRUE, !.regulator = TRUE]
  /\ TIMING_DELAY' = regulator_delay /\ asked' = regulator_delay /\ elapsed' = 0
  /\ pc' = "delay" /\ return_to' = "adcal"
  /\ primask' = TRUE
  /\ UNCHANGED <<ticking, phase, pending, buttonVars, lcdVars, ledPins, leds, siggen>>

\* ADC clock and voltage regulator on; leave the critical section and wait.
AdcRegulator ==
  /\ At("capture")
  /\ adc' = [adc EXCEPT !.clock = TRUE, !.regulator = TRUE]
  /\ delay_ms(regulator_delay, "adcal")
  /\ UNCHANGED <<lcdVars, ledPins, leds, siggen>>

\* Enter the second critical section and start the calibration.
StartCalibration ==
  /\ At("adcal") /\ pc' = "adcal_wait"
  /\ primask' = TRUE
  /\ adc' = [adc EXCEPT !.cal = TRUE]
  /\ UNCHANGED <<ticking, phase, pending, timeVars, lcdVars, ledPins, leds, siggen>>

\* Mutated form: does not wait for the calibration.
calibration_over_assumed == TRUE

calibration_over == ~adc.cal

\* Calibrated: configure ADC1, TIM15 and DMA1, enable ADC1.
EnableAdc ==
  /\ At("adcal_wait") /\ calibration_over /\ pc' = "adrdy_wait"
  /\ adc' = [adc EXCEPT !.en = TRUE]
  /\ UNCHANGED <<cpuVars, timeVars, lcdVars, ledPins, leds, siggen>>

\* Ready: start TIM15 and leave the critical section.
StartTim15 ==
  /\ At("adrdy_wait") /\ adc.rdy /\ pc' = "led"
  /\ adc' = [adc EXCEPT !.tim15 = TRUE]
  /\ primask' = FALSE
  /\ UNCHANGED <<ticking, phase, pending, timeVars, lcdVars, ledPins, leds, siggen>>

\* led_on(LD4), graticule, first settings (Settings.tla); then the loop.
EnterLoop ==
  /\ At("led") /\ pc' = "loop"
  /\ leds' = led_on(leds, "LD4")
  /\ UNCHANGED <<cpuVars, timeVars, lcdVars, ledPins, siggen, adc>>

Main ==
  /\ \/ SetSysClock \/ StartSysTick \/ LcdSetup \/ (st7735_init /\ UNCHANGED startupVars)
     \/ SiggenSetup \/ AdcRegulator \/ StartCalibration \/ EnableAdc \/ StartTim15 \/ EnterLoop
     \/ (DelayReturns /\ UNCHANGED <<lcdVars, startupVars>>)
  /\ UNCHANGED clockVars

\* set_sys_clock() and RCC.
BootClock == ClockNext /\ UNCHANGED <<delayVars, lcdVars, startupVars>>

-----------------------------------------------------------------------------
(* The ADC.                                                                *)

\* Calibration ends, given a clock ("calibration will hang if this isn't done").
CalibrationEnds ==
  /\ adc.cal /\ adc.clock /\ adc.regulator
  /\ adc' = [adc EXCEPT !.cal = FALSE, !.calibrated = TRUE]
  /\ UNCHANGED <<delayVars, lcdVars, clockVars, ledPins, leds, siggen>>

AdcReady ==
  /\ adc.en /\ ~adc.rdy /\ ~adc.cal
  /\ adc' = [adc EXCEPT !.rdy = TRUE]
  /\ UNCHANGED <<delayVars, lcdVars, clockVars, ledPins, leds, siggen>>

\* A SysTick clock also ages the voltage regulator, up to a period, and the LCD
\* controller has had a clock more of a delay.
Clock ==
  /\ SysTickClock
  /\ waited' = IF Counting THEN waited + 1 ELSE waited
  /\ adc' = IF adc.regulator /\ adc.age <= PERIOD THEN [adc EXCEPT !.age = @ + 1] ELSE adc
  /\ UNCHANGED <<options, listVars, lcd, clockVars, ledPins, leds, siggen>>

Exception(down) == SysTickException(down) /\ UNCHANGED <<lcdVars, startupVars, clockVars>>

Next ==
  \/ BootClock \/ Main \/ Clock \/ CalibrationEnds \/ AdcReady
  \/ \E down \in SUBSET BUTTONS : Exception(down)

\* The SysTick counter and the ADC do not stop, and neither does the processor:
\* the handler is shorter than a period, so main() gets on between exceptions.
Fairness ==
  /\ SF_vars(Main) /\ WF_vars(Clock) /\ WF_vars(CalibrationEnds) /\ WF_vars(AdcReady)
  /\ WF_vars(\E down \in SUBSET BUTTONS : Exception(down))

Spec == Init /\ [][Next]_vars /\ ClockFairness /\ Fairness

-----------------------------------------------------------------------------
\* capture.rs:78-80: when the calibration starts, the regulator has been on for
\* "at least 1ms", that is a whole SysTick period.
RegulatorSettled == adc.cal \/ adc.calibrated => adc.age >= PERIOD

\* The ADC is enabled once it is calibrated, and TIM15 started once it is ready.
AdcInOrder == (adc.en => adc.calibrated) /\ (adc.tim15 => adc.rdy)

\* What the loop relies on when it is entered: the initial states of Sweep.tla and
\* Buttons.tla, and a display that is on.
ReadyForLoop ==
  pc = "loop" =>
    /\ ~primask /\ ticking /\ TIMING_DELAY = 0
    /\ \A i \in BUTTONS : BUTTON_CHANGED[i] \/ (~BUTTON_STATE[i] /\ BUTTON_DEBOUNCE[i] = 0)
    /\ leds = {"LD4"} /\ ledPins = LEDs
    /\ siggen /\ adc.tim15
    /\ lcd = [cs |-> 0, rst |-> 1, cmd |-> "MADCTL", awake |-> TRUE, on |-> TRUE,
              colmod |-> "16-bit", madctl |-> "MX|MV"]

\* main.rs:388: once the external clock is there, no delay_ms, no wait on the ADC
\* and none on a clock is met where it cannot end, and main() gets to its loop.
Boots == [](clkpc = "flash" => <>(pc = "loop"))
=============================================================================
