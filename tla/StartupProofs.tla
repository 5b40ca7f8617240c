--------------------------- MODULE StartupProofs ---------------------------
(***************************************************************************)
(* Proofs about the start-up, for every length of a SysTick period and     *)
(* whatever the buttons do: its delays, the system clock, the order of the *)
(* ADC's set-up, and the tables of the display.                            *)
(***************************************************************************)
EXTENDS Startup, TLAPS

Adc == [clock : BOOLEAN, regulator : BOOLEAN, age : Nat, cal : BOOLEAN,
        calibrated : BOOLEAN, en : BOOLEAN, rdy : BOOLEAN, tim15 : BOOLEAN]

Masked == {"adcal_wait", "adrdy_wait"}

Types ==
  /\ TIMING_DELAY \in Nat /\ asked \in Nat /\ elapsed \in Nat
  /\ phase \in 0 .. PERIOD - 1 /\ pending \in BOOLEAN /\ primask \in BOOLEAN
  /\ adc \in Adc

\* Interrupts are masked in the second half of capture::setup only, and no delay
\* returns there.
MaskedWhere ==
  /\ primask <=> pc \in Masked
  /\ return_to \notin Masked \cup {"delay"}

\* In a delay every tick but the first stands for a whole period: the time since
\* the latest tick is `phase', unless the next one is pending.
Counted ==
  pc = "delay" =>
    /\ TIMING_DELAY <= asked
    /\ pending => phase = 0
    /\ pending /\ TIMING_DELAY # 0 => elapsed >= (asked - TIMING_DELAY) * PERIOD + 1
    /\ TIMING_DELAY < asked =>
         elapsed >= (asked - TIMING_DELAY - 1) * PERIOD + 1
                      + (IF TIMING_DELAY # 0 /\ ~pending THEN phase ELSE 0)

\* The regulator has been on since the delay before the calibration began.
RegulatorAge ==
  /\ pc = "delay" /\ return_to = "adcal" =>
       adc.regulator /\ asked = 2 /\ (adc.age >= elapsed \/ adc.age > PERIOD)
  /\ pc \in {"adcal", "adcal_wait"} => adc.age >= PERIOD
  /\ adc.cal \/ adc.calibrated => adc.age >= PERIOD

DInv == Types /\ MaskedWhere /\ Counted /\ RegulatorAge

-----------------------------------------------------------------------------
\* A statement that waits for nothing and leaves the ADC alone.
PlainStep ==
  /\ pc \notin Masked \cup {"delay", "adcal"} /\ pc' \notin Masked \cup {"delay", "adcal"}
  /\ UNCHANGED <<TIMING_DELAY, return_to, asked, elapsed, primask, phase, pending, adc>>

\* A statement that calls delay_ms and leaves the ADC alone.
DelayCall ==
  /\ pc \notin Masked \cup {"delay", "adcal"} /\ ~ExceptionTaken
  /\ TIMING_DELAY' \in Nat /\ asked' = TIMING_DELAY' /\ elapsed' = 0
  /\ pc' = "delay" /\ return_to' \notin Masked \cup {"delay", "adcal"}
  /\ UNCHANGED <<primask, phase, pending, adc>>

LEMMA LcdStepKinds ==
  ASSUME st7735_init, UNCHANGED startupVars
  PROVE  PlainStep \/ DelayCall
<1> USE DEF Masked, At, startupVars
<1>1. CASE InitR
  BY <1>1 DEF InitR, DelayCall, delay_ms, cpuVars
<1>2. CASE SelectChip
  BY <1>2 DEF SelectChip, PlainStep, cpuVars, timeVars
<1>3. CASE RstHigh
  BY <1>3 DEF RstHigh, DelayCall, delay_ms, cpuVars
<1>4. CASE RstLow
  BY <1>4 DEF RstLow, DelayCall, delay_ms, cpuVars
<1>5. CASE RstHighAgain
  BY <1>5 DEF RstHighAgain, DelayCall, delay_ms, cpuVars
<1>6. CASE ListBegins
  BY <1>6 DEF ListBegins, PlainStep, cpuVars, timeVars
<1>7. CASE SendCommand
  BY <1>7 DEF SendCommand, PlainStep, cpuVars, timeVars
<1>8. CASE SendArgument
  BY <1>8 DEF SendArgument, PlainStep, cpuVars, timeVars
<1>9. CASE CommandDelay
  BY <1>9 DEF CommandDelay, DelayCall, delay_ms, cpuVars
<1>10. CASE CommandDone
  BY <1>10 DEF CommandDone, PlainStep, cpuVars, timeVars
<1>11. CASE ListEnds
  BY <1>11 DEF ListEnds, PlainStep, cpuVars, timeVars
<1>12. CASE BlackTab
  BY <1>12 DEF BlackTab, PlainStep, cpuVars, timeVars
<1>13. CASE SetRotation
  BY <1>13 DEF SetRotation, PlainStep, cpuVars, timeVars
<1> QED
  BY <1>1, <1>2, <1>3, <1>4, <1>5, <1>6, <1>7, <1>8, <1>9, <1>10, <1>11, <1>12, <1>13
     DEF st7735_init

LEMMA PlainKeepsDInv ==
  ASSUME DInv, PlainStep
  PROVE  DInv'
  BY DEF DInv, PlainStep, Types, MaskedWhere, Counted, RegulatorAge, Masked

LEMMA CallKeepsDInv ==
  ASSUME DInv, DelayCall
  PROVE  DInv'
<1>1. ~primask /\ ~pending
  BY DEF DInv, MaskedWhere, Types, DelayCall, ExceptionTaken
<1>2. Types' /\ MaskedWhere'
  BY <1>1 DEF DInv, Types, MaskedWhere, Masked, DelayCall
<1>3. Counted'
  BY <1>1 DEF Counted, DelayCall
<1>4. RegulatorAge'
  BY DEF DInv, RegulatorAge, DelayCall
<1> QED
  BY <1>2, <1>3, <1>4 DEF DInv

-----------------------------------------------------------------------------
LEMMA ClockKeepsDInv ==
  ASSUME DInv, Clock
  PROVE  DInv'
<1> USE DelayAssumption
<1>1. Types /\ MaskedWhere /\ Counted /\ RegulatorAge
  BY DEF DInv
<1>2. /\ ~(pending /\ ~primask) /\ phase' = (phase + 1) % PERIOD
      /\ UNCHANGED <<pc, primask, TIMING_DELAY, return_to, asked>>
      /\ elapsed' = IF pc = "delay" /\ TIMING_DELAY # 0 /\ ~pending THEN elapsed + 1 ELSE elapsed
  BY DEF Clock, SysTickClock, ExceptionTaken, Counting
<1>3. pending' \in BOOLEAN /\ (pending' <=> pending \/ phase + 1 = PERIOD)
  BY <1>1, Zenon DEF Clock, SysTickClock, Types
<1>4. phase' = (IF phase + 1 = PERIOD THEN 0 ELSE phase + 1) /\ phase' \in 0 .. PERIOD - 1
  BY <1>1, <1>2 DEF Types
<1>5. /\ adc' \in Adc /\ adc'.regulator = adc.regulator
      /\ adc'.cal = adc.cal /\ adc'.calibrated = adc.calibrated
      /\ adc'.age = IF adc.regulator /\ adc.age <= PERIOD THEN adc.age + 1 ELSE adc.age
  BY <1>1 DEF Clock, Types, Adc
<1>6. Types' /\ MaskedWhere'
  BY <1>1, <1>2, <1>3, <1>4, <1>5 DEF Types, MaskedWhere
<1>7. RegulatorAge'
  BY <1>1, <1>2, <1>5 DEF RegulatorAge, Types, Adc
<1>8. Counted'
  <2> SUFFICES ASSUME pc = "delay"
               PROVE  /\ TIMING_DELAY <= asked
                      /\ pending' => phase' = 0
                      /\ pending' /\ TIMING_DELAY # 0 =>
                           elapsed' >= (asked - TIMING_DELAY) * PERIOD + 1
                      /\ TIMING_DELAY < asked =>
                           elapsed' >= (asked - TIMING_DELAY - 1) * PERIOD + 1
                                         + (IF TIMING_DELAY # 0 /\ ~pending' THEN phase' ELSE 0)
    BY <1>2 DEF Counted
  <2>1. ~pending
    BY <1>1, <1>2 DEF MaskedWhere, Masked
  <2> DEFINE h == asked - TIMING_DELAY
             m == (h - 1) * PERIOD
  <2>2. TIMING_DELAY <= asked /\ h \in Nat /\ m \in Int
    BY <1>1 DEF Counted, Types
  <2>3. h * PERIOD = m + PERIOD
    BY <2>2
  <2>4. h > 0 => elapsed >= m + 1 + (IF TIMING_DELAY # 0 THEN phase ELSE 0)
    BY <1>1, <2>1 DEF Counted, Types
  <2>5. h = 0 => m + PERIOD = 0
    BY <2>2
  <2>6. TIMING_DELAY < asked <=> h > 0
    BY <1>1 DEF Types
  <2> HIDE DEF h, m
  <2>7. pending' => phase' = 0
    BY <1>1, <1>3, <1>4, <2>1 DEF Types
  <2>8. pending' /\ TIMING_DELAY # 0 => elapsed' >= m + PERIOD + 1
    BY <1>1, <1>2, <1>3, <2>1, <2>2, <2>4, <2>5 DEF Types
  <2>9. h > 0 => elapsed' >= m + 1 + (IF TIMING_DELAY # 0 /\ ~pending' THEN phase' ELSE 0)
    BY <1>1, <1>2, <1>3, <1>4, <2>1, <2>2, <2>4 DEF Types
  <2> QED
    BY <2>2, <2>3, <2>6, <2>7, <2>8, <2>9 DEF h, m
<1> QED
  BY <1>6, <1>7, <1>8 DEF DInv

LEMMA ExceptionKeepsDInv ==
  ASSUME DInv, NEW down \in SUBSET BUTTONS, Exception(down)
  PROVE  DInv'
<1> USE DelayAssumption
<1>1. Types /\ MaskedWhere /\ Counted /\ RegulatorAge
  BY DEF DInv
<1>2. /\ pending /\ pending' = FALSE
      /\ TIMING_DELAY' = IF TIMING_DELAY # 0 THEN TIMING_DELAY - 1 ELSE 0
      /\ UNCHANGED <<pc, primask, phase, return_to, asked, elapsed, adc>>
  BY DEF Exception, SysTickException, ExceptionTaken, systick_handler, delay_tick, startupVars
<1>3. Types' /\ MaskedWhere' /\ RegulatorAge'
  <2>1. Types'
    <3>1. TIMING_DELAY' \in Nat
      BY <1>1, <1>2, SMT DEF Types
    <3>2. phase' \in 0 .. PERIOD - 1 /\ pending' \in BOOLEAN /\ primask' \in BOOLEAN
      BY <1>1, <1>2, Zenon DEF Types
    <3>3. asked' \in Nat /\ elapsed' \in Nat /\ adc' \in Adc
      BY <1>1, <1>2, Zenon DEF Types
    <3> QED
      BY <3>1, <3>2, <3>3, Zenon DEF Types
  <2>2. MaskedWhere'
    BY <1>1, <1>2 DEF MaskedWhere
  <2>3. RegulatorAge'
    BY <1>1, <1>2 DEF RegulatorAge
  <2> QED
    BY <2>1, <2>2, <2>3
<1>4. Counted'
  <2> SUFFICES ASSUME pc = "delay"
               PROVE  /\ TIMING_DELAY' <= asked
                      /\ TIMING_DELAY' < asked =>
                           elapsed >= (asked - TIMING_DELAY' - 1) * PERIOD + 1
                                        + (IF TIMING_DELAY' # 0 THEN phase ELSE 0)
    BY <1>2 DEF Counted
  <2>1. phase = 0 /\ TIMING_DELAY <= asked
    BY <1>1, <1>2 DEF Counted
  <2>2. CASE TIMING_DELAY = 0
    BY <1>1, <1>2, <2>1, <2>2 DEF Counted, Types
  <2>3. CASE TIMING_DELAY # 0
    <3>1. TIMING_DELAY' = TIMING_DELAY - 1 /\ asked - TIMING_DELAY' - 1 = asked - TIMING_DELAY
      BY <1>1, <1>2, <2>3 DEF Types
    <3>2. elapsed >= (asked - TIMING_DELAY) * PERIOD + 1
      BY <1>1, <1>2, <2>3 DEF Counted
    <3> QED
      BY <1>1, <2>1, <3>1, <3>2 DEF Types
  <2> QED
    BY <2>2, <2>3
<1> QED
  BY <1>3, <1>4 DEF DInv

LEMMA ReturnKeepsDInv ==
  ASSUME DInv, DelayReturns, UNCHANGED startupVars
  PROVE  DInv'
<1>1. Types /\ MaskedWhere /\ Counted /\ RegulatorAge
  BY DEF DInv
<1>2. /\ pc = "delay" /\ TIMING_DELAY = 0 /\ pc' = return_to
      /\ UNCHANGED <<TIMING_DELAY, return_to, asked, elapsed, primask, phase, pending, adc>>
  BY DEF DelayReturns, At, delay_over, cpuVars, timeVars, startupVars
<1>3. Types' /\ MaskedWhere' /\ Counted'
  BY <1>1, <1>2 DEF Types, MaskedWhere, Counted, Masked
<1>4. RegulatorAge'
  <2>1. CASE return_to = "adcal"
    <3>1. asked = 2 /\ (adc.age >= elapsed \/ adc.age > PERIOD)
      BY <1>1, <1>2, <2>1 DEF RegulatorAge
    <3>2. elapsed >= (2 - 0 - 1) * PERIOD + 1 + 0
      BY <1>1, <1>2, <3>1 DEF Counted
    <3>3. adc.age >= PERIOD
      BY <1>1, <3>1, <3>2, DelayAssumption DEF Types, Adc
    <3> QED
      BY <1>1, <1>2, <3>3 DEF RegulatorAge, MaskedWhere, Masked
  <2>2. CASE return_to # "adcal"
    BY <1>1, <1>2, <2>2 DEF RegulatorAge, MaskedWhere, Masked
  <2> QED
    BY <2>1, <2>2
<1> QED
  BY <1>3, <1>4 DEF DInv

\* The statements of capture::setup and the ADC.
LEMMA AdcStepKeepsDInv ==
  ASSUME DInv,
         AdcRegulator \/ StartCalibration \/ EnableAdc \/ StartTim15 \/ CalibrationEnds \/ AdcReady
  PROVE  DInv'
<1> USE DelayAssumption
<1>1. Types /\ MaskedWhere /\ Counted /\ RegulatorAge
  BY DEF DInv
<1>2. CASE AdcRegulator
  <2>1. /\ pc = "capture" /\ ~ExceptionTaken /\ pc' = "delay" /\ return_to' = "adcal"
        /\ TIMING_DELAY' = 2 /\ asked' = 2 /\ elapsed' = 0
        /\ UNCHANGED <<primask, phase, pending>>
    BY <1>2 DEF AdcRegulator, delay_ms, regulator_delay, cpuVars, At
  <2>2. /\ adc' \in Adc /\ adc'.regulator /\ adc'.age = adc.age
        /\ adc'.cal = adc.cal /\ adc'.calibrated = adc.calibrated
    BY <1>1, <1>2 DEF AdcRegulator, Types, Adc
  <2>3. ~primask /\ ~pending
    BY <1>1, <2>1 DEF MaskedWhere, Masked, ExceptionTaken
  <2>4. Types' /\ MaskedWhere'
    BY <1>1, <2>1, <2>2, <2>3 DEF Types, MaskedWhere, Masked
  <2>5. Counted' /\ RegulatorAge'
    BY <1>1, <2>1, <2>2, <2>3 DEF Counted, RegulatorAge, Types, Adc
  <2> QED
    BY <2>4, <2>5 DEF DInv
<1>3. CASE StartCalibration
  <2>1. /\ pc = "adcal" /\ pc' = "adcal_wait" /\ primask' = TRUE
        /\ UNCHANGED <<TIMING_DELAY, return_to, asked, elapsed, phase, pending>>
    BY <1>3 DEF StartCalibration, At, timeVars
  <2>2. adc' \in Adc /\ adc'.age = adc.age
    BY <1>1, <1>3 DEF StartCalibration, Types, Adc
  <2> QED
    BY <1>1, <2>1, <2>2 DEF DInv, Types, MaskedWhere, Masked, Counted, RegulatorAge
<1>4. CASE EnableAdc
  <2>1. /\ pc = "adcal_wait" /\ pc' = "adrdy_wait"
        /\ UNCHANGED <<TIMING_DELAY, return_to, asked, elapsed, primask, phase, pending>>
    BY <1>4 DEF EnableAdc, At, timeVars, cpuVars
  <2>2. adc' \in Adc /\ adc'.age = adc.age
    BY <1>1, <1>4 DEF EnableAdc, Types, Adc
  <2> QED
    BY <1>1, <2>1, <2>2 DEF DInv, Types, MaskedWhere, Masked, Counted, RegulatorAge
<1>5. CASE StartTim15
  <2>1. /\ pc = "adrdy_wait" /\ pc' = "led" /\ primask' = FALSE
        /\ UNCHANGED <<TIMING_DELAY, return_to, asked, elapsed, phase, pending>>
    BY <1>5 DEF StartTim15, At, timeVars
  <2>2. adc' \in Adc /\ adc'.age = adc.age /\ adc'.cal = adc.cal /\ adc'.calibrated = adc.calibrated
    BY <1>1, <1>5 DEF StartTim15, Types, Adc
  <2> QED
    BY <1>1, <2>1, <2>2 DEF DInv, Types, MaskedWhere, Masked, Counted, RegulatorAge
<1>6. CASE CalibrationEnds \/ AdcReady
  <2>1. UNCHANGED <<pc, TIMING_DELAY, return_to, asked, elapsed, primask, phase, pending>>
    BY <1>6 DEF CalibrationEnds, AdcReady, delayVars, timeVars, cpuVars
  <2>2. /\ adc' \in Adc /\ adc'.age = adc.age /\ adc'.regulator = adc.regulator
        /\ adc'.cal \/ adc'.calibrated => adc.cal \/ adc.calibrated
    BY <1>1, <1>6 DEF CalibrationEnds, AdcReady, Types, Adc
  <2> QED
    BY <1>1, <2>1, <2>2 DEF DInv, Types, MaskedWhere, Counted, RegulatorAge
<1> QED
  BY <1>2, <1>3, <1>4, <1>5, <1>6

-----------------------------------------------------------------------------
\* The interrupt mask, the count of ticks and the age of the regulator hang together
\* in every state of the start-up.
THEOREM StartupInvariant == Spec => []DInv
<1> USE DelayAssumption
<1>1. Init => DInv
  <2> SUFFICES ASSUME Init
               PROVE  DInv
    OBVIOUS
  <2>1. adc \in Adc /\ ~adc.cal /\ ~adc.calibrated
    BY DEF Init, Adc
  <2>2. Types
    <3>1. 0 \in 0 .. PERIOD - 1
      OBVIOUS
    <3>2. /\ TIMING_DELAY = 0 /\ asked = 0 /\ elapsed = 0 /\ phase = 0
          /\ pending = FALSE /\ primask = FALSE
      BY DEF Init, DelayInit
    <3> QED
      BY <2>1, <3>1, <3>2 DEF Types
  <2> QED
    BY <2>1, <2>2 DEF Init, DelayInit, DInv, MaskedWhere, Masked, Counted, RegulatorAge
<1>2. DInv /\ [Next]_vars => DInv'
  <2> SUFFICES ASSUME DInv, [Next]_vars
               PROVE  DInv'
    OBVIOUS
  <2>1. CASE SetSysClock \/ StartSysTick \/ SiggenSetup \/ EnterLoop
    <3>1. PlainStep
      BY <2>1 DEF SetSysClock, StartSysTick, SiggenSetup, EnterLoop, PlainStep, Masked, At,
                  cpuVars, timeVars, startupVars
    <3> QED
      BY <3>1, PlainKeepsDInv
  <2>2. CASE LcdSetup
    <3>1. DelayCall
      BY <2>2 DEF LcdSetup, DelayCall, delay_ms, Masked, At, cpuVars, startupVars
    <3> QED
      BY <3>1, CallKeepsDInv
  <2>3. CASE st7735_init /\ UNCHANGED startupVars
    BY <2>3, LcdStepKinds, PlainKeepsDInv, CallKeepsDInv
  <2>4. CASE AdcRegulator \/ StartCalibration \/ EnableAdc \/ StartTim15
               \/ CalibrationEnds \/ AdcReady
    BY <2>4, AdcStepKeepsDInv
  <2>5. CASE DelayReturns /\ UNCHANGED <<lcdVars, startupVars>>
    BY <2>5, ReturnKeepsDInv
  <2>6. CASE Clock
    BY <2>6, ClockKeepsDInv
  <2>7. ASSUME NEW down \in SUBSET BUTTONS, Exception(down)
        PROVE  DInv'
    BY <2>7, ExceptionKeepsDInv
  <2>8. CASE BootClock \/ UNCHANGED vars
    <3>1. UNCHANGED <<pc, TIMING_DELAY, return_to, asked, elapsed, primask, phase, pending, adc>>
      BY <2>8 DEF BootClock, vars, delayVars, cpuVars, timeVars, startupVars
    <3> QED
      BY <3>1 DEF DInv, Types, MaskedWhere, Counted, RegulatorAge
  <2> QED
    BY <2>1, <2>2, <2>3, <2>4, <2>5, <2>6, <2>7, <2>8 DEF Next, Main
<1> QED
  BY <1>1, <1>2, PTL DEF Spec

\* main.rs:388: when delay_ms(n) returns, more than n - 1 whole periods have passed,
\* for every n and every length of a period.
THEOREM DelaysAreLongEnough == Spec => []DelayLongEnough
<1>1. DInv => DelayLongEnough
  BY DelayAssumption DEF DInv, Counted, Types, DelayLongEnough, delay_over
<1> QED
  BY <1>1, StartupInvariant, PTL

\* capture.rs:78: the regulator of the ADC has been on for a whole period when the
\* calibration starts, for every length of a period.
THEOREM RegulatorHasSettled == Spec => []RegulatorSettled
<1>1. DInv => RegulatorSettled
  BY DEF DInv, RegulatorAge, RegulatorSettled
<1> QED
  BY <1>1, StartupInvariant, PTL

-----------------------------------------------------------------------------
(* The system clock, with the rest of the start-up around it.              *)

\* The statements after which each part of the set-up is in place.
AfterHse   == {"flash", "buses", "pll", "pll_on", "pll_wait", "select", "used_wait", "hsi_off", "done"}
AfterPll   == {"pll_on", "pll_wait", "select", "used_wait", "hsi_off", "done"}
AfterPllOn == {"pll_wait", "select", "used_wait", "hsi_off", "done"}

\* Why each clock may be relied upon at each statement of set_sys_clock.
CInv ==
  /\ ClockTypeOK
  /\ clkpc \in AfterHse => "hse" \in ready
  /\ clkpc \in AfterHse \ {"flash"} => latency = 2
  /\ clkpc \in AfterPll \cup {"pll"} => ppre1 = 2
  /\ clkpc \in AfterPll => pllmul = 9
  /\ "pll" \in on => clkpc \in AfterPllOn
  /\ sw = "pll" => clkpc \in {"used_wait", "hsi_off", "done"} /\ "pll" \in ready
  /\ sws = "pll" => sw = "pll"
  /\ clkpc \in {"hsi_off", "done"} => sws = "pll"
  /\ clkpc # "done" => "hsi" \in ready
  /\ clkpc = "select" => "pll" \in ready

-----------------------------------------------------------------------------
\* sysclk.rs, main.rs:149: composed with the rest of the start-up, set_sys_clock and
\* RCC take the steps of SysClock.tla and no others, so that the clock's theorems
\* below hold while delays, exceptions and the ADC's steps come in between.
THEOREM ClockRunsAsAlone == Spec => ClockInit /\ [][ClockNext]_clockVars
<1>1. Init => ClockInit
  BY DEF Init
<1>2. [Next]_vars => [ClockNext]_clockVars
  <2> SUFFICES ASSUME [Next]_vars, ~ClockNext
               PROVE  UNCHANGED clockVars
    OBVIOUS
  <2>1. CASE Main \/ Clock \/ CalibrationEnds \/ AdcReady
    BY <2>1 DEF Main, Clock, CalibrationEnds, AdcReady, clockVars, cfgVars
  <2>2. ASSUME NEW down \in SUBSET BUTTONS, Exception(down)
        PROVE  UNCHANGED clockVars
    BY <2>2 DEF Exception, clockVars, cfgVars
  <2>3. CASE UNCHANGED vars
    BY <2>3 DEF vars, clockVars, cfgVars
  <2> QED
    BY <2>1, <2>2, <2>3 DEF Next, BootClock
<1> QED
  BY <1>1, <1>2, PTL DEF Spec

\* Every register access of set_sys_clock() and every step of RCC keeps the
\* clock set-up consistent.
THEOREM ClockInvariant == Spec => []CInv
<1> USE SysClockAssumption
<1>1. ClockInit => CInv
  BY SMTT(40) DEF ClockInit, CInv, ClockTypeOK, AfterHse, AfterPll, AfterPllOn
<1>2. CInv /\ [ClockNext]_clockVars => CInv'
  <2> SUFFICES ASSUME CInv, [ClockNext]_clockVars
               PROVE  CInv'
    OBVIOUS
  <2> USE DEF CInv, ClockTypeOK, AfterHse, AfterPll, AfterPllOn, cfgVars
  <2>1. CASE HseOn
    BY <2>1 DEF HseOn
  <2>2. CASE WaitHse
    BY <2>2 DEF WaitHse, count_down
  <2>3. CASE SetFlash
    BY <2>3 DEF SetFlash
  <2>4. CASE SetBuses
    BY <2>4 DEF SetBuses
  <2>5. CASE SetPll
    BY <2>5 DEF SetPll
  <2>6. CASE PllOn
    BY <2>6 DEF PllOn
  <2>7. CASE WaitPll
    BY <2>7 DEF WaitPll
  <2>8. CASE SelectPll
    BY <2>8 DEF SelectPll
  <2>9. CASE WaitPllUsed
    BY <2>9 DEF WaitPllUsed, pll_used
  <2>10. CASE HsiOff
    BY <2>10 DEF HsiOff
  <2>11. CASE Resume
    BY <2>11 DEF Resume
  <2>12. CASE HseReady
    BY <2>12 DEF HseReady
  <2>13. CASE PllReady
    BY <2>13 DEF PllReady
  <2>14. CASE Switch
    BY <2>14 DEF Switch
  <2>15. CASE UNCHANGED clockVars
    BY <2>15 DEF clockVars
  <2> QED
    BY <2>1, <2>2, <2>3, <2>4, <2>5, <2>6, <2>7, <2>8, <2>9, <2>10, <2>11, <2>12, <2>13,
       <2>14, <2>15 DEF ClockNext, set_sys_clock
<1> QED
  BY <1>1, <1>2, ClockRunsAsAlone, PTL

\* sysclk.rs:71: the clock in use is on and ready at every moment, before, during
\* and after the switch and with HSI off.
THEOREM ClockStaysAlive == Spec => []ClockAlive
<1>1. CInv => ClockAlive
  BY DEF CInv, ClockTypeOK, ClockAlive, AfterHse, AfterPll, AfterPllOn
<1> QED
  BY <1>1, ClockInvariant, PTL

\* sysclk.rs:50-58: flash and APB1 are slowed down before the clock gets fast.
THEOREM SlowsInTime == Spec => []SlowedInTime
<1>1. CInv => SlowedInTime
  BY DEF CInv, SlowedInTime, AfterHse, AfterPll
<1> QED
  BY <1>1, ClockInvariant, PTL

\* sysclk.rs:59: set_sys_clock sets the multiplier only while the PLL is off.
THEOREM PllSetOnlyWhileOff == Spec => PllSetWhileOff
<1>1. CInv /\ [ClockNext]_clockVars => [pllmul' # pllmul => "pll" \notin on]_clockVars
  BY DEF CInv, AfterPllOn, ClockNext, set_sys_clock, cfgVars, HseOn, WaitHse, SetFlash, SetBuses, SetPll,
         PllOn, WaitPll, SelectPll, WaitPllUsed, HsiOff, Resume, HseReady, PllReady, Switch
<1> QED
  BY <1>1, ClockInvariant, ClockRunsAsAlone, PTL DEF PllSetWhileOff

-----------------------------------------------------------------------------
(* What main() has set up when it gets to each of its statements.          *)

\* The statement main() is at, or that the delay it is in returns to.
Place == IF pc = "delay" THEN return_to ELSE pc

BeforeLcd   == {"set_sys_clock", "systick", "lcd"}
ResetLcd    == {"initR", "cs0", "rst1", "rst0", "rst1_again"}
InTables    == {"list", "command", "args"}
Oriented    == {"madctl", "rotate"}
AfterSiggen == {"capture", "adcal", "adcal_wait", "adrdy_wait", "led", "loop"}
Places      == BeforeLcd \cup ResetLcd \cup InTables \cup Oriented \cup {"siggen"} \cup AfterSiggen

MainInv ==
  /\ Place \in Places
  /\ pc # "delay" => TIMING_DELAY = 0
  /\ IF Place \in {"set_sys_clock", "systick"} THEN ledPins = {} ELSE ledPins = LEDs /\ ticking
  /\ leds = IF Place = "loop" THEN {"LD4"} ELSE {}
  /\ Place \in AfterSiggen => siggen
  /\ Place \in {"led", "loop"} => adc.tim15
  /\ Place = "adcal_wait" => adc.cal \/ adc.calibrated
  /\ AdcInOrder

\* Exceptions, clocks and returns from delays leave main() where it is.
StaysAt ==
  /\ Place' = Place
  /\ pc' # "delay" /\ TIMING_DELAY' # 0 => pc # "delay" /\ TIMING_DELAY # 0
  /\ UNCHANGED <<ledPins, leds, siggen, ticking>>

\* The statements of the display's set-up lead to one another, then to "siggen".
LcdMoves ==
  /\ Place \in ResetLcd \cup InTables \cup Oriented
  /\ Place' \in ResetLcd \cup InTables \cup Oriented \cup {"siggen"}
  /\ pc' # "delay" => pc # "delay" /\ TIMING_DELAY' = TIMING_DELAY
  /\ UNCHANGED <<ledPins, leds, siggen, ticking, adc>>

LEMMA StayingKeepsMainInv ==
  ASSUME MainInv, StaysAt, AdcInOrder',
         adc.tim15 => adc'.tim15, adc.cal \/ adc.calibrated => adc'.cal \/ adc'.calibrated
  PROVE  MainInv'
  BY DEF MainInv, StaysAt

LEMMA LcdMovesKeepMainInv ==
  ASSUME MainInv, LcdMoves
  PROVE  MainInv'
  BY SMTT(40) DEF MainInv, LcdMoves, AdcInOrder, Places, BeforeLcd, ResetLcd, InTables, Oriented, AfterSiggen

LEMMA LcdStepsMove ==
  ASSUME st7735_init, UNCHANGED startupVars
  PROVE  LcdMoves
<1> USE DEF LcdMoves, Place, ResetLcd, InTables, Oriented, At, startupVars, cpuVars
<1>1. CASE InitR
  BY <1>1 DEF InitR, delay_ms
<1>2. CASE SelectChip
  BY <1>2 DEF SelectChip, timeVars
<1>3. CASE RstHigh
  BY <1>3 DEF RstHigh, delay_ms
<1>4. CASE RstLow
  BY <1>4 DEF RstLow, delay_ms
<1>5. CASE RstHighAgain
  BY <1>5 DEF RstHighAgain, delay_ms
<1>6. CASE ListBegins
  BY <1>6 DEF ListBegins, timeVars
<1>7. CASE SendCommand
  BY <1>7 DEF SendCommand, timeVars
<1>8. CASE SendArgument
  BY <1>8 DEF SendArgument, timeVars
<1>9. CASE CommandDelay
  BY <1>9 DEF CommandDelay, delay_ms
<1>10. CASE CommandDone
  BY <1>10 DEF CommandDone, timeVars
<1>11. CASE ListEnds
  BY <1>11 DEF ListEnds, timeVars
<1>12. CASE BlackTab
  BY <1>12 DEF BlackTab, timeVars
<1>13. CASE SetRotation
  BY <1>13, SMTT(40) DEF SetRotation, timeVars
<1> QED
  BY <1>1, <1>2, <1>3, <1>4, <1>5, <1>6, <1>7, <1>8, <1>9, <1>10, <1>11, <1>12, <1>13
     DEF st7735_init

\* The statements of main() outside the display's set-up.
LEMMA MainKeepsMainInv ==
  ASSUME DInv, MainInv,
         \/ SetSysClock \/ StartSysTick \/ LcdSetup \/ SiggenSetup \/ AdcRegulator
         \/ StartCalibration \/ EnableAdc \/ StartTim15 \/ EnterLoop
  PROVE  MainInv'
<1> USE DEF MainInv, AdcInOrder, Place, Places, BeforeLcd, ResetLcd, InTables, Oriented, AfterSiggen,
            At, startupVars, cpuVars
<1>0. adc \in Adc
  BY DEF DInv, Types
<1>1. CASE SetSysClock
  BY <1>1 DEF SetSysClock, timeVars
<1>2. CASE StartSysTick
  BY <1>2 DEF StartSysTick, timeVars, led_init, LEDs
<1>3. CASE LcdSetup
  BY <1>3 DEF LcdSetup, delay_ms
<1>4. CASE SiggenSetup
  BY <1>4 DEF SiggenSetup, timeVars
<1>5. CASE AdcRegulator
  BY <1>0, <1>5 DEF AdcRegulator, delay_ms, Adc
<1>6. CASE StartCalibration
  BY <1>0, <1>6 DEF StartCalibration, timeVars, Adc
<1>7. CASE EnableAdc
  BY <1>0, <1>7 DEF EnableAdc, calibration_over, timeVars, Adc
<1>8. CASE StartTim15
  BY <1>0, <1>8 DEF StartTim15, timeVars, Adc
<1>9. CASE EnterLoop
  BY <1>9 DEF EnterLoop, led_on, timeVars
<1> QED
  BY <1>1, <1>2, <1>3, <1>4, <1>5, <1>6, <1>7, <1>8, <1>9

\* The steps that are not main()'s, and returns from delays.
LEMMA OthersStayAt ==
  ASSUME DInv,
         \/ DelayReturns /\ UNCHANGED <<lcdVars, startupVars>>
         \/ Clock \/ CalibrationEnds \/ AdcReady \/ BootClock \/ UNCHANGED vars
         \/ \E down \in SUBSET BUTTONS : Exception(down)
  PROVE  StaysAt /\ UNCHANGED <<options, listVars, lcd>>
<1> USE DEF StaysAt, Place, startupVars, cpuVars, timeVars, delayVars, lcdVars
<1>1. CASE DelayReturns /\ UNCHANGED <<lcdVars, startupVars>>
  BY <1>1 DEF DelayReturns, At, delay_over, DInv, MaskedWhere
<1>2. CASE Clock
  BY <1>2 DEF Clock, SysTickClock
<1>3. CASE CalibrationEnds \/ AdcReady
  BY <1>3 DEF CalibrationEnds, AdcReady
<1>4. CASE BootClock \/ UNCHANGED vars
  BY <1>4 DEF BootClock, vars
<1>5. ASSUME NEW down \in SUBSET BUTTONS, Exception(down)
      PROVE  StaysAt /\ UNCHANGED <<options, listVars, lcd>>
  BY <1>5 DEF Exception, SysTickException, systick_handler, delay_tick
<1> QED
  BY <1>1, <1>2, <1>3, <1>4, <1>5

LEMMA OthersKeepMainInv ==
  ASSUME DInv, MainInv,
         \/ DelayReturns /\ UNCHANGED <<lcdVars, startupVars>>
         \/ Clock \/ CalibrationEnds \/ AdcReady \/ BootClock \/ UNCHANGED vars
         \/ \E down \in SUBSET BUTTONS : Exception(down)
  PROVE  MainInv'
<1>1. StaysAt
  BY OthersStayAt
<1>2. adc \in Adc /\ AdcInOrder
  BY DEF DInv, Types, MainInv
<1>3. CASE Clock
  BY <1>1, <1>2, <1>3, StayingKeepsMainInv DEF Clock, Adc, AdcInOrder
<1>4. CASE CalibrationEnds \/ AdcReady
  BY <1>1, <1>2, <1>4, StayingKeepsMainInv DEF CalibrationEnds, AdcReady, Adc, AdcInOrder
<1>5. CASE UNCHANGED adc
  BY <1>1, <1>2, <1>5, StayingKeepsMainInv DEF AdcInOrder
<1> QED
  BY <1>3, <1>4, <1>5 DEF BootClock, vars, Exception, startupVars

\* main.rs: the statements of main() come in their order, whatever the exceptions do,
\* and each finds what the ones before it have set up.
THEOREM MainInvariant == Spec => []MainInv
<1>1. Init => MainInv
  <2> SUFFICES ASSUME Init
               PROVE  MainInv
    OBVIOUS
  <2>1. Place = "set_sys_clock" /\ TIMING_DELAY = 0 /\ ledPins = {} /\ leds = {}
    BY DEF Init, DelayInit, Place
  <2>2. ~adc.en /\ ~adc.tim15
    BY DEF Init
  <2> QED
    BY <2>1, <2>2 DEF MainInv, Places, BeforeLcd, AfterSiggen, AdcInOrder
<1>2. DInv /\ MainInv /\ [Next]_vars => MainInv'
  BY MainKeepsMainInv, OthersKeepMainInv, LcdStepsMove, LcdMovesKeepMainInv DEF Next, Main
<1> QED
  BY <1>1, <1>2, StartupInvariant, PTL DEF Spec

\* capture.rs:89-163: the ADC is not enabled before it is calibrated, and TIM15 does not
\* trigger it before it is ready, for every length of a period.
THEOREM AdcStartsInOrder == Spec => []AdcInOrder
<1>1. MainInv => AdcInOrder
  BY DEF MainInv
<1> QED
  BY <1>1, MainInvariant, PTL

-----------------------------------------------------------------------------
(* The tables of ST7735.c.                                                 *)

Tables == {"Rcmd1", "Rcmd2green", "Rcmd2red", "Rcmd3"}

\* A command begins at a, or the table ends there, with n commands left.
CommandAt(l, a, n) ==
  /\ l = "Rcmd1" =>
       \/ (a = 2 /\ n = 15) \/ (a = 5 /\ n = 14) \/ (a = 8 /\ n = 13) \/ (a = 13 /\ n = 12)
       \/ (a = 18 /\ n = 11) \/ (a = 26 /\ n = 10) \/ (a = 29 /\ n = 9) \/ (a = 34 /\ n = 8)
       \/ (a = 37 /\ n = 7) \/ (a = 41 /\ n = 6) \/ (a = 45 /\ n = 5) \/ (a = 49 /\ n = 4)
       \/ (a = 52 /\ n = 3) \/ (a = 54 /\ n = 2) \/ (a = 57 /\ n = 1) \/ (a = 61 /\ n = 0)
  /\ l \in {"Rcmd2green", "Rcmd2red"} => (a = 2 /\ n = 2) \/ (a = 8 /\ n = 1) \/ (a = 14 /\ n = 0)
  /\ l = "Rcmd3" =>
       \/ (a = 2 /\ n = 4) \/ (a = 20 /\ n = 3) \/ (a = 38 /\ n = 2)
       \/ (a = 41 /\ n = 1) \/ (a = 44 /\ n = 0)

\* A command with its number of arguments and its delay, 0 if it has none.
Entry(l, a, cmd, args, wait) ==
  /\ Table(l)[a] = cmd
  /\ Table(l)[a + 1] = IF wait = 0 THEN args ELSE args + DELAY
  /\ wait # 0 => post_delay(Table(l)[a + 2 + args]) = wait

LEMMA Rcmd1Entries ==
  /\ Entry("Rcmd1", 2, "SWRESET", 0, 150) /\ Entry("Rcmd1", 5, "SLPOUT", 0, 500)
  /\ Entry("Rcmd1", 8, "FRMCTR1", 3, 0) /\ Entry("Rcmd1", 13, "FRMCTR2", 3, 0)
  /\ Entry("Rcmd1", 18, "FRMCTR3", 6, 0) /\ Entry("Rcmd1", 26, "INVCTR", 1, 0)
  /\ Entry("Rcmd1", 29, "PWCTR1", 3, 0) /\ Entry("Rcmd1", 34, "PWCTR2", 1, 0)
  /\ Entry("Rcmd1", 37, "PWCTR3", 2, 0) /\ Entry("Rcmd1", 41, "PWCTR4", 2, 0)
  /\ Entry("Rcmd1", 45, "PWCTR5", 2, 0) /\ Entry("Rcmd1", 49, "VMCTR1", 1, 0)
  /\ Entry("Rcmd1", 52, "INVOFF", 0, 0) /\ Entry("Rcmd1", 54, "MADCTL", 1, 0)
  /\ Entry("Rcmd1", 57, "COLMOD", 1, 10) /\ Rcmd1[59] = "16-bit"
  BY DEF Entry, Table, Rcmd1, DELAY, post_delay

LEMMA OtherEntries ==
  /\ \A l \in {"Rcmd2green", "Rcmd2red"} : Entry(l, 2, "CASET", 4, 0) /\ Entry(l, 8, "RASET", 4, 0)
  /\ Entry("Rcmd3", 2, "GMCTRP1", 16, 0) /\ Entry("Rcmd3", 20, "GMCTRN1", 16, 0)
  /\ Entry("Rcmd3", 38, "NORON", 0, 10) /\ Entry("Rcmd3", 41, "DISPON", 0, 100)
  BY DEF Entry, Table, Rcmd2green, Rcmd2red, Rcmd3, DELAY, post_delay

Size(l) == Len(Table(l))

LEMMA TableSizes ==
  /\ Size("Rcmd1") = 60 /\ Table("Rcmd1")[1] = 15
  /\ Size("Rcmd2green") = 13 /\ Table("Rcmd2green")[1] = 2
  /\ Size("Rcmd2red") = 13 /\ Table("Rcmd2red")[1] = 2
  /\ Size("Rcmd3") = 43 /\ Table("Rcmd3")[1] = 4
  BY DEF Size, Table, Rcmd1, Rcmd2green, Rcmd2red, Rcmd3, DELAY

LEMMA WaitsOfCommands ==
  /\ DOMAIN Wait = {"SWRESET", "SLPOUT", "COLMOD", "NORON", "DISPON", "reset"}
  /\ Wait["SWRESET"] = 150 /\ Wait["SLPOUT"] = 500 /\ Wait["COLMOD"] = 10
  /\ Wait["NORON"] = 10 /\ Wait["DISPON"] = 100 /\ Wait["reset"] = 500
  BY DEF Wait

\* What the interpreter finds at a command: the next one is where the counts say, the
\* delay is the one the command calls for, and no command is out of its place.
Arguments(l, a)  == Table(l)[a + 1] % DELAY
DelayFlag(l, a)  == Table(l)[a + 1] - (Table(l)[a + 1] % DELAY)

Consistent(l, a, n, cmd, args, flag) ==
  /\ args \in Nat
  /\ CommandAt(l, a + 2 + args + (IF flag = 0 THEN 0 ELSE 1), n - 1)
  /\ flag = 0 <=> cmd \notin DOMAIN Wait
  /\ flag # 0 => post_delay(Table(l)[a + 2 + args]) = Wait[cmd]
  /\ cmd = "SWRESET" => l = "Rcmd1" /\ n = 15
  /\ l = "Rcmd1" /\ n = 14 => cmd = "SLPOUT"
  /\ cmd = "COLMOD" <=> l = "Rcmd1" /\ n = 1
  /\ cmd = "COLMOD" => args = 1
  /\ l = "Rcmd3" /\ n = 1 => cmd = "DISPON"

Row(l, a, n, cmd, args, wait) ==
  /\ a \in Nat /\ n \in Nat /\ args \in 0 .. 16 /\ wait \in Nat
  /\ Entry(l, a, cmd, args, wait) /\ Consistent(l, a, n, cmd, args, wait)

\* What the interpreter reads at a command.
Reads(l, a, n) ==
  a \in Nat /\ n \in Nat /\ Consistent(l, a, n, Table(l)[a], Arguments(l, a), DelayFlag(l, a))

LEMMA RowIsRead ==
  ASSUME NEW l, NEW a, NEW n, NEW cmd, NEW args, NEW wait, Row(l, a, n, cmd, args, wait)
  PROVE  Reads(l, a, n)
<1>1. Table(l)[a] = cmd /\ Arguments(l, a) = args
  BY DEF Row, Entry, Arguments, DELAY
<1>2. DelayFlag(l, a) = IF wait = 0 THEN 0 ELSE 128
  BY DEF Row, Entry, DelayFlag, DELAY
<1> QED
  BY <1>1, <1>2 DEF Row, Consistent, Reads

LEMMA Rcmd1IsRead ==
  ASSUME NEW a, NEW n, CommandAt("Rcmd1", a, n), n # 0
  PROVE  Reads("Rcmd1", a, n)
<1>1. Row("Rcmd1", 2, 15, "SWRESET", 0, 150)
  <2>1. Entry("Rcmd1", 2, "SWRESET", 0, 150)
    BY Rcmd1Entries, Zenon
  <2>2. CommandAt("Rcmd1", 5, 14)
    BY Zenon DEF CommandAt
  <2> QED
    BY <2>1, <2>2, WaitsOfCommands DEF Row, Consistent, Entry
<1>2. Row("Rcmd1", 5, 14, "SLPOUT", 0, 500)
  <2>1. Entry("Rcmd1", 5, "SLPOUT", 0, 500)
    BY Rcmd1Entries, Zenon
  <2>2. CommandAt("Rcmd1", 8, 13)
    BY Zenon DEF CommandAt
  <2> QED
    BY <2>1, <2>2, WaitsOfCommands DEF Row, Consistent, Entry
<1>3. Row("Rcmd1", 8, 13, "FRMCTR1", 3, 0)
  <2>1. Entry("Rcmd1", 8, "FRMCTR1", 3, 0)
    BY Rcmd1Entries, Zenon
  <2>2. CommandAt("Rcmd1", 13, 12)
    BY Zenon DEF CommandAt
  <2> QED
    BY <2>1, <2>2, WaitsOfCommands DEF Row, Consistent, Entry
<1>4. Row("Rcmd1", 13, 12, "FRMCTR2", 3, 0)
  <2>1. Entry("Rcmd1", 13, "FRMCTR2", 3, 0)
    BY Rcmd1Entries, Zenon
  <2>2. CommandAt("Rcmd1", 18, 11)
    BY Zenon DEF CommandAt
  <2> QED
    BY <2>1, <2>2, WaitsOfCommands DEF Row, Consistent, Entry
<1>5. Row("Rcmd1", 18, 11, "FRMCTR3", 6, 0)
  <2>1. Entry("Rcmd1", 18, "FRMCTR3", 6, 0)
    BY Rcmd1Entries, Zenon
  <2>2. CommandAt("Rcmd1", 26, 10)
    BY Zenon DEF CommandAt
  <2> QED
    BY <2>1, <2>2, WaitsOfCommands DEF Row, Consistent, Entry
<1>6. Row("Rcmd1", 26, 10, "INVCTR", 1, 0)
  <2>1. Entry("Rcmd1", 26, "INVCTR", 1, 0)
    BY Rcmd1Entries, Zenon
  <2>2. CommandAt("Rcmd1", 29, 9)
    BY Zenon DEF CommandAt
  <2> QED
    BY <2>1, <2>2, WaitsOfCommands DEF Row, Consistent, Entry
<1>7. Row("Rcmd1", 29, 9, "PWCTR1", 3, 0)
  <2>1. Entry("Rcmd1", 29, "PWCTR1", 3, 0)
    BY Rcmd1Entries, Zenon
  <2>2. CommandAt("Rcmd1", 34, 8)
    BY Zenon DEF CommandAt
  <2> QED
    BY <2>1, <2>2, WaitsOfCommands DEF Row, Consistent, Entry
<1>8. Row("Rcmd1", 34, 8, "PWCTR2", 1, 0)
  <2>1. Entry("Rcmd1", 34, "PWCTR2", 1, 0)
    BY Rcmd1Entries, Zenon
  <2>2. CommandAt("Rcmd1", 37, 7)
    BY Zenon DEF CommandAt
  <2> QED
    BY <2>1, <2>2, WaitsOfCommands DEF Row, Consistent, Entry
<1>9. Row("Rcmd1", 37, 7, "PWCTR3", 2, 0)
  <2>1. Entry("Rcmd1", 37, "PWCTR3", 2, 0)
    BY Rcmd1Entries, Zenon
  <2>2. CommandAt("Rcmd1", 41, 6)
    BY Zenon DEF CommandAt
  <2> QED
    BY <2>1, <2>2, WaitsOfCommands DEF Row, Consistent, Entry
<1>10. Row("Rcmd1", 41, 6, "PWCTR4", 2, 0)
  <2>1. Entry("Rcmd1", 41, "PWCTR4", 2, 0)
    BY Rcmd1Entries, Zenon
  <2>2. CommandAt("Rcmd1", 45, 5)
    BY Zenon DEF CommandAt
  <2> QED
    BY <2>1, <2>2, WaitsOfCommands DEF Row, Consistent, Entry
<1>11. Row("Rcmd1", 45, 5, "PWCTR5", 2, 0)
  <2>1. Entry("Rcmd1", 45, "PWCTR5", 2, 0)
    BY Rcmd1Entries, Zenon
  <2>2. CommandAt("Rcmd1", 49, 4)
    BY Zenon DEF CommandAt
  <2> QED
    BY <2>1, <2>2, WaitsOfCommands DEF Row, Consistent, Entry
<1>12. Row("Rcmd1", 49, 4, "VMCTR1", 1, 0)
  <2>1. Entry("Rcmd1", 49, "VMCTR1", 1, 0)
    BY Rcmd1Entries, Zenon
  <2>2. CommandAt("Rcmd1", 52, 3)
    BY Zenon DEF CommandAt
  <2> QED
    BY <2>1, <2>2, WaitsOfCommands DEF Row, Consistent, Entry
<1>13. Row("Rcmd1", 52, 3, "INVOFF", 0, 0)
  <2>1. Entry("Rcmd1", 52, "INVOFF", 0, 0)
    BY Rcmd1Entries, Zenon
  <2>2. CommandAt("Rcmd1", 54, 2)
    BY Zenon DEF CommandAt
  <2> QED
    BY <2>1, <2>2, WaitsOfCommands DEF Row, Consistent, Entry
<1>14. Row("Rcmd1", 54, 2, "MADCTL", 1, 0)
  <2>1. Entry("Rcmd1", 54, "MADCTL", 1, 0)
    BY Rcmd1Entries, Zenon
  <2>2. CommandAt("Rcmd1", 57, 1)
    BY Zenon DEF CommandAt
  <2> QED
    BY <2>1, <2>2, WaitsOfCommands DEF Row, Consistent, Entry
<1>15. Row("Rcmd1", 57, 1, "COLMOD", 1, 10)
  <2>1. Entry("Rcmd1", 57, "COLMOD", 1, 10)
    BY Rcmd1Entries, Zenon
  <2>2. CommandAt("Rcmd1", 61, 0)
    BY Zenon DEF CommandAt
  <2> QED
    BY <2>1, <2>2, WaitsOfCommands DEF Row, Consistent, Entry
<1>16. Reads("Rcmd1", 2, 15) /\ Reads("Rcmd1", 5, 14) /\ Reads("Rcmd1", 8, 13)
  BY <1>1, <1>2, <1>3, RowIsRead, SMT
<1>17. Reads("Rcmd1", 13, 12) /\ Reads("Rcmd1", 18, 11) /\ Reads("Rcmd1", 26, 10)
  BY <1>4, <1>5, <1>6, RowIsRead, Zenon
<1>18. Reads("Rcmd1", 29, 9) /\ Reads("Rcmd1", 34, 8) /\ Reads("Rcmd1", 37, 7)
  BY <1>7, <1>8, <1>9, RowIsRead, Zenon
<1>19. Reads("Rcmd1", 41, 6) /\ Reads("Rcmd1", 45, 5) /\ Reads("Rcmd1", 49, 4)
  BY <1>10, <1>11, <1>12, RowIsRead, Zenon
<1>20. Reads("Rcmd1", 52, 3) /\ Reads("Rcmd1", 54, 2) /\ Reads("Rcmd1", 57, 1)
  BY <1>13, <1>14, <1>15, RowIsRead, Zenon
<1> QED
  BY <1>16, <1>17, <1>18, <1>19, <1>20, SMTT(40) DEF CommandAt

LEMMA Rcmd2IsRead ==
  ASSUME NEW l \in {"Rcmd2green", "Rcmd2red"}, NEW a, NEW n, CommandAt(l, a, n), n # 0
  PROVE  Reads(l, a, n)
<1>1. Row(l, 2, 2, "CASET", 4, 0)
  <2>1. Entry(l, 2, "CASET", 4, 0)
    BY OtherEntries, Zenon
  <2>2. CommandAt(l, 8, 1)
    BY DEF CommandAt
  <2> QED
    BY <2>1, <2>2, WaitsOfCommands DEF Row, Consistent, Entry
<1>2. Row(l, 8, 1, "RASET", 4, 0)
  <2>1. Entry(l, 8, "RASET", 4, 0)
    BY OtherEntries, Zenon
  <2>2. CommandAt(l, 14, 0)
    BY DEF CommandAt
  <2> QED
    BY <2>1, <2>2, WaitsOfCommands DEF Row, Consistent, Entry
<1>3. \/ a = 2 /\ n = 2
      \/ a = 8 /\ n = 1
  BY DEF CommandAt
<1> QED
  BY <1>1, <1>2, <1>3, RowIsRead, SMT

LEMMA Rcmd3IsRead ==
  ASSUME NEW a, NEW n, CommandAt("Rcmd3", a, n), n # 0
  PROVE  Reads("Rcmd3", a, n)
<1>1. Row("Rcmd3", 2, 4, "GMCTRP1", 16, 0)
  <2>1. Entry("Rcmd3", 2, "GMCTRP1", 16, 0)
    BY OtherEntries, Zenon
  <2>2. CommandAt("Rcmd3", 20, 3)
    BY Zenon DEF CommandAt
  <2> QED
    BY <2>1, <2>2, WaitsOfCommands DEF Row, Consistent, Entry
<1>2. Row("Rcmd3", 20, 3, "GMCTRN1", 16, 0)
  <2>1. Entry("Rcmd3", 20, "GMCTRN1", 16, 0)
    BY OtherEntries, Zenon
  <2>2. CommandAt("Rcmd3", 38, 2)
    BY Zenon DEF CommandAt
  <2> QED
    BY <2>1, <2>2, WaitsOfCommands DEF Row, Consistent, Entry
<1>3. Row("Rcmd3", 38, 2, "NORON", 0, 10)
  <2>1. Entry("Rcmd3", 38, "NORON", 0, 10)
    BY OtherEntries, Zenon
  <2>2. CommandAt("Rcmd3", 41, 1)
    BY Zenon DEF CommandAt
  <2> QED
    BY <2>1, <2>2, WaitsOfCommands DEF Row, Consistent, Entry
<1>4. Row("Rcmd3", 41, 1, "DISPON", 0, 100)
  <2>1. Entry("Rcmd3", 41, "DISPON", 0, 100)
    BY OtherEntries, Zenon
  <2>2. CommandAt("Rcmd3", 44, 0)
    BY Zenon DEF CommandAt
  <2> QED
    BY <2>1, <2>2, WaitsOfCommands DEF Row, Consistent, Entry
<1>5. \/ a = 2 /\ n = 4
      \/ a = 20 /\ n = 3
      \/ a = 38 /\ n = 2
      \/ a = 41 /\ n = 1
  BY DEF CommandAt
<1> QED
  BY <1>1, <1>2, <1>3, <1>4, <1>5, RowIsRead, SMTT(40)

LEMMA TablesAreRead ==
  ASSUME NEW l \in Tables, NEW a, NEW n, CommandAt(l, a, n), n # 0
  PROVE  Reads(l, a, n)
  BY Rcmd1IsRead, Rcmd2IsRead, Rcmd3IsRead DEF Tables

-----------------------------------------------------------------------------
\* The delay main() is in has run entirely since it last touched the controller.
WaitedInv == waited \in Nat /\ (pc = "delay" => waited >= elapsed)

\* A statement that touches the controller, or does not, and begins a delay, or none.
TouchStep == (waited' = 0 \/ waited' = waited) /\ (pc' # "delay" \/ elapsed' = 0)

LEMMA LcdStepsTouch ==
  ASSUME st7735_init
  PROVE  TouchStep
<1> USE DEF TouchStep, Sends, At
<1>1. CASE InitR \/ SelectChip
  BY <1>1 DEF InitR, SelectChip, delay_ms, lcdVars
<1>2. CASE RstHigh \/ RstLow \/ RstHighAgain
  BY <1>2 DEF RstHigh, RstLow, RstHighAgain, delay_ms
<1>3. CASE ListBegins \/ SendCommand \/ SendArgument
  BY <1>3 DEF ListBegins, SendCommand, SendArgument
<1>4. CASE CommandDelay \/ CommandDone \/ ListEnds
  BY <1>4 DEF CommandDelay, CommandDone, ListEnds, delay_ms, lcdVars
<1>5. CASE BlackTab \/ SetRotation
  BY <1>5 DEF BlackTab, SetRotation
<1> QED
  BY <1>1, <1>2, <1>3, <1>4, <1>5 DEF st7735_init

LEMMA OthersKeepWaitedInv ==
  ASSUME DInv, WaitedInv,
         \/ DelayReturns /\ UNCHANGED <<lcdVars, startupVars>>
         \/ Clock \/ CalibrationEnds \/ AdcReady \/ BootClock \/ UNCHANGED vars
         \/ \E down \in SUBSET BUTTONS : Exception(down)
  PROVE  WaitedInv'
<1>1. elapsed \in Nat
  BY DEF DInv, Types
<1>2. CASE DelayReturns /\ UNCHANGED <<lcdVars, startupVars>>
  BY <1>2 DEF DelayReturns, At, WaitedInv, lcdVars, DInv, MaskedWhere
<1>3. CASE Clock
  BY <1>1, <1>3 DEF Clock, SysTickClock, WaitedInv
<1>4. CASE CalibrationEnds \/ AdcReady \/ BootClock \/ UNCHANGED vars
  BY <1>4 DEF CalibrationEnds, AdcReady, BootClock, vars, delayVars, timeVars, lcdVars, WaitedInv
<1>5. CASE \E down \in SUBSET BUTTONS : Exception(down)
  BY <1>5 DEF Exception, SysTickException, lcdVars, WaitedInv
<1> QED
  BY <1>2, <1>3, <1>4, <1>5

LEMMA MainTouches ==
  ASSUME \/ SetSysClock \/ StartSysTick \/ LcdSetup \/ SiggenSetup \/ AdcRegulator
         \/ StartCalibration \/ EnableAdc \/ StartTim15 \/ EnterLoop
  PROVE  TouchStep
<1> USE DEF TouchStep, At, lcdVars
<1>1. CASE LcdSetup \/ AdcRegulator
  BY <1>1 DEF LcdSetup, AdcRegulator, delay_ms, Sends
<1>2. CASE SetSysClock \/ StartSysTick \/ SiggenSetup
  BY <1>2 DEF SetSysClock, StartSysTick, SiggenSetup
<1>3. CASE StartCalibration \/ EnableAdc \/ StartTim15 \/ EnterLoop
  BY <1>3 DEF StartCalibration, EnableAdc, StartTim15, EnterLoop
<1> QED
  BY <1>1, <1>2, <1>3

\* delay_ms, ST7735.c: the clocks of a delay all pass after the byte or the edge before it.
THEOREM WaitedInvariant == Spec => []WaitedInv
<1>1. Init => WaitedInv
  <2>1. Init => pc = "set_sys_clock" /\ waited = 0
    BY Zenon DEF Init
  <2> QED
    BY <2>1 DEF WaitedInv
<1>2. DInv /\ WaitedInv /\ [Next]_vars => WaitedInv'
  <2> SUFFICES ASSUME DInv, WaitedInv, [Next]_vars
               PROVE  WaitedInv'
    OBVIOUS
  <2>1. CASE TouchStep
    BY <2>1 DEF TouchStep, WaitedInv
  <2> QED
    BY <2>1, LcdStepsTouch, MainTouches, OthersKeepWaitedInv DEF Next, Main
<1> QED
  BY <1>1, <1>2, StartupInvariant, PTL DEF Spec

-----------------------------------------------------------------------------
\* Where commandList is in its tables.
TableInv ==
  /\ Place \in InTables => list \in Tables
  /\ Place = "list" => addr = 1
  /\ Place = "command" => CommandAt(list, addr, numCommands)
  /\ Place = "args" =>
       /\ addr \in Nat /\ numArgs \in Nat
       /\ CommandAt(list, addr + numArgs + (IF ms = 0 THEN 0 ELSE 1), numCommands)

\* The controller's state from its fields.
State(cs, rst, cmd, awake, on_, colmod, madctl) ==
  [cs |-> cs, rst |-> rst, cmd |-> cmd, awake |-> awake, on |-> on_, colmod |-> colmod,
   madctl |-> madctl]

\* The controller listens.
Selected(l) == l = State(0, 1, l.cmd, l.awake, l.on, l.colmod, l.madctl)

\* How far the commands sent so far have brought it.
LcdStateInv ==
  /\ Place \in ResetLcd \ {"rst0"} => lcd = LcdReset
  /\ Place = "rst0" => lcd = [LcdReset EXCEPT !.rst = 1]
  /\ Place \in InTables \cup Oriented => Selected(lcd)
  /\ Place \in {"command", "args"} /\ list = "Rcmd1" /\ numCommands <= 13 => lcd.awake = TRUE
  /\ Place = "command" /\ list = "Rcmd1" /\ numCommands = 0 => lcd.colmod = "16-bit"
  /\ Place = "args" /\ list = "Rcmd1" /\ numCommands = 0 =>
       /\ lcd.cmd = "COLMOD" /\ numArgs <= 1 /\ ms # 0
       /\ numArgs = 0 => lcd.colmod = "16-bit"
  /\ Place \in InTables /\ list # "Rcmd1" => lcd.awake = TRUE /\ lcd.colmod = "16-bit"
  /\ Place = "args" /\ list # "Rcmd1" => lcd.cmd # "COLMOD"
  /\ Place \in {"command", "args"} /\ list = "Rcmd3" /\ numCommands = 0 => lcd.on = TRUE
  /\ Place \in Oriented => lcd.awake = TRUE /\ lcd.on = TRUE /\ lcd.colmod = "16-bit"
  /\ Place \in AfterSiggen \cup {"siggen"} =>
       lcd = [cs |-> 0, rst |-> 1, cmd |-> "MADCTL", awake |-> TRUE, on |-> TRUE,
              colmod |-> "16-bit", madctl |-> "MX|MV"]

\* Where main() is after the delays that the controller needs.
Timed == {"rst0", "rst1_again", "list", "command"}

\* A command or an edge of RST is followed by its delay before the next one.
WaitInv ==
  /\ Place = "args" =>
       /\ ms = 0 <=> lcd.cmd \notin DOMAIN Wait
       /\ ms # 0 => post_delay(Table(list)[addr + numArgs]) = Wait[lcd.cmd]
  /\ pc = "delay" => return_to \notin Oriented
  /\ pc = "delay" /\ return_to \in Timed => lcd.cmd \in DOMAIN Wait /\ asked = Wait[lcd.cmd]
  /\ pc \in Timed \cup Oriented /\ lcd.cmd \in DOMAIN Wait => waited > (Wait[lcd.cmd] - 1) * PERIOD

LcdInv == TableInv /\ LcdStateInv /\ WaitInv

LEMMA WaitIsNat ==
  ASSUME NEW c \in DOMAIN Wait
  PROVE  Wait[c] \in Nat \ {0} /\ (Wait[c] - 1) * PERIOD \in Int
<1>1. Wait[c] \in Nat \ {0}
  BY WaitsOfCommands
<1> QED
  BY <1>1, DelayAssumption

LEMMA OthersKeepLcdInv ==
  ASSUME DInv, WaitedInv, LcdInv,
         \/ DelayReturns /\ UNCHANGED <<lcdVars, startupVars>>
         \/ Clock \/ CalibrationEnds \/ AdcReady \/ BootClock \/ UNCHANGED vars
         \/ \E down \in SUBSET BUTTONS : Exception(down)
  PROVE  LcdInv'
<1>1. StaysAt /\ UNCHANGED <<options, listVars, lcd>>
  BY OthersStayAt
<1>2. Place' = Place /\ UNCHANGED <<list, addr, numCommands, numArgs, ms, lcd>>
  BY <1>1 DEF StaysAt, listVars
<1>3. TableInv' /\ LcdStateInv'
  BY <1>2 DEF LcdInv, TableInv, LcdStateInv
<1>4. WaitInv'
  <2>0. waited \in Nat
    BY DEF WaitedInv
  <2>1. CASE DelayReturns /\ UNCHANGED lcdVars
    <3>1. /\ pc = "delay" /\ TIMING_DELAY = 0 /\ pc' = return_to /\ return_to # "delay"
          /\ UNCHANGED <<return_to, asked, waited>>
      BY <2>1 DEF DelayReturns, At, delay_over, cpuVars, timeVars, lcdVars, DInv, MaskedWhere
    <3>2. asked > 0 => elapsed > (asked - 1) * PERIOD
      BY <3>1, DelayAssumption DEF DInv, Counted, Types
    <3>3. asked > 0 => waited > (asked - 1) * PERIOD
      BY <2>0, <3>1, <3>2, DelayAssumption DEF WaitedInv, DInv, Types
    <3>4. return_to \notin Oriented
      BY <3>1 DEF LcdInv, WaitInv, Timed
    <3>5. return_to \in Timed => lcd.cmd \in DOMAIN Wait /\ asked = Wait[lcd.cmd]
      BY <3>1 DEF LcdInv, WaitInv
    <3>6. ASSUME return_to \in Timed
          PROVE  waited' > (Wait[lcd.cmd] - 1) * PERIOD
      BY <3>1, <3>3, <3>5, <3>6, WaitIsNat
    <3>7. pc' = return_to /\ pc' # "delay" /\ (pc' \in Timed \cup Oriented => return_to \in Timed)
      BY <3>1, <3>4
    <3> QED
      BY <1>2, <3>6, <3>7, Zenon DEF LcdInv, WaitInv
  <2>2. CASE UNCHANGED <<pc, return_to, asked>> /\ waited' >= waited /\ waited' \in Nat
    <3>1. \A b \in Int : waited > b => waited' > b
      BY <2>0, <2>2
    <3>2. lcd.cmd \in DOMAIN Wait => (Wait[lcd.cmd] - 1) * PERIOD \in Int
      BY WaitIsNat, Zenon
    <3> QED
      BY <1>2, <2>2, <3>1, <3>2, Zenon DEF LcdInv, WaitInv, Timed
  <2>3. CASE \/ Clock \/ CalibrationEnds \/ AdcReady \/ BootClock \/ UNCHANGED vars
             \/ \E down \in SUBSET BUTTONS : Exception(down)
    <3>1. UNCHANGED <<pc, return_to, asked>>
      BY <2>3 DEF Clock, SysTickClock, CalibrationEnds, AdcReady, BootClock, vars,
                  Exception, SysTickException, delayVars, cpuVars, timeVars, lcdVars
    <3>2. CASE Clock
      BY <2>0, <2>2, <3>1, <3>2 DEF Clock
    <3>3. CASE \/ CalibrationEnds \/ AdcReady \/ BootClock \/ UNCHANGED vars
               \/ \E down \in SUBSET BUTTONS : Exception(down)
      <4>1. waited' = waited
        BY <3>3 DEF CalibrationEnds, AdcReady, BootClock, vars, Exception, lcdVars
      <4> QED
        BY <2>0, <2>2, <3>1, <4>1
    <3> QED
      BY <2>3, <3>2, <3>3, Zenon
  <2> QED
    BY <2>1, <2>3, Zenon
<1> QED
  BY <1>3, <1>4 DEF LcdInv

LEMMA MainKeepsLcdInv ==
  ASSUME LcdInv,
         \/ SetSysClock \/ StartSysTick \/ LcdSetup \/ SiggenSetup \/ AdcRegulator
         \/ StartCalibration \/ EnableAdc \/ StartTim15 \/ EnterLoop
  PROVE  LcdInv'
<1> USE DEF Place, ResetLcd, InTables, Oriented, AfterSiggen, LcdInv, TableInv, LcdStateInv, WaitInv, Timed,
            At, lcdVars
<1>1. CASE LcdSetup
  BY <1>1 DEF LcdSetup, Sends, delay_ms
<1>2. CASE AdcRegulator
  BY <1>2 DEF AdcRegulator, delay_ms
<1>3. CASE SetSysClock \/ StartSysTick \/ SiggenSetup
  BY <1>3 DEF SetSysClock, StartSysTick, SiggenSetup
<1>4. CASE StartCalibration \/ EnableAdc \/ StartTim15 \/ EnterLoop
  BY <1>4 DEF StartCalibration, EnableAdc, StartTim15, EnterLoop
<1> QED
  BY <1>1, <1>2, <1>3, <1>4

-----------------------------------------------------------------------------
LEMMA FieldSet ==
  ASSUME NEW l, NEW s, NEW r, NEW x, NEW w, NEW o, NEW p, NEW m, NEW b,
         l = State(s, r, x, w, o, p, m)
  PROVE  /\ [l EXCEPT !.cmd = b] = State(s, r, b, w, o, p, m)
         /\ [l EXCEPT !.awake = b] = State(s, r, x, b, o, p, m)
         /\ [l EXCEPT !.on = b] = State(s, r, x, w, b, p, m)
         /\ [l EXCEPT !.cs = s] = l
  BY DEF State

\* What a command and a data byte do to a controller that listens.
LEMMA CommandSent ==
  ASSUME NEW l, NEW c, Selected(l)
  PROVE  /\ Selected(Command(l, c)) /\ Command(l, c).cmd = c
         /\ c # "SWRESET" => /\ Command(l, c).colmod = l.colmod
                             /\ l.awake = TRUE => Command(l, c).awake = TRUE
                             /\ l.on = TRUE => Command(l, c).on = TRUE
         /\ c = "SLPOUT" => Command(l, c).awake = TRUE
         /\ c = "DISPON" => Command(l, c).on = TRUE
<1> DEFINE x == l.cmd
           w == l.awake
           o == l.on
           p == l.colmod
           m == l.madctl
           yes == TRUE
<1>1. Listening(l)
  BY DEF Selected, State, Listening
<1>2. CASE c = "SWRESET"
  BY <1>1, <1>2 DEF Command, Selected, State, LcdReset
<1>3. CASE c = "SLPOUT"
  <2>1. Command(l, c) = [l EXCEPT !.cmd = c, !.awake = yes]
    BY <1>1, <1>3 DEF Command
  <2>2. l = State(0, 1, x, w, o, p, m)
    BY DEF Selected
  <2> DEFINE k == Command(l, c)
             j == [l EXCEPT !.cmd = c]
  <2> HIDE DEF w, o, p, m, x, yes, k
  <2>3. k = State(0, 1, c, yes, o, p, m)
    <3>1. k = [j EXCEPT !.awake = yes]
      BY <2>1 DEF k
    <3>2. j = State(0, 1, c, w, o, p, m)
      BY <2>2 DEF State
    <3> HIDE DEF j
    <3> QED
      BY <3>1, <3>2 DEF State
  <2>4. k.cmd = c /\ k.awake = yes /\ k.on = o /\ k.colmod = p /\ k.madctl = m
    BY <2>3 DEF State
  <2>5. Selected(k)
    BY <2>3, <2>4, Zenon DEF Selected
  <2> QED
    BY <1>3, <2>4, <2>5 DEF k, w, o, p, yes
<1>4. CASE c = "DISPON"
  <2>1. Command(l, c) = [l EXCEPT !.cmd = c, !.on = yes]
    BY <1>1, <1>4 DEF Command
  <2>2. l = State(0, 1, x, w, o, p, m)
    BY DEF Selected
  <2> DEFINE k == Command(l, c)
             j == [l EXCEPT !.cmd = c]
  <2> HIDE DEF w, o, p, m, x, yes, k
  <2>3. k = State(0, 1, c, w, yes, p, m)
    <3>1. k = [j EXCEPT !.on = yes]
      BY <2>1 DEF k
    <3>2. j = State(0, 1, c, w, o, p, m)
      BY <2>2 DEF State
    <3> HIDE DEF j
    <3> QED
      BY <3>1, <3>2 DEF State
  <2>4. k.cmd = c /\ k.awake = w /\ k.on = yes /\ k.colmod = p /\ k.madctl = m
    BY <2>3 DEF State
  <2>5. Selected(k)
    BY <2>3, <2>4, Zenon DEF Selected
  <2> QED
    BY <1>4, <2>4, <2>5 DEF k, w, o, p, yes
<1>5. CASE c \notin {"SWRESET", "SLPOUT", "DISPON"}
  <2>1. Command(l, c) = [l EXCEPT !.cmd = c]
    BY <1>1, <1>5, SMTT(40) DEF Command
  <2> QED
    BY <1>5, <2>1 DEF Selected, State
<1> QED
  BY <1>2, <1>3, <1>4, <1>5

LEMMA DataSent ==
  ASSUME NEW l, NEW d, Selected(l)
  PROVE  /\ Selected(Data(l, d)) /\ Data(l, d).cmd = l.cmd
         /\ Data(l, d).awake = l.awake /\ Data(l, d).on = l.on
         /\ Data(l, d).colmod = IF l.cmd = "COLMOD" THEN d ELSE l.colmod
         /\ Data(l, d).madctl = IF l.cmd = "MADCTL" THEN d ELSE l.madctl
<1>1. Listening(l)
  BY DEF Selected, State, Listening
<1>2. CASE l.cmd = "MADCTL"
  <2>1. Data(l, d) = [l EXCEPT !.madctl = d]
    BY <1>1, <1>2 DEF Data
  <2> QED
    BY <1>2, <2>1 DEF Selected, State
<1>3. CASE l.cmd = "COLMOD"
  <2>1. Data(l, d) = [l EXCEPT !.colmod = d]
    BY <1>1, <1>3 DEF Data
  <2> QED
    BY <1>3, <2>1 DEF Selected, State
<1>4. CASE l.cmd \notin {"MADCTL", "COLMOD"}
  <2>1. Data(l, d) = l
    BY <1>1, <1>4, SMTT(40) DEF Data
  <2> QED
    BY <1>4, <2>1
<1> QED
  BY <1>2, <1>3, <1>4

\* initR before the tables.
LEMMA ResetKeepsLcdInv ==
  ASSUME LcdInv, InitR \/ SelectChip \/ RstHigh \/ RstLow \/ RstHighAgain
  PROVE  LcdInv'
<1> USE DEF Place, ResetLcd, InTables, Oriented, AfterSiggen, LcdInv, TableInv, LcdStateInv, WaitInv, Timed,
            At, lcdVars, listVars
<1>0. [LcdReset EXCEPT !.cs = 0] = LcdReset
  <2>1. LcdReset = State(0, 0, "reset", FALSE, FALSE, "", "")
    BY Zenon DEF LcdReset, State
  <2> QED
    BY <2>1, FieldSet, ZenonT(40)
<1>1. CASE InitR
  BY <1>1 DEF InitR, delay_ms
<1>2. CASE SelectChip
  <2>1. lcd' = [LcdReset EXCEPT !.cs = 0]
    BY <1>2 DEF SelectChip, Sends, lcd_cs0
  <2> QED
    BY <1>0, <1>2, <2>1 DEF SelectChip
<1>3. CASE RstHigh
  <2>1. /\ pc' = "delay" /\ return_to' = "rst0" /\ asked' = 500
        /\ lcd' = [LcdReset EXCEPT !.rst = 1]
    BY <1>3 DEF RstHigh, Sends, delay_ms, lcd_rst1
  <2>2. lcd'.cmd = "reset"
    BY <2>1 DEF LcdReset
  <2> QED
    BY <2>1, <2>2, WaitsOfCommands
<1>4. CASE RstLow
  <2>1. lcd.cs = 0
    BY <1>4 DEF RstLow, LcdReset
  <2>2. lcd' = [LcdReset EXCEPT !.cs = 0]
    BY <1>4, <2>1 DEF RstLow, Sends, lcd_rst0
  <2>3. pc' = "delay" /\ return_to' = "rst1_again" /\ asked' = 500
    BY <1>4 DEF RstLow, delay_ms
  <2>4. lcd' = LcdReset /\ lcd'.cmd = "reset"
    BY <1>0, <2>2 DEF LcdReset
  <2> QED
    BY <2>3, <2>4, WaitsOfCommands
<1>5. CASE RstHighAgain
  <2>1. /\ pc' = "delay" /\ return_to' = "list" /\ list' = "Rcmd1" /\ addr' = 1 /\ asked' = 500
        /\ lcd' = [LcdReset EXCEPT !.rst = 1]
    BY <1>5 DEF RstHighAgain, Sends, delay_ms, lcd_rst1
  <2>2. Selected(lcd') /\ lcd'.cmd = "reset"
    BY <2>1 DEF Selected, State, LcdReset
  <2> QED
    BY <2>1, <2>2, WaitsOfCommands DEF Tables
<1> QED
  BY <1>1, <1>2, <1>3, <1>4, <1>5

LEMMA ListBeginsKeepsLcdInv ==
  ASSUME LcdInv, ListBegins
  PROVE  LcdInv'
<1>1. /\ Place = "list" /\ pc = "list" /\ Place' = "command" /\ pc' = "command"
      /\ addr' = 2 /\ numCommands' = Table(list)[1] /\ list \in Tables
      /\ UNCHANGED <<list, lcd, waited>>
  BY DEF ListBegins, LcdInv, TableInv, At, Item, Place, InTables
<1>2. CommandAt(list, addr', numCommands') /\ (list = "Rcmd1" => numCommands' = 15)
                                     /\ (list = "Rcmd3" => numCommands' = 4)
  BY <1>1, TableSizes DEF CommandAt, Tables
<1>3. TableInv'
  BY <1>1, <1>2 DEF TableInv
<1>4. LcdStateInv'
  BY <1>1, <1>2, SMTT(40) DEF LcdInv, LcdStateInv, ResetLcd, InTables, Oriented, AfterSiggen
<1>5. WaitInv'
  BY <1>1 DEF LcdInv, WaitInv, Timed, Oriented
<1> QED
  BY <1>3, <1>4, <1>5 DEF LcdInv

LEMMA SendCommandKeepsLcdInv ==
  ASSUME LcdInv, SendCommand
  PROVE  LcdInv'
<1> DEFINE cmd == Table(list)[addr]
           args == Arguments(list, addr)
           flag == DelayFlag(list, addr)
<1>1. /\ Place = "command" /\ Place' = "args" /\ pc' = "args" /\ list \in Tables
      /\ CommandAt(list, addr, numCommands) /\ numCommands # 0
      /\ addr' = addr + 2 /\ numCommands' = numCommands - 1 /\ numArgs' = args /\ ms' = flag
      /\ list' = list /\ lcd' = Command(lcd, cmd)
  BY DEF SendCommand, Sends, LcdInv, TableInv, At, Item, Place, InTables, Arguments, DelayFlag
<1>2. Reads(list, addr, numCommands)
  BY <1>1, TablesAreRead
<1>3. addr \in Nat /\ numCommands \in Nat /\ Consistent(list, addr, numCommands, cmd, args, flag)
  BY <1>2 DEF Reads
<1> HIDE DEF cmd, args, flag
<1>4. TableInv'
  BY <1>1, <1>3 DEF Consistent, TableInv, InTables
<1>5. Selected(lcd)
  BY <1>1 DEF LcdInv, LcdStateInv, InTables
<1>6. /\ Selected(lcd') /\ lcd'.cmd = cmd
      /\ cmd # "SWRESET" => /\ lcd'.colmod = lcd.colmod
                            /\ lcd.awake = TRUE => lcd'.awake = TRUE
      /\ cmd = "SLPOUT" => lcd'.awake = TRUE
      /\ cmd = "DISPON" => lcd'.on = TRUE
  BY <1>1, <1>5, CommandSent
<1>7. LcdStateInv'
  <2>1. list = "Rcmd1" /\ numCommands' <= 13 => lcd'.awake = TRUE
    BY <1>1, <1>3, <1>6 DEF LcdInv, LcdStateInv, Consistent
  <2>2. list = "Rcmd1" /\ numCommands' = 0 => lcd'.cmd = "COLMOD" /\ numArgs' = 1 /\ ms' # 0
    <3>1. /\ list = "Rcmd1" /\ numCommands = 1 => cmd = "COLMOD" /\ args = 1
          /\ flag = 0 => cmd \notin DOMAIN Wait
      BY <1>3, Zenon DEF Consistent
    <3>2. numCommands' = 0 => numCommands = 1
      BY <1>1, <1>3
    <3>3. "COLMOD" \in DOMAIN Wait
      BY WaitsOfCommands, Zenon
    <3> QED
      BY <1>1, <1>6, <3>1, <3>2, <3>3, Zenon
  <2>3. list # "Rcmd1" =>
          lcd'.awake = TRUE /\ lcd'.colmod = "16-bit" /\ lcd'.cmd # "COLMOD"
    BY <1>1, <1>3, <1>6, SMTT(40) DEF LcdInv, LcdStateInv, InTables, Consistent
  <2>4. list = "Rcmd3" /\ numCommands' = 0 => lcd'.on = TRUE
    <3>1. list = "Rcmd3" /\ numCommands = 1 => cmd = "DISPON"
      BY <1>3, Zenon DEF Consistent
    <3>2. numCommands' = 0 => numCommands = 1
      BY <1>1, <1>3
    <3> QED
      BY <1>6, <3>1, <3>2, Zenon
  <2> QED
    BY <1>1, <1>6, <2>1, <2>2, <2>3, <2>4
       DEF LcdStateInv, ResetLcd, InTables, Oriented, AfterSiggen
<1>8. WaitInv'
  <2>1. addr' + numArgs' = addr + 2 + args
    BY <1>1, <1>3
  <2> QED
    BY <1>1, <1>3, <1>6, <2>1 DEF WaitInv, Timed, Oriented, Consistent
<1> QED
  BY <1>4, <1>7, <1>8 DEF LcdInv

LEMMA SendArgumentKeepsLcdInv ==
  ASSUME LcdInv, SendArgument
  PROVE  LcdInv'
<1>1. /\ Place = "args" /\ Place' = "args" /\ pc' = "args" /\ list \in Tables
      /\ addr \in Nat /\ numArgs \in Nat \ {0} /\ addr' = addr + 1 /\ numArgs' = numArgs - 1
      /\ CommandAt(list, addr + numArgs + (IF ms = 0 THEN 0 ELSE 1), numCommands)
      /\ UNCHANGED <<list, numCommands, ms>> /\ lcd' = Data(lcd, Table(list)[addr])
  BY DEF SendArgument, Sends, LcdInv, TableInv, At, Item, Place, InTables
<1>2. addr' + numArgs' = addr + numArgs /\ numArgs' \in Nat /\ addr' \in Nat
  BY <1>1
<1>3. TableInv'
  BY <1>1, <1>2 DEF TableInv, InTables
<1>4. Selected(lcd)
  BY <1>1, SMTT(40) DEF LcdInv, LcdStateInv, InTables
<1>5. /\ Selected(lcd') /\ lcd'.cmd = lcd.cmd /\ lcd'.awake = lcd.awake /\ lcd'.on = lcd.on
      /\ lcd'.colmod = IF lcd.cmd = "COLMOD" THEN Table(list)[addr] ELSE lcd.colmod
  BY <1>1, <1>4, DataSent
<1>6. list = "Rcmd1" /\ numCommands = 0 =>
        lcd'.cmd = "COLMOD" /\ numArgs' = 0 /\ ms # 0 /\ lcd'.colmod = "16-bit"
  <2> SUFFICES ASSUME list = "Rcmd1", numCommands = 0
               PROVE  lcd'.cmd = "COLMOD" /\ numArgs' = 0 /\ ms # 0 /\ lcd'.colmod = "16-bit"
    OBVIOUS
  <2>0. lcd.cmd = "COLMOD" /\ numArgs <= 1 /\ ms # 0
    BY <1>1, Zenon DEF LcdInv, LcdStateInv
  <2>1. lcd.cmd = "COLMOD" /\ numArgs = 1 /\ ms # 0
    BY <1>1, <2>0
  <2>2. addr = 59
    BY <1>1, <2>1, SMTT(40) DEF CommandAt
  <2>3. Table(list)[addr] = "16-bit"
    BY <2>2, Rcmd1Entries DEF Table
  <2>4. numArgs' = 0
    BY <1>1, <2>1
  <2> QED
    BY <1>5, <2>1, <2>3, <2>4, Zenon
<1>7. LcdStateInv'
  BY <1>1, <1>5, <1>6, SMTT(40) DEF LcdInv, LcdStateInv, ResetLcd, InTables, Oriented, AfterSiggen
<1>8. WaitInv'
  BY <1>1, <1>2, <1>5 DEF LcdInv, WaitInv, Timed, Oriented
<1> QED
  BY <1>3, <1>7, <1>8 DEF LcdInv

LEMMA CommandEndsKeepsLcdInv ==
  ASSUME LcdInv, CommandDelay \/ CommandDone
  PROVE  LcdInv'
<1>1. /\ Place = "args" /\ Place' = "command" /\ list \in Tables /\ numArgs = 0 /\ addr \in Nat
      /\ addr' = addr + (IF ms = 0 THEN 0 ELSE 1)
      /\ CommandAt(list, addr + numArgs + (IF ms = 0 THEN 0 ELSE 1), numCommands)
      /\ UNCHANGED <<list, numCommands, lcd>>
  BY SMTT(40) DEF CommandDelay, CommandDone, delay_ms, LcdInv, TableInv, At, Place, InTables, lcdVars, listVars
<1>2. TableInv'
  BY <1>1 DEF TableInv, InTables
<1>3. LcdStateInv'
  BY <1>1, SMTT(40) DEF LcdInv, LcdStateInv, ResetLcd, InTables, Oriented, AfterSiggen
<1>4. CASE CommandDelay
  <2>1. pc' = "delay" /\ return_to' = "command" /\ asked' = post_delay(Table(list)[addr]) /\ ms # 0
    BY <1>4, SMTT(40) DEF CommandDelay, delay_ms, Item
  <2>2. lcd.cmd \in DOMAIN Wait /\ asked' = Wait[lcd.cmd]
    <3>1. addr + numArgs = addr
      BY <1>1
    <3> QED
      BY <1>1, <2>1, <3>1, Zenon DEF LcdInv, WaitInv, Timed
  <2> QED
    BY <1>1, <1>2, <1>3, <2>1, <2>2 DEF LcdInv, WaitInv, Timed, Oriented
<1>5. CASE CommandDone
  <2>1. pc' = "command" /\ lcd.cmd \notin DOMAIN Wait
    BY <1>1, <1>5 DEF CommandDone, LcdInv, WaitInv, Timed
  <2> QED
    BY <1>1, <1>2, <1>3, <2>1, Zenon DEF LcdInv, WaitInv, Timed
<1> QED
  BY <1>4, <1>5

LEMMA ListEndsKeepsLcdInv ==
  ASSUME LcdInv, ListEnds
  PROVE  LcdInv'
<1>1. /\ Place = "command" /\ pc = "command" /\ list \in Tables /\ numCommands = 0
      /\ list' = next_list /\ UNCHANGED <<numCommands, numArgs, ms, lcd, waited>>
      /\ IF next_list # "" THEN addr' = 1 /\ pc' = "list" ELSE pc' = "madctl"
  BY DEF ListEnds, LcdInv, TableInv, At, Place, InTables
<1>2. CASE list = "Rcmd3"
  <2>1. pc' = "madctl" /\ Place' = "madctl"
    BY <1>1, <1>2 DEF next_list, Place
  <2> QED
    BY <1>1, <1>2, <2>1 DEF LcdInv, TableInv, LcdStateInv, WaitInv, Timed, ResetLcd, InTables, Oriented, AfterSiggen
<1>3. CASE list # "Rcmd3"
  <2>1. list' \in Tables \ {"Rcmd1"} /\ pc' = "list" /\ Place' = "list" /\ addr' = 1
    BY <1>1, <1>3 DEF next_list, Tables, Place
  <2>2. Selected(lcd) /\ lcd.awake = TRUE /\ lcd.colmod = "16-bit"
    <3>1. Selected(lcd)
      BY <1>1 DEF LcdInv, LcdStateInv, InTables
    <3>2. CASE list = "Rcmd1"
      <4>1. Place = "command" /\ numCommands = 0
        BY DEF ListEnds, At, Place
      <4>2. numCommands <= 13 /\ lcd.colmod = "16-bit"
        BY <3>2, <4>1 DEF LcdInv, LcdStateInv
      <4>3. lcd.awake = TRUE
        BY <3>2, <4>1, <4>2, Zenon DEF LcdInv, LcdStateInv
      <4> QED
        BY <3>1, <4>2, <4>3
    <3>3. CASE list # "Rcmd1"
      BY <1>1, <3>1, <3>3 DEF LcdInv, LcdStateInv, InTables
    <3> QED
      BY <3>2, <3>3
  <2>3. TableInv'
    BY <2>1 DEF TableInv
  <2>4. LcdStateInv'
    BY <1>1, <2>1, <2>2 DEF LcdStateInv, ResetLcd, InTables, Oriented, AfterSiggen
  <2>5. WaitInv'
    BY <1>1, <2>1 DEF LcdInv, WaitInv, Timed, Oriented
  <2> QED
    BY <2>3, <2>4, <2>5 DEF LcdInv
<1> QED
  BY <1>2, <1>3

\* initR after the tables, and setRotation.
LEMMA OrientKeepsLcdInv ==
  ASSUME LcdInv, BlackTab \/ SetRotation
  PROVE  LcdInv'
<1> DEFINE c == Command(lcd, "MADCTL")
<1>1. Place \in Oriented /\ pc \in Oriented
  BY DEF BlackTab, SetRotation, At, Place, Oriented
<1>2. Selected(lcd) /\ lcd.awake = TRUE /\ lcd.on = TRUE /\ lcd.colmod = "16-bit"
  BY <1>1 DEF LcdInv, LcdStateInv
<1>3. /\ Selected(c) /\ c.cmd = "MADCTL" /\ c.awake = TRUE /\ c.on = TRUE /\ c.colmod = "16-bit"
  BY <1>2, CommandSent
<1> HIDE DEF c
<1>4. ASSUME NEW d
      PROVE  /\ Selected(Data(c, d)) /\ Data(c, d).cmd = "MADCTL" /\ Data(c, d).awake = TRUE
             /\ Data(c, d).on = TRUE /\ Data(c, d).colmod = "16-bit" /\ Data(c, d).madctl = d
  BY <1>3, DataSent
<1>5. CASE BlackTab
  <2>1. /\ Place' = "rotate" /\ pc' = "rotate"
        /\ UNCHANGED <<lcd, waited>> \/ lcd' = Data(c, "MX|MY")
    BY <1>5 DEF BlackTab, Sends, Place, c
  <2>2. lcd'.cmd \in DOMAIN Wait => waited' > (Wait[lcd'.cmd] - 1) * PERIOD
    <3>1. lcd.cmd \in DOMAIN Wait => waited > (Wait[lcd.cmd] - 1) * PERIOD
      BY <1>1 DEF LcdInv, WaitInv
    <3>2. "MADCTL" \notin DOMAIN Wait
      BY WaitsOfCommands
    <3>3. Data(c, "MX|MY").cmd = "MADCTL"
      BY <1>4, Zenon
    <3>4. CASE UNCHANGED <<lcd, waited>>
      BY <3>1, <3>4
    <3>5. CASE lcd' = Data(c, "MX|MY")
      BY <3>2, <3>3, <3>5
    <3> QED
      BY <2>1, <3>4, <3>5
  <2>3. Selected(lcd') /\ lcd'.awake = TRUE /\ lcd'.on = TRUE /\ lcd'.colmod = "16-bit"
    BY <1>2, <1>4, <2>1, ZenonT(40)
  <2> QED
    BY <2>1, <2>2, <2>3 DEF LcdInv, TableInv, LcdStateInv, WaitInv, Timed, ResetLcd, InTables, Oriented, AfterSiggen
<1>6. CASE SetRotation
  <2>1. Place' = "siggen" /\ pc' = "siggen" /\ lcd' = Data(c, "MX|MV")
    BY <1>6 DEF SetRotation, Sends, rotation_3, Place, c
  <2> DEFINE yes == TRUE
  <2>2. /\ Selected(lcd') /\ lcd'.cmd = "MADCTL" /\ lcd'.awake = yes /\ lcd'.on = yes
        /\ lcd'.colmod = "16-bit" /\ lcd'.madctl = "MX|MV"
    BY <1>4, <2>1
  <2> HIDE DEF yes
  <2>3. lcd' = State(0, 1, "MADCTL", yes, yes, "16-bit", "MX|MV")
    BY <2>2 DEF Selected
  <2>4. lcd' = [cs |-> 0, rst |-> 1, cmd |-> "MADCTL", awake |-> TRUE, on |-> TRUE,
                colmod |-> "16-bit", madctl |-> "MX|MV"]
    BY <2>3, Zenon DEF State, yes
  <2> QED
    BY <2>1, <2>4 DEF LcdInv, TableInv, LcdStateInv, WaitInv, Timed, ResetLcd, InTables, Oriented, AfterSiggen
<1> QED
  BY <1>5, <1>6

\* ST7735.c: in every state of the start-up commandList is where its tables say, and the
\* controller is as far as the commands sent so far bring it.
THEOREM LcdInvariant == Spec => []LcdInv
<1>1. Init => LcdInv
  BY DEF Init, LcdInv, TableInv, LcdStateInv, WaitInv, Timed, Place, ResetLcd, InTables, Oriented, AfterSiggen
<1>2. DInv /\ WaitedInv /\ LcdInv /\ [Next]_vars => LcdInv'
  <2> SUFFICES ASSUME DInv, WaitedInv, LcdInv, [Next]_vars
               PROVE  LcdInv'
    OBVIOUS
  <2>1. CASE st7735_init
    BY <2>1, ResetKeepsLcdInv, ListBeginsKeepsLcdInv, SendCommandKeepsLcdInv, SendArgumentKeepsLcdInv,
       CommandEndsKeepsLcdInv, ListEndsKeepsLcdInv, OrientKeepsLcdInv, SMTT(40) DEF st7735_init
  <2> QED
    BY <2>1, MainKeepsLcdInv, OthersKeepLcdInv DEF Next, Main
<1> QED
  BY <1>1, <1>2, StartupInvariant, WaitedInvariant, PTL DEF Spec

LEMMA CommandsInTables ==
  ASSUME NEW l \in Tables, NEW a, NEW n, CommandAt(l, a, n)
  PROVE  /\ Size(l) \in Nat /\ a \in Nat /\ n \in Nat /\ a <= Size(l) + 1
         /\ n > 0 => a < Size(l)
         /\ n = 0 => a = Size(l) + 1
<1>1. CASE l = "Rcmd1"
  BY <1>1, TableSizes DEF CommandAt
<1>2. CASE l \in {"Rcmd2green", "Rcmd2red"}
  BY <1>2, TableSizes DEF CommandAt
<1>3. CASE l = "Rcmd3"
  BY <1>3, TableSizes DEF CommandAt
<1> QED
  BY <1>1, <1>2, <1>3 DEF Tables

\* ST7735.c:173-190: for every length of a period and whatever the buttons do, commandList
\* reads each table to its last byte and no further.
THEOREM TablesAreReadExactly == Spec => []TablesReadExactly
<1>1. LcdInv => TablesReadExactly
  <2> SUFFICES ASSUME LcdInv
               PROVE  /\ pc = "list" => addr <= Size(list)
                      /\ pc = "command" /\ numCommands > 0 => addr < Size(list)
                      /\ pc = "args" /\ (numArgs > 0 \/ ms # 0) => addr <= Size(list)
                      /\ pc = "command" /\ numCommands = 0 => addr = Size(list) + 1
    BY Zenon DEF Size, TablesReadExactly
  <2>1. CASE pc = "list"
    BY <2>1, TableSizes DEF LcdInv, TableInv, Place, InTables, Tables
  <2>2. CASE pc = "command"
    <3>1. list \in Tables /\ CommandAt(list, addr, numCommands)
      BY <2>2 DEF LcdInv, TableInv, Place, InTables
    <3> QED
      BY <2>2, <3>1, CommandsInTables
  <2>3. CASE pc = "args"
    <3>1. /\ list \in Tables /\ addr \in Nat /\ numArgs \in Nat
          /\ CommandAt(list, addr + numArgs + (IF ms = 0 THEN 0 ELSE 1), numCommands)
      BY <2>3 DEF LcdInv, TableInv, Place, InTables
    <3>2. addr + numArgs + (IF ms = 0 THEN 0 ELSE 1) <= Size(list) + 1
      BY <3>1, CommandsInTables, SMTT(40)
    <3> QED
      BY <2>3, <3>1, <3>2, CommandsInTables
  <2> QED
    BY <2>1, <2>2, <2>3
<1> QED
  BY <1>1, LcdInvariant, PTL

\* ST7735.c:98-101: for every length of a period and every kind of display, no command is sent
\* while the controller does not listen, and nothing it is sent, the last MADCTLs and the edges
\* of RST included, comes before the delay of the command or edge before it is over.
THEOREM LcdHasItsTime == Spec => []LcdGetsItsTime
<1>1. LcdInv => LcdGetsItsTime
  <2> SUFFICES ASSUME LcdInv
               PROVE  LcdGetsItsTime
    OBVIOUS
  <2>1. Commanding => pc \in {"command", "madctl", "rotate"}
    BY DEF Commanding
  <2>2. Commanding => Selected(lcd)
    BY <2>1 DEF LcdInv, LcdStateInv, Place, InTables, Oriented
  <2>3. Commanding => Listening(lcd)
    BY <2>2 DEF Selected, State, Listening
  <2>4. Commanding \/ MovingRst => pc \in Timed \cup Oriented
    BY <2>1 DEF MovingRst, Timed, Oriented
  <2>5. pc \in Timed \cup Oriented /\ lcd.cmd \in DOMAIN Wait => waited > (Wait[lcd.cmd] - 1) * PERIOD
    BY Zenon DEF LcdInv, WaitInv
  <2> QED
    BY <2>3, <2>4, <2>5, Zenon DEF LcdGetsItsTime
<1> QED
  BY <1>1, LcdInvariant, PTL

\* main.rs:362-385: no button has been pressed and forgotten, however the pins bounce: one
\* that is not reported as changed is up and not being debounced.
Unreported == \A i \in BUTTONS : BUTTON_CHANGED[i] \/ (~BUTTON_STATE[i] /\ BUTTON_DEBOUNCE[i] = 0)

LEMMA TickOfButton ==
  ASSUME NEW down, systick_handler(down), NEW i \in BUTTONS
  PROVE  /\ BUTTON_STATE'[i] = IF i \in Flipped(down) THEN ~BUTTON_STATE[i] ELSE BUTTON_STATE[i]
         /\ BUTTON_DEBOUNCE'[i] = CASE i \in Flipped(down)    -> DEBOUNCE
                                    [] BUTTON_DEBOUNCE[i] > 0 -> BUTTON_DEBOUNCE[i] - 1
                                    [] OTHER                  -> 0
  BY Zenon DEF systick_handler

LEMMA TickKeepsUnreported ==
  ASSUME NEW down, Unreported, systick_handler(down)
  PROVE  Unreported'
<1> SUFFICES ASSUME NEW i \in BUTTONS
             PROVE  BUTTON_CHANGED'[i] \/ (~BUTTON_STATE'[i] /\ BUTTON_DEBOUNCE'[i] = 0)
  BY DEF Unreported
<1>1. CASE i \in Flipped(down) \/ BUTTON_CHANGED[i]
  BY <1>1 DEF systick_handler
<1>2. CASE i \notin Flipped(down) /\ ~BUTTON_CHANGED[i]
  <2>1. ~BUTTON_STATE[i] /\ BUTTON_DEBOUNCE[i] = 0
    BY <1>2 DEF Unreported
  <2>2. BUTTON_DEBOUNCE'[i] = 0
    BY <1>2, <2>1, TickOfButton
  <2> QED
    BY <1>2, <2>1, <2>2, TickOfButton, Zenon
<1> QED
  BY <1>1, <1>2

\* main.rs:362-385: throughout the start-up, the SysTick handler reports every change of a button.
THEOREM ButtonsUnreported == Spec => []Unreported
<1>1. Init => Unreported
  BY DEF Init, DelayInit, Unreported
<1>2. Unreported /\ [Next]_vars => Unreported'
  <2> SUFFICES ASSUME Unreported, [Next]_vars
               PROVE  Unreported'
    OBVIOUS
  <2>1. ASSUME NEW down \in SUBSET BUTTONS, Exception(down)
        PROVE  Unreported'
    BY <2>1, TickKeepsUnreported DEF Exception, SysTickException
  <2>2. CASE UNCHANGED buttonVars
    BY <2>2 DEF Unreported, buttonVars
  <2>3. CASE Main
    <3>1. CASE st7735_init
      BY <2>2, <2>3, <3>1, ZenonT(40) DEF st7735_init, InitR, SelectChip, RstHigh, RstLow, RstHighAgain, ListBegins,
           SendCommand, SendArgument, CommandDelay, CommandDone, ListEnds, BlackTab, SetRotation,
           delay_ms, timeVars
    <3> QED
      BY <2>2, <2>3, <3>1, SMTT(40) DEF Main, SetSysClock, StartSysTick, LcdSetup, SiggenSetup, AdcRegulator,
           StartCalibration, EnableAdc, StartTim15, EnterLoop, DelayReturns, delay_ms, timeVars
  <2>4. CASE Clock \/ CalibrationEnds \/ AdcReady \/ BootClock \/ UNCHANGED vars
    BY <2>2, <2>4 DEF Clock, SysTickClock, CalibrationEnds, AdcReady, BootClock, vars, delayVars, timeVars
  <2> QED
    BY <2>1, <2>3, <2>4 DEF Next
<1> QED
  BY <1>1, <1>2, PTL DEF Spec

\* main.rs:149-171: main() enters its loop with interrupts enabled and SysTick ticking, no
\* delay running, no press lost, LD4 lit, the signal generator and TIM15 running and the
\* display awake, on and turned, whatever display it is and however long a period is.
THEOREM LoopStartsReady == Spec => []ReadyForLoop
<1>1. DInv /\ MainInv /\ LcdInv /\ Unreported => ReadyForLoop
  BY DEF DInv, MaskedWhere, Masked, MainInv, Place, AfterSiggen, LcdInv, LcdStateInv, Unreported, ReadyForLoop
<1> QED
  BY <1>1, StartupInvariant, MainInvariant, LcdInvariant, ButtonsUnreported, PTL
=============================================================================
