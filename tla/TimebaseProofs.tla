--------------------------- MODULE TimebaseProofs ---------------------------
(***************************************************************************)
(* Proofs about Timebase for every set of rates and every speed of CPU,    *)
(* timer and ADC, under ArrsFit or RatesFit where a theorem says so.       *)
(***************************************************************************)
EXTENDS Timebase, TLAPS

(* How TIM15 counts.                                                       *)

\* Counting in two stages: a full prescaler is one count more.
LEMMA TwoStageCount ==
  ASSUME NEW c \in Nat, NEW p \in Nat
  PROVE  (c + 1) * (p + 1) = c * (p + 1) + p + 1
  OBVIOUS

\* A clock that does not end the period moves the two counters one clock on.
LEMMA CountsOn ==
  ASSUME TimerTypeOK, CounterBelowArr, Clock, ~Expires
  PROVE  /\ cnt' \in 0 .. WRAP - 1 /\ cnt' <= arrShadow /\ pcnt' \in 0 .. pscShadow
         /\ arrShadow' = arrShadow /\ pscShadow' = pscShadow /\ arr' = arr /\ psc' = psc
         /\ cnt' * (pscShadow + 1) + pcnt' = cnt * (pscShadow + 1) + pcnt + 1
<1> USE TimerAssumption
<1>1. /\ pcnt' = IF pcnt = pscShadow THEN 0 ELSE pcnt + 1
      /\ cnt' = IF pcnt = pscShadow THEN (cnt + 1) % WRAP ELSE cnt
      /\ arrShadow' = arrShadow /\ pscShadow' = pscShadow /\ arr' = arr /\ psc' = psc
  BY DEF Clock
<1>2. /\ arrShadow \in 0 .. WRAP - 1 /\ cnt \in 0 .. WRAP - 1 /\ cnt <= arrShadow
      /\ pscShadow \in Nat /\ pcnt \in 0 .. pscShadow
      /\ ~(pcnt = pscShadow /\ cnt = arrShadow)
  BY DEF TimerTypeOK, CounterBelowArr, Expires
<1>3. CASE pcnt = pscShadow
  <2>1. cnt + 1 \in 0 .. WRAP - 1 /\ cnt + 1 <= arrShadow
    BY <1>2, <1>3
  <2>2. cnt' = cnt + 1 /\ pcnt' = 0
    BY <1>1, <1>3, <2>1
  <2>3. (cnt + 1) * (pscShadow + 1) = cnt * (pscShadow + 1) + pscShadow + 1
    BY <1>2, TwoStageCount
  <2> DEFINE full == cnt * (pscShadow + 1)
  <2>4. full \in Nat
    BY <1>2
  <2> HIDE DEF full
  <2>5. full + pscShadow + 1 + 0 = full + pcnt + 1
    BY <1>2, <1>3, <2>4
  <2>6. cnt' * (pscShadow + 1) + pcnt' = cnt * (pscShadow + 1) + pcnt + 1
    BY <2>2, <2>3, <2>5 DEF full
  <2> QED
    BY <1>1, <1>2, <2>1, <2>2, <2>6
<1>4. CASE pcnt # pscShadow
  BY <1>1, <1>2, <1>4
<1> QED
  BY <1>3, <1>4

-----------------------------------------------------------------------------
\* What the timer needs of the rates: ARR holds their periods.
ArrsFit == \A r \in Rates : arr_of(r) < WRAP

\* What even spacing needs as well: the ADC keeps up.
RatesFit == ArrsFit /\ \A r \in Rates : CONVERSION <= Period(r)

\* Outside a call the timer works with the registers of the present setting.
SettingLoaded ==
  pc = "idle" => /\ arrShadow = arr_of(rate) /\ arr = arrShadow
                 /\ pscShadow = psc_of(rate) /\ psc = pscShadow

\* Once a conversion has begun under the present setting, timer and ADC agree on
\* how long ago that was.
InStep ==
  pc = "idle" /\ settled =>
    /\ gap = cnt * (pscShadow + 1) + pcnt
    /\ busy = IF gap < CONVERSION THEN CONVERSION - gap ELSE 0

\* A call has written the registers that lie behind it.
Written ==
  /\ pc \in {"psc", "cnt", "egr"} => arr = arr_of(arg)
  /\ pc \in {"cnt", "egr"} => psc = psc_of(arg)

RInv == TypeOK /\ CounterBelowArr /\ SettingLoaded /\ Written

TInv == RInv /\ InStep

-----------------------------------------------------------------------------
\* What the integer divisions of set_timebase leave.
LEMMA DivisionBounds ==
  ASSUME NEW a \in Nat, NEW b \in Nat \ {0}
  PROVE  /\ a \div b \in Nat
         /\ (a \div b) * b <= a
         /\ a < (a \div b + 1) * b
<1>1. a = b * (a \div b) + (a % b) /\ a % b \in 0 .. b - 1 /\ a \div b \in Int
  OBVIOUS
<1>2. a \div b \in Nat
  OBVIOUS
<1> DEFINE q == a \div b
           r == a % b
<1> HIDE DEF q, r
<1>3. a = b * q + r /\ r \in 0 .. b - 1 /\ q \in Nat
  BY <1>1, <1>2 DEF q, r
<1>4. b * q = q * b /\ (q + 1) * b = q * b + b
  BY <1>3
<1>5. q * b <= a /\ a < (q + 1) * b
  BY <1>3, <1>4
<1> QED
  BY <1>2, <1>5 DEF q

\* The registers are natural numbers for the rates main() can ask for.
LEMMA RegisterTypes ==
  ASSUME NEW r \in Rates
  PROVE  arr_of(r) \in Nat /\ psc_of(r) \in {0, PRESCALE - 1} /\ psc_of(r) \in Nat
<1>1. r \in Nat \ {0} /\ arr_of(r) >= 0
  BY TimebaseAssumption, TimebaseRegsAssumption
<1>2. CLOCK \div r \in Nat /\ (CLOCK \div PRESCALE) \div r \in Nat
  BY <1>1, DivisionBounds, TimebaseRegsAssumption
<1>3. arr_of(r) \in Nat
  BY <1>1, <1>2 DEF arr_of
<1>4. psc_of(r) \in {0, PRESCALE - 1} /\ psc_of(r) \in Nat
  BY TimebaseRegsAssumption DEF psc_of
<1> QED
  BY <1>3, <1>4

-----------------------------------------------------------------------------
LEMMA InitTInv ==
  ASSUME ArrsFit, Init
  PROVE  RInv /\ InStep
<1> USE RegisterTypes, TimebaseAssumption, TimebaseRegsAssumption, TimerAssumption
<1>1. arr_of(FirstRate) \in 0 .. WRAP - 1 /\ arr_of(FirstRate) % WRAP = arr_of(FirstRate)
  BY DEF ArrsFit
<1>2. /\ pc = "idle" /\ rate = FirstRate /\ arg = FirstRate /\ callClocks = 0
      /\ arr = arr_of(FirstRate) /\ psc = psc_of(FirstRate) /\ arrShadow = arr
      /\ pscShadow = psc /\ cnt = 0 /\ pcnt = 0
      /\ busy = CONVERSION /\ gap = 0 /\ settled = TRUE
  BY <1>1 DEF Init, Loaded
<1>3. TypeOK
  BY <1>1, <1>2 DEF TypeOK, TimerTypeOK
<1>4. CounterBelowArr /\ SettingLoaded /\ Written
  BY <1>1, <1>2 DEF CounterBelowArr, SettingLoaded, Written
<1>5. InStep
  BY <1>2, <1>3 DEF InStep, TypeOK, TimerTypeOK
<1> QED
  BY <1>3, <1>4, <1>5 DEF RInv

-----------------------------------------------------------------------------
\* One clock of TIM15 in the terms of the proofs.
LEMMA TickSteps ==
  ASSUME RInv, Tick
  PROVE  /\ Left \in 0 .. CONVERSION
         /\ Clock /\ UNCHANGED <<pc, rate, arg>> /\ (settled' <=> settled \/ ConversionDue)
         /\ Expires => /\ arrShadow' = arr /\ pscShadow' = psc /\ cnt' = 0 /\ pcnt' = 0
                       /\ arr' = arr /\ psc' = psc
                       /\ IF Left = 0 THEN busy' = CONVERSION /\ gap' = 0
                                      ELSE busy' = Left /\ gap' = gap + 1
         /\ ~Expires => /\ busy' = Left /\ gap' = gap + 1
                        /\ cnt' \in 0 .. WRAP - 1 /\ cnt' <= arrShadow /\ pcnt' \in 0 .. pscShadow
                        /\ arrShadow' = arrShadow /\ pscShadow' = pscShadow
                        /\ arr' = arr /\ psc' = psc
                        /\ cnt' * (pscShadow + 1) + pcnt' = cnt * (pscShadow + 1) + pcnt + 1
<1>1. TypeOK /\ TimerTypeOK /\ CounterBelowArr
  BY DEF RInv, TypeOK
<1>2. Left \in 0 .. CONVERSION
  BY <1>1, TimebaseRegsAssumption DEF Left, TypeOK
<1>3. Clock /\ UNCHANGED <<pc, rate, arg>> /\ (settled' <=> settled \/ ConversionDue)
  BY <1>1, Zenon DEF Tick, TypeOK
<1>4. ASSUME Expires
      PROVE  /\ arrShadow' = arr /\ pscShadow' = psc /\ cnt' = 0 /\ pcnt' = 0
             /\ arr' = arr /\ psc' = psc
             /\ IF Left = 0 THEN busy' = CONVERSION /\ gap' = 0
                            ELSE busy' = Left /\ gap' = gap + 1
  BY <1>4 DEF Tick, Trigger, Clock, Reload
<1>5. ~Expires => busy' = Left /\ gap' = gap + 1
  BY DEF Tick
<1> QED
  BY <1>1, <1>2, <1>3, <1>4, <1>5, CountsOn

LEMMA TickKeepsRInv ==
  ASSUME RInv, Tick
  PROVE  RInv'
<1> USE TimebaseRegsAssumption, TimerAssumption, TickSteps
<1>1. TypeOK /\ TimerTypeOK /\ CounterBelowArr /\ SettingLoaded /\ Written
  BY DEF RInv, TypeOK
<1>2. settled' \in BOOLEAN
  BY Zenon DEF Tick
<1>3. callClocks' \in 0 .. MaxCall
  BY <1>1, TimebaseAssumption DEF Tick, TypeOK
<1>4. CASE Expires
  <2>1. TypeOK'
    BY <1>1, <1>2, <1>3, <1>4 DEF TypeOK, TimerTypeOK
  <2>2. CounterBelowArr' /\ SettingLoaded' /\ Written'
    BY <1>1, <1>4 DEF CounterBelowArr, SettingLoaded, Written, TimerTypeOK
  <2> QED
    BY <2>1, <2>2 DEF RInv
<1>5. CASE ~Expires
  <2>1. TypeOK'
    BY <1>1, <1>2, <1>3, <1>5 DEF TypeOK, TimerTypeOK
  <2>2. CounterBelowArr' /\ SettingLoaded' /\ Written'
    BY <1>1, <1>5 DEF CounterBelowArr, SettingLoaded, Written
  <2> QED
    BY <2>1, <2>2 DEF RInv
<1> QED
  BY <1>4, <1>5

LEMMA TickKeepsInStep ==
  ASSUME RatesFit, TInv, Tick
  PROVE  InStep'
<1> USE TimebaseRegsAssumption, TimerAssumption
<1>1. RInv /\ TypeOK /\ TimerTypeOK /\ SettingLoaded /\ InStep
  BY DEF TInv, RInv, TypeOK
<1> SUFFICES ASSUME pc' = "idle", settled'
             PROVE  /\ gap' = cnt' * (pscShadow' + 1) + pcnt'
                    /\ busy' = IF gap' < CONVERSION THEN CONVERSION - gap' ELSE 0
  BY DEF InStep
<1>2. pc = "idle" /\ (settled \/ ConversionDue)
  BY <1>1, TickSteps
<1>3. CASE Expires
  <2>1. ASSUME settled
        PROVE  Left = 0
    <3>1. /\ gap = arrShadow * (pscShadow + 1) + pscShadow
          /\ busy = IF gap < CONVERSION THEN CONVERSION - gap ELSE 0
      BY <1>1, <1>2, <1>3, <2>1 DEF InStep, Expires
    <3>2. arrShadow = arr_of(rate) /\ pscShadow = psc_of(rate) /\ rate \in Rates
      BY <1>1, <1>2 DEF SettingLoaded, TypeOK
    <3>3. gap + 1 = (arrShadow + 1) * (pscShadow + 1)
      BY <1>1, <3>1, TwoStageCount DEF TimerTypeOK
    <3>4. CONVERSION <= gap + 1
      BY <3>2, <3>3 DEF RatesFit, Period
    <3> QED
      BY <1>1, <3>1, <3>4 DEF Left, TypeOK
  <2>2. Left = 0
    BY <1>2, <2>1 DEF ConversionDue
  <2> QED
    BY <1>1, <1>3, <2>2, TickSteps DEF TypeOK, TimerTypeOK
<1>4. CASE ~Expires
  <2>1. /\ gap = cnt * (pscShadow + 1) + pcnt
        /\ busy = IF gap < CONVERSION THEN CONVERSION - gap ELSE 0
    BY <1>1, <1>2, <1>4 DEF InStep, ConversionDue
  <2>2. gap' = cnt' * (pscShadow' + 1) + pcnt'
    BY <1>1, <1>4, <2>1, TickSteps
  <2>3. busy' = Left /\ gap' = gap + 1
    BY <1>1, <1>4, TickSteps
  <2>4. busy' = IF gap' < CONVERSION THEN CONVERSION - gap' ELSE 0
    BY <1>1, <2>1, <2>3 DEF Left, TypeOK
  <2> QED
    BY <2>2, <2>4
<1> QED
  BY <1>3, <1>4

LEMMA CallKeepsRInv ==
  ASSUME ArrsFit, RInv, set_timebase
  PROVE  RInv'
<1> USE TimebaseAssumption, TimebaseRegsAssumption, TimerAssumption
<1>1. TypeOK /\ CounterBelowArr /\ SettingLoaded /\ Written
  BY DEF RInv
<1>2. arr_of(arg) \in 0 .. WRAP - 1 /\ psc_of(arg) \in {0, PRESCALE - 1} /\ psc_of(arg) \in Nat
  BY <1>1, RegisterTypes DEF TypeOK, ArrsFit
<1>3. CASE SetTimebase
  <2>1. TypeOK'
    BY <1>1, <1>3 DEF SetTimebase, TypeOK, TimerTypeOK, timerVars, adcVars
  <2>2. CounterBelowArr' /\ SettingLoaded' /\ Written'
    BY <1>1, <1>3 DEF SetTimebase, CounterBelowArr, SettingLoaded, Written, timerVars
  <2> QED
    BY <2>1, <2>2 DEF RInv
<1>4. CASE WriteArr
  <2>1. /\ arr' = arr_of(arg) /\ arrShadow' = arrShadow
        /\ UNCHANGED <<psc, pscShadow, cnt, pcnt, rate, arg, callClocks, busy, gap, settled>>
        /\ pc = "arr" /\ pc' = "psc"
    BY <1>2, <1>4 DEF WriteArr, write_arr, adcVars
  <2>2. TypeOK'
    BY <1>1, <1>2, <2>1 DEF TypeOK, TimerTypeOK
  <2>3. CounterBelowArr' /\ SettingLoaded' /\ Written'
    BY <1>1, <2>1 DEF CounterBelowArr, SettingLoaded, Written
  <2> QED
    BY <2>2, <2>3 DEF RInv
<1>5. CASE WritePsc
  <2>1. TypeOK'
    BY <1>1, <1>2, <1>5 DEF WritePsc, TypeOK, TimerTypeOK, adcVars
  <2>2. CounterBelowArr' /\ SettingLoaded' /\ Written'
    BY <1>1, <1>5 DEF WritePsc, CounterBelowArr, SettingLoaded, Written
  <2> QED
    BY <2>1, <2>2 DEF RInv
<1>6. CASE WriteCnt
  <2>1. TypeOK'
    BY <1>1, <1>6 DEF WriteCnt, TypeOK, TimerTypeOK, adcVars
  <2>2. CounterBelowArr' /\ SettingLoaded' /\ Written'
    BY <1>1, <1>6 DEF WriteCnt, CounterBelowArr, SettingLoaded, Written, TypeOK, TimerTypeOK
  <2> QED
    BY <2>1, <2>2 DEF RInv
<1>7. CASE ForceUpdate
  <2>1. /\ arrShadow' = arr /\ pscShadow' = psc /\ cnt' = 0 /\ pcnt' = 0 /\ arr' = arr /\ psc' = psc
        /\ pc = "egr" /\ pc' = "idle" /\ rate' = arg /\ arg' = arg /\ callClocks' = callClocks
        /\ IF busy = 0 THEN busy' = CONVERSION /\ gap' = 0 ELSE busy' = busy /\ gap' = gap
    BY <1>7 DEF ForceUpdate, force_update, Reload, Trigger
  <2>2. settled' \in BOOLEAN
    BY <1>7, Zenon DEF ForceUpdate
  <2>3. arr = arr_of(arg) /\ psc = psc_of(arg)
    BY <1>1, <2>1 DEF Written
  <2>4. TypeOK'
    BY <1>1, <1>2, <2>1, <2>2 DEF TypeOK, TimerTypeOK
  <2>5. CounterBelowArr' /\ SettingLoaded' /\ Written'
    BY <1>2, <2>1, <2>3 DEF CounterBelowArr, SettingLoaded, Written
  <2> QED
    BY <2>4, <2>5 DEF RInv
<1> QED
  BY <1>3, <1>4, <1>5, <1>6, <1>7 DEF set_timebase

LEMMA CallKeepsInStep ==
  ASSUME TInv, set_timebase
  PROVE  InStep'
<1>1. TypeOK /\ InStep
  BY DEF TInv, RInv
<1>2. CASE SetTimebase \/ WriteArr \/ WritePsc \/ WriteCnt
  BY <1>2 DEF SetTimebase, WriteArr, WritePsc, WriteCnt, InStep
<1>3. CASE ForceUpdate
  <2>1. /\ pscShadow' = psc /\ cnt' = 0 /\ pcnt' = 0
        /\ IF busy = 0 THEN busy' = CONVERSION /\ gap' = 0 ELSE busy' = busy /\ gap' = gap
    BY <1>3 DEF ForceUpdate, force_update, Reload, Trigger
  <2>2. settled' <=> busy = 0
    BY <1>3, Zenon DEF ForceUpdate
  <2> QED
    BY <1>1, <2>1, <2>2, TimebaseRegsAssumption DEF InStep, TypeOK
<1> QED
  BY <1>2, <1>3 DEF set_timebase

\* The registers and the timer agree at every moment of every behaviour of
\* capture::set_timebase() and the hardware, however slow the ADC is.
THEOREM RegisterInvariant ==
  ASSUME ArrsFit
  PROVE  Spec => []RInv
<1>1. Init => RInv
  BY InitTInv
<1>2. RInv /\ [Next]_vars => RInv'
  <2> SUFFICES ASSUME RInv, [Next]_vars
               PROVE  RInv'
    OBVIOUS
  <2>1. CASE UNCHANGED vars
    BY <2>1 DEF vars, timerVars, callVars, adcVars, RInv, TypeOK, TimerTypeOK,
                CounterBelowArr, SettingLoaded, Written
  <2> QED
    BY <2>1, TickKeepsRInv, CallKeepsRInv DEF Next
<1> QED
  BY <1>1, <1>2, PTL DEF Spec

\* If the ADC keeps up with the rates, it keeps in step with the timer.
THEOREM TimebaseInvariant ==
  ASSUME RatesFit
  PROVE  Spec => []TInv
<1>1. ArrsFit
  BY DEF RatesFit
<1>2. Init => InStep
  BY <1>1, InitTInv
<1>3. RInv /\ InStep /\ [Next]_vars => InStep'
  <2> SUFFICES ASSUME TInv, [Next]_vars
               PROVE  InStep'
    BY DEF TInv
  <2>1. CASE UNCHANGED vars
    BY <2>1 DEF vars, timerVars, callVars, adcVars, TInv, InStep
  <2> QED
    BY <2>1, TickKeepsInStep, CallKeepsInStep DEF Next
<1>4. Spec => []RInv
  BY <1>1, RegisterInvariant
<1> QED
  BY <1>2, <1>3, <1>4, PTL DEF Spec, TInv

-----------------------------------------------------------------------------
\* main.rs:120, "samples per second": wherever in the old period, and between
\* whichever clocks, set_timebase writes its four registers, later conversions
\* begin exactly one requested period apart; for all rates that fit.
THEOREM SamplesEvenlySpaced ==
  ASSUME RatesFit
  PROVE  Spec => EvenSpacing
<1>1. TInv /\ [Next]_vars =>
        [Tick /\ ConversionDue /\ pc = "idle" /\ settled => gap + 1 = Period(rate)]_vars
  <2> SUFFICES ASSUME TInv, ConversionDue, pc = "idle", settled
               PROVE  gap + 1 = Period(rate)
    OBVIOUS
  <2>1. gap = arrShadow * (pscShadow + 1) + pscShadow
    BY DEF TInv, InStep, ConversionDue, Expires
  <2>2. arrShadow = arr_of(rate) /\ pscShadow = psc_of(rate)
    BY DEF TInv, RInv, SettingLoaded
  <2>3. gap + 1 = (arrShadow + 1) * (pscShadow + 1)
    BY <2>1, TwoStageCount, TimerAssumption DEF TInv, RInv, TypeOK, TimerTypeOK
  <2> QED
    BY <2>2, <2>3 DEF Period
<1> QED
  BY <1>1, TimebaseInvariant, PTL DEF Spec, EvenSpacing

-----------------------------------------------------------------------------
(* How long the ADC may go without a conversion.                           *)

\* Clocks since the timer's latest update event.
Elapsed == cnt * (pscShadow + 1) + pcnt

\* A conversion in progress says when it began.  Outside a call the ADC lags behind the
\* timer by less than a conversion; in a call it waits no longer than the call goes on.
GapInv ==
  /\ busy > 0 => gap + busy = CONVERSION
  /\ pc = "idle" => arg = rate /\ gap <= CONVERSION + Elapsed
  /\ pc # "idle" => gap <= CONVERSION + Period(rate) + callClocks

LEMMA CountsInPeriod ==
  ASSUME NEW c \in Nat, NEW a \in Nat, NEW p \in Nat, NEW q \in Nat, c <= a, q <= p
  PROVE  c * (p + 1) + q \in Nat /\ c * (p + 1) + q + 1 <= (a + 1) * (p + 1)
<1>1. (a + 1) * (p + 1) = c * (p + 1) + (a - c) * (p + 1) + p + 1
  OBVIOUS
<1>2. (a - c) * (p + 1) \in Nat /\ c * (p + 1) \in Nat
  OBVIOUS
<1> QED
  BY <1>1, <1>2

\* Outside a call the timer is somewhere in the period of the present rate.
LEMMA InsidePeriod ==
  ASSUME RInv, pc = "idle"
  PROVE  Elapsed \in Nat /\ Period(rate) \in Nat /\ Elapsed + 1 <= Period(rate)
<1>1. /\ cnt \in Nat /\ arrShadow \in Nat /\ pscShadow \in Nat /\ pcnt \in Nat
      /\ cnt <= arrShadow /\ pcnt <= pscShadow
  BY TimerAssumption DEF RInv, TypeOK, TimerTypeOK, CounterBelowArr
<1>2. Period(rate) = (arrShadow + 1) * (pscShadow + 1) /\ Period(rate) \in Nat
  BY <1>1 DEF RInv, SettingLoaded, Period
<1> QED
  BY <1>1, <1>2, CountsInPeriod DEF Elapsed

LEMMA PeriodIsNat ==
  ASSUME NEW r \in Rates
  PROVE  Period(r) \in Nat
  BY RegisterTypes DEF Period

LEMMA TickKeepsGapInv ==
  ASSUME RInv, GapInv, Tick
  PROVE  GapInv'
<1> USE TimebaseAssumption, TimebaseRegsAssumption
<1>1. TypeOK /\ TimerTypeOK /\ CounterBelowArr /\ Period(rate) \in Nat
  BY PeriodIsNat DEF RInv, TypeOK
<1>2. /\ Clock /\ UNCHANGED <<pc, rate, arg>>
      /\ callClocks' = IF pc = "idle" THEN 0 ELSE callClocks + 1
  BY DEF Tick
<1>3. Left \in 0 .. CONVERSION /\ (Left > 0 => gap + 1 + Left = CONVERSION)
  BY <1>1 DEF GapInv, Left, TypeOK
<1>4. CASE Expires /\ Left = 0
  <2>1. busy' = CONVERSION /\ gap' = 0 /\ cnt' = 0 /\ pcnt' = 0 /\ pscShadow' = psc
    BY <1>2, <1>4 DEF Tick, Trigger, Clock, Reload
  <2>2. Elapsed' = 0
    BY <1>1, <2>1 DEF Elapsed, TypeOK
  <2> QED
    BY <1>1, <1>2, <2>1, <2>2 DEF GapInv, TypeOK
<1>5. CASE Expires /\ Left # 0
  <2>1. busy' = Left /\ gap' = gap + 1 /\ cnt' = 0 /\ pcnt' = 0 /\ pscShadow' = psc
    BY <1>2, <1>5 DEF Tick, Trigger, Clock, Reload
  <2>2. Elapsed' = 0
    BY <1>1, <2>1 DEF Elapsed, TypeOK
  <2> QED
    BY <1>1, <1>2, <1>3, <1>5, <2>1, <2>2 DEF GapInv, TypeOK
<1>6. CASE ~Expires
  <2>1. busy' = Left /\ gap' = gap + 1
    BY <1>6 DEF Tick
  <2>2. Elapsed' = Elapsed + 1
    BY <1>1, <1>2, <1>6, CountsOn DEF Elapsed
  <2>3. busy' > 0 => gap' + busy' = CONVERSION
    BY <1>1, <1>3, <2>1 DEF TypeOK
  <2>4. pc' # "idle" => gap' <= CONVERSION + Period(rate)' + callClocks'
    BY <1>1, <1>2, <2>1 DEF GapInv, TypeOK
  <2>5. ASSUME pc = "idle"
        PROVE  arg = rate /\ gap' <= CONVERSION + Elapsed'
    <3>1. Elapsed \in Nat /\ arg = rate /\ gap <= CONVERSION + Elapsed
      BY <2>5, InsidePeriod DEF GapInv
    <3> QED
      BY <1>1, <2>1, <2>2, <3>1 DEF TypeOK
  <2> QED
    BY <1>2, <2>3, <2>4, <2>5 DEF GapInv
<1> QED
  BY <1>4, <1>5, <1>6

LEMMA CallKeepsGapInv ==
  ASSUME RInv, GapInv, set_timebase
  PROVE  GapInv'
<1> USE TimebaseAssumption, TimebaseRegsAssumption
<1>1. TypeOK /\ Period(rate) \in Nat
  BY PeriodIsNat DEF RInv, TypeOK
<1>2. CASE SetTimebase
  <2>1. gap <= CONVERSION + Period(rate)
    <3>1. Elapsed \in Nat /\ Elapsed + 1 <= Period(rate) /\ gap <= CONVERSION + Elapsed
      BY <1>2, InsidePeriod DEF SetTimebase, GapInv
    <3> QED
      BY <1>1, <3>1 DEF TypeOK
  <2> QED
    BY <1>1, <1>2, <2>1 DEF SetTimebase, GapInv, TypeOK, adcVars
<1>3. CASE WriteArr \/ WritePsc \/ WriteCnt
  BY <1>3 DEF WriteArr, WritePsc, WriteCnt, GapInv, adcVars
<1>4. CASE ForceUpdate
  <2>1. /\ IF busy = 0 THEN busy' = CONVERSION /\ gap' = 0 ELSE busy' = busy /\ gap' = gap
        /\ cnt' = 0 /\ pcnt' = 0 /\ pscShadow' = psc
        /\ pc' = "idle" /\ rate' = arg /\ arg' = arg
    BY <1>4 DEF ForceUpdate, force_update, Reload, Trigger
  <2>2. Elapsed' = 0
    BY <1>1, <2>1 DEF Elapsed, TypeOK
  <2> QED
    BY <1>1, <2>1, <2>2 DEF GapInv, TypeOK
<1> QED
  BY <1>2, <1>3, <1>4 DEF set_timebase

\* capture.rs:214-229: rewriting the registers of the running timer never makes it miss the
\* end of a period, at whichever clocks they are written and whatever mixture of two
\* settings the timer loads in between; for all rates that fit ARR, and with an ADC of any
\* speed, even one that ignores triggers.
THEOREM SamplesKeepComing ==
  ASSUME ArrsFit
  PROVE  Spec => []NoStarvation
<1>1. Init => GapInv
  <2> SUFFICES ASSUME Init
               PROVE  GapInv
    OBVIOUS
  <2>1. Elapsed = 0
    BY InitTInv DEF RInv, TypeOK, TimerTypeOK, Init, Loaded, Elapsed
  <2> QED
    BY <2>1, TimebaseRegsAssumption DEF Init, GapInv
<1>2. RInv /\ GapInv /\ [Next]_vars => GapInv'
  <2> SUFFICES ASSUME RInv, GapInv, [Next]_vars
               PROVE  GapInv'
    OBVIOUS
  <2>1. CASE UNCHANGED vars
    BY <2>1 DEF vars, timerVars, callVars, adcVars, GapInv, Elapsed
  <2> QED
    BY <2>1, TickKeepsGapInv, CallKeepsGapInv DEF Next
<1>3. RInv /\ GapInv => NoStarvation
  <2> SUFFICES ASSUME RInv, GapInv
               PROVE  NoStarvation
    OBVIOUS
  <2>1. Period(rate) \in Nat /\ Period(arg) \in Nat /\ TypeOK
    BY PeriodIsNat DEF RInv, TypeOK
  <2>2. CASE pc = "idle"
    <3>1. Elapsed \in Nat /\ Elapsed + 1 <= Period(rate) /\ gap <= CONVERSION + Elapsed
      BY <2>2, InsidePeriod DEF GapInv
    <3> QED
      BY <2>1, <3>1, TimebaseAssumption, TimebaseRegsAssumption DEF NoStarvation, TypeOK
  <2>3. CASE pc # "idle"
    BY <2>1, <2>3, TimebaseAssumption, TimebaseRegsAssumption DEF GapInv, NoStarvation, TypeOK
  <2> QED
    BY <2>2, <2>3
<1> QED
  BY <1>1, <1>2, <1>3, RegisterInvariant, PTL DEF Spec

-----------------------------------------------------------------------------
\* set_timebase's arithmetic: a period is the longest whole number of prescaled
\* clocks that is not longer than the requested one.
LEMMA PeriodIsTruncated ==
  ASSUME NEW r \in Rates
  PROVE  Period(r) * r <= CLOCK /\ CLOCK < (Period(r) + psc_of(r) + 1) * r
<1> USE TimebaseRegsAssumption
<1>1. r \in Nat \ {0}
  BY TimebaseAssumption
<1>2. CASE r > LIMIT
  <2> DEFINE q == CLOCK \div r
  <2>1. q \in Nat /\ q * r <= CLOCK /\ CLOCK < (q + 1) * r
    BY <1>1, DivisionBounds
  <2>2. arr_of(r) = q - 1 /\ psc_of(r) = 0
    BY <1>2 DEF arr_of, psc_of
  <2> HIDE DEF q
  <2>3. Period(r) = q
    BY <2>1, <2>2 DEF Period
  <2>4. Period(r) + psc_of(r) + 1 = q + 1
    BY <2>1, <2>2, <2>3
  <2> QED
    BY <2>1, <2>3, <2>4
<1>3. CASE ~(r > LIMIT)
  <2> DEFINE n == CLOCK \div PRESCALE
             q == n \div r
  <2>1. n \in Nat /\ n * PRESCALE <= CLOCK /\ CLOCK < (n + 1) * PRESCALE
    BY DivisionBounds
  <2>2. q \in Nat /\ q * r <= n /\ n < (q + 1) * r
    BY <1>1, <2>1, DivisionBounds
  <2>3. arr_of(r) = q - 1 /\ psc_of(r) = PRESCALE - 1
    BY <1>3 DEF arr_of, psc_of
  <2> HIDE DEF n, q
  <2>4. Period(r) = q * PRESCALE
    BY <2>2, <2>3 DEF Period
  <2>5. Period(r) + psc_of(r) + 1 = (q + 1) * PRESCALE
    BY <2>2, <2>3, <2>4
  <2>6. (q * PRESCALE) * r = (q * r) * PRESCALE /\ (q * r) * PRESCALE <= n * PRESCALE
    BY <1>1, <2>1, <2>2
  <2>7. n + 1 <= (q + 1) * r
    BY <1>1, <2>1, <2>2
  <2>8. (n + 1) * PRESCALE <= ((q + 1) * r) * PRESCALE
    BY <1>1, <2>1, <2>2, <2>7
  <2>9. ((q + 1) * r) * PRESCALE = ((q + 1) * PRESCALE) * r
    BY <1>1, <2>2
  <2>10. (q * PRESCALE) * r <= CLOCK
    <3> DEFINE a == (q * PRESCALE) * r
               b == n * PRESCALE
    <3>1. a \in Nat /\ b \in Nat /\ a <= b /\ b <= CLOCK
      BY <1>1, <2>1, <2>2, <2>6
    <3> HIDE DEF a, b
    <3>2. a <= CLOCK
      BY <3>1
    <3> QED
      BY <3>2 DEF a
  <2>11. CLOCK < ((q + 1) * PRESCALE) * r
    <3> DEFINE a == ((q + 1) * PRESCALE) * r
               b == (n + 1) * PRESCALE
    <3>1. a \in Nat /\ b \in Nat /\ b <= a /\ CLOCK < b
      BY <1>1, <2>1, <2>2, <2>8, <2>9
    <3> HIDE DEF a, b
    <3>2. CLOCK < a
      BY <3>1
    <3> QED
      BY <3>2 DEF a
  <2> QED
    BY <2>4, <2>5, <2>10, <2>11
<1> QED
  BY <1>2, <1>3

\* capture.rs:213, "the specified number of samples per second": outside a call of
\* set_timebase TIM15 counts the longest whole number of prescaled clocks that is not
\* longer than the requested period; for all rates whose period ARR holds.
THEOREM RatesAreHonoured ==
  ASSUME ArrsFit
  PROVE  Spec => []RateHonoured
<1>1. RInv => RateHonoured
  <2> SUFFICES ASSUME RInv, pc = "idle"
               PROVE  /\ TimerPeriod * rate <= CLOCK
                      /\ CLOCK < (TimerPeriod + pscShadow + 1) * rate
    BY DEF RateHonoured
  <2>1. rate \in Rates /\ TimerPeriod = Period(rate) /\ pscShadow = psc_of(rate)
    BY DEF RInv, TypeOK, SettingLoaded, TimerPeriod, Period
  <2> QED
    BY <2>1, PeriodIsTruncated
<1> QED
  BY <1>1, RegisterInvariant, PTL

\* With the constants of capture.rs, 1098 samples per second is the one rate
\* above the branch bound 1097 of set_timebase whose period needs 17 bits.
THEOREM OneRateDoesNotFit ==
  ASSUME CLOCK = 72000000, PRESCALE = 2250, LIMIT = 1097,
         NEW r \in Nat \ {0}, r <= CLOCK
  PROVE  arr_of(r) < 65536 <=> r # 1098
<1>1. CASE r <= LIMIT
  <2> DEFINE q == 32000 \div r
  <2>1. q \in Nat /\ q * r <= 32000
    BY DivisionBounds, SMT
  <2>2. CLOCK \div PRESCALE = 32000
    BY SMT
  <2>3. arr_of(r) = q - 1
    BY <1>1, <2>2, SMT DEF arr_of
  <2> HIDE DEF q
  <2>4. q <= 32000
    BY <2>1, SMT
  <2> QED
    BY <1>1, <2>1, <2>3, <2>4, SMT
<1>2. CASE r > LIMIT
  <2> DEFINE q == CLOCK \div r
  <2>1. q \in Nat /\ q * r <= 72000000 /\ 72000000 < (q + 1) * r
    BY DivisionBounds, SMT
  <2>2. arr_of(r) = q - 1
    BY <1>2, SMT DEF arr_of
  <2> HIDE DEF q
  <2>3. CASE r = 1098
    <3>1. 72000000 < (q + 1) * 1098
      BY <2>1, <2>3, SMT
    <3>2. q > 65536
      BY <2>1, <3>1, SMT
    <3> QED
      BY <2>1, <2>2, <2>3, <3>2, SMT
  <2>4. CASE r >= 1099
    <3>1. q * 1099 <= q * r
      BY <2>1, <2>4, SMT
    <3>2. q * 1099 <= 72000000
      <4> DEFINE a == q * r
      <4>1. a \in Int /\ a <= 72000000 /\ q * 1099 <= a
        BY <2>1, <3>1, SMT
      <4> HIDE DEF a
      <4> QED
        BY <2>1, <4>1, SMT
    <3>3. q < 65537
      BY <2>1, <3>2, SMT
    <3> QED
      BY <2>1, <2>2, <2>4, <3>3, SMT
  <2> QED
    BY <1>2, <2>3, <2>4, SMT
<1> QED
  BY <1>1, <1>2, SMT
=============================================================================
