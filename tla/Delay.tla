------------------------------- MODULE Delay -------------------------------
(***************************************************************************)
(* delay_ms() and the SysTick exception it relies on.  The counter raises  *)
(* the exception once a period; while interrupts are masked the exception  *)
(* stays pending, and a second one is lost.  A pending exception is taken  *)
(* before the next statement of main().                                    *)
(*                                                                         *)
(* `asked' and `elapsed' are history variables: the argument of the latest *)
(* delay_ms and the SysTick clocks that passed in it.                      *)
(***************************************************************************)
EXTENDS SysTick

CONSTANT PERIOD    \* SysTick clocks per exception, a millisecond

ASSUME DelayAssumption == PERIOD \in Nat \ {0}

VARIABLES
  pc,         \* next statement of main() or of the function it has called
  return_to,  \* where delay_ms returns to
  primask,    \* interrupts masked by interrupt::free
  ticking,    \* SysTick counter and exception enabled
  phase,      \* SysTick clocks since the counter last wrapped
  pending,    \* SysTick exception pending
  asked, elapsed

buttonVars == <<BUTTON_STATE, BUTTON_CHANGED, BUTTON_DEBOUNCE>>
cpuVars    == <<primask, ticking, phase, pending>>
timeVars   == <<TIMING_DELAY, return_to, asked, elapsed, buttonVars>>
delayVars  == <<pc, cpuVars, timeVars>>

DelayInit ==
  /\ TIMING_DELAY = 0
  /\ BUTTON_STATE = [i \in BUTTONS |-> FALSE]
  /\ BUTTON_CHANGED = [i \in BUTTONS |-> FALSE]
  /\ BUTTON_DEBOUNCE = [i \in BUTTONS |-> 0]
  /\ return_to = "" /\ primask = FALSE /\ ticking = FALSE /\ phase = 0 /\ pending = FALSE
  /\ asked = 0 /\ elapsed = 0

-----------------------------------------------------------------------------
ExceptionTaken == pending /\ ~primask

\* main() executes the statement at this label.
At(label) == pc = label /\ ~ExceptionTaken

\* The call: set the counter, a u32, and start to spin.
delay_ms(ms, next) ==
  /\ ms \in Nat
  /\ TIMING_DELAY' = ms
  /\ pc' = "delay" /\ return_to' = next
  /\ asked' = ms /\ elapsed' = 0
  /\ UNCHANGED <<buttonVars, cpuVars>>

\* Mutated form: stops one tick early.
delay_over_early == TIMING_DELAY <= 1

delay_over == TIMING_DELAY = 0

DelayReturns ==
  /\ At("delay") /\ delay_over
  /\ pc' = return_to
  /\ UNCHANGED <<cpuVars, timeVars>>

\* A clock passes in a delay that has yet to end.
Counting == pc = "delay" /\ TIMING_DELAY # 0 /\ ~pending

\* A clock of the SysTick counter.  The handler is shorter than a clock period.
SysTickClock ==
  /\ ticking /\ ~ExceptionTaken
  /\ phase' = (phase + 1) % PERIOD
  /\ pending' = (pending \/ phase + 1 = PERIOD)
  /\ elapsed' = IF Counting THEN elapsed + 1 ELSE elapsed
  /\ UNCHANGED <<pc, primask, ticking, TIMING_DELAY, return_to, asked, buttonVars>>

\* The exception: systick_handler runs to its end.
SysTickException(down) ==
  /\ ExceptionTaken
  /\ systick_handler(down)
  /\ pending' = FALSE
  /\ UNCHANGED <<pc, primask, ticking, phase, return_to, asked, elapsed>>

\* capture.rs:80, "delay at least 1ms": when delay_ms(n) returns, more than n - 1
\* whole periods have passed, wherever in a period it was called.
DelayLongEnough ==
  pc = "delay" /\ delay_over /\ asked > 0 => elapsed > (asked - 1) * PERIOD
=============================================================================
