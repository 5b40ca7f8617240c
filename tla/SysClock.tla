------------------------------ MODULE SysClock ------------------------------
(***************************************************************************)
(* set_sys_clock(): from the internal oscillator HSI to the PLL at nine    *)
(* times the external clock HSE, one register access at a time, while RCC  *)
(* makes the clocks ready in its own time or, for the external clock,      *)
(* perhaps never.                                                          *)
(***************************************************************************)
EXTENDS Integers

CONSTANT STARTUP    \* polls that HSE has to become ready, 0x500

ASSUME SysClockAssumption == STARTUP \in Nat \ {0}

VARIABLES
  clkpc,              \* next statement
  startup_count,   \* local of set_sys_clock; -1 stands for all negative values
  on,              \* oscillators switched on: HSION, HSEON, PLLON
  ready,           \* HSERDY and PLLRDY
  pllmul,          \* CFGR: 9 once the PLL is set to nine times HSE, 0 at reset
  sw, sws,         \* CFGR: system clock selected, and in use
  latency,         \* flash wait states
  ppre1            \* divisor of APB1

cfgVars == <<pllmul, latency, ppre1>>
clockVars    == <<clkpc, startup_count, on, ready, cfgVars, sw, sws>>

\* Reset: the chip runs on HSI.
ClockInit ==
  /\ clkpc = "hse_on" /\ startup_count = STARTUP
  /\ on = {"hsi"} /\ ready = {"hsi"} /\ sw = "hsi" /\ sws = "hsi"
  /\ pllmul = 0 /\ latency = 0 /\ ppre1 = 1

-----------------------------------------------------------------------------
HseOn ==
  /\ clkpc = "hse_on" /\ clkpc' = "hse_wait"
  /\ on' = on \cup {"hse"}
  /\ UNCHANGED <<startup_count, ready, cfgVars, sw, sws>>

\* Mutated form: no time limit.
count_down_not == startup_count

count_down == IF startup_count > 0 THEN startup_count - 1 ELSE -1

\* Poll HSERDY; the poll that exhausts the count runs into the breakpoint.  The
\* count is not read after the loop.
WaitHse ==
  /\ clkpc = "hse_wait"
  /\ IF "hse" \in ready
       THEN clkpc' = "flash" /\ startup_count' = 0
       ELSE /\ startup_count' = count_down
            /\ clkpc' = IF count_down = 0 THEN "bkpt" ELSE "hse_wait"
  /\ UNCHANGED <<on, ready, cfgVars, sw, sws>>

\* A debugger may resume from the breakpoint: the loop goes on, below zero.  (That
\* the count would come back to 0 after 2^32 more polls is left out.)
Resume ==
  /\ clkpc = "bkpt" /\ clkpc' = "hse_wait"
  /\ UNCHANGED <<startup_count, on, ready, cfgVars, sw, sws>>

\* Mutated form: the flash is left without wait states.
SetFlashSlow ==
  /\ clkpc = "flash" /\ clkpc' = "buses"
  /\ UNCHANGED <<startup_count, on, ready, cfgVars, sw, sws>>

SetFlash ==
  /\ clkpc = "flash" /\ clkpc' = "buses"
  /\ latency' = 2
  /\ UNCHANGED <<startup_count, on, ready, pllmul, ppre1, sw, sws>>

SetBuses ==
  /\ clkpc = "buses" /\ clkpc' = "pll"
  /\ ppre1' = 2
  /\ UNCHANGED <<startup_count, on, ready, pllmul, latency, sw, sws>>

SetPll ==
  /\ clkpc = "pll" /\ clkpc' = "pll_on"
  /\ pllmul' = 9
  /\ UNCHANGED <<startup_count, on, ready, latency, ppre1, sw, sws>>

PllOn ==
  /\ clkpc = "pll_on" /\ clkpc' = "pll_wait"
  /\ on' = on \cup {"pll"}
  /\ UNCHANGED <<startup_count, ready, cfgVars, sw, sws>>

WaitPll ==
  /\ clkpc = "pll_wait" /\ "pll" \in ready /\ clkpc' = "select"
  /\ UNCHANGED <<startup_count, on, ready, cfgVars, sw, sws>>

SelectPll ==
  /\ clkpc = "select" /\ clkpc' = "used_wait"
  /\ sw' = "pll"
  /\ UNCHANGED <<startup_count, on, ready, cfgVars, sws>>

\* Mutated form: does not wait.
pll_used_assumed == TRUE

pll_used == sws = "pll"

WaitPllUsed ==
  /\ clkpc = "used_wait" /\ pll_used /\ clkpc' = "hsi_off"
  /\ UNCHANGED <<startup_count, on, ready, cfgVars, sw, sws>>

HsiOff ==
  /\ clkpc = "hsi_off" /\ clkpc' = "done"
  /\ on' = on \ {"hsi"} /\ ready' = ready \ {"hsi"}
  /\ UNCHANGED <<startup_count, cfgVars, sw, sws>>

set_sys_clock ==
  \/ HseOn \/ WaitHse \/ SetFlash \/ SetBuses \/ SetPll \/ PllOn
  \/ WaitPll \/ SelectPll \/ WaitPllUsed \/ HsiOff

-----------------------------------------------------------------------------
(* RCC.                                                                    *)

HseReady ==
  /\ "hse" \in on \ ready
  /\ ready' = ready \cup {"hse"}
  /\ UNCHANGED <<clkpc, startup_count, on, cfgVars, sw, sws>>

\* The PLL locks on its input.
PllReady ==
  /\ "pll" \in on \ ready /\ (pllmul = 9 => "hse" \in ready)
  /\ ready' = ready \cup {"pll"}
  /\ UNCHANGED <<clkpc, startup_count, on, cfgVars, sw, sws>>

Switch ==
  /\ sws # sw /\ sw \in ready
  /\ sws' = sw
  /\ UNCHANGED <<clkpc, startup_count, on, ready, cfgVars, sw>>

ClockNext == set_sys_clock \/ Resume \/ HseReady \/ PllReady \/ Switch

\* The processor runs, the PLL locks and the switch is made; nothing says that
\* the external clock is connected, or that a debugger is.
ClockFairness == WF_clockVars(set_sys_clock) /\ WF_clockVars(PllReady) /\ WF_clockVars(Switch)

-----------------------------------------------------------------------------
\* Every variable keeps its type.
ClockTypeOK ==
  /\ clkpc \in {"hse_on", "hse_wait", "bkpt", "flash", "buses", "pll", "pll_on",
             "pll_wait", "select", "used_wait", "hsi_off", "done"}
  /\ startup_count \in -1 .. STARTUP
  /\ on \subseteq {"hsi", "hse", "pll"} /\ ready \subseteq on
  /\ pllmul \in {0, 9} /\ latency \in {0, 2} /\ ppre1 \in {1, 2}
  /\ sw \in {"hsi", "pll"} /\ sws \in {"hsi", "pll"}

\* sysclk.rs:71, "turn off HSI": the clock in use is on and ready at every moment,
\* and a PLL in use multiplies an external clock that is ready.
ClockAlive == sws \in on \cap ready /\ (sws = "pll" => pllmul = 9 /\ "hse" \in ready)

\* sysclk.rs:50-58: flash and APB1 are slowed down before the clock gets fast.
SlowedInTime == sws = "pll" => latency = 2 /\ ppre1 = 2

\* sysclk.rs:59: the multiplier is only ever set while the PLL is off.
PllSetWhileOff == [][pllmul' # pllmul => "pll" \notin on]_clockVars

\* sysclk.rs:45-48: with or without an external clock, set_sys_clock() finishes or
\* comes to its breakpoint; it does not wait for ever, unless it is resumed there.
FinishesOrHalts == <>(clkpc \in {"done", "bkpt"})
=============================================================================
