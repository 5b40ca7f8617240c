# A TLA+ model of the STM32F3 oscilloscope

The firmware in this repository turns an STM32F3 Discovery board into a small
oscilloscope. This directory holds a formal model of it: TLA+ modules written
from the Rust and C sources, TLC configurations that check them on small
instances, and TLAPS proofs of the main results for every instance.
`PROJECT.json` lists, for each definition, the source lines it models, and the
runs, hazards, findings and theorems in machine-readable form.

## The system

| Part | Source | Actors | Module |
|---|---|---|---|
| Capture sweep | `capture.rs`, main loop of `main.rs` | main loop, DMA1 channel 1 handler, ADC1 + TIM15, DMA1 | `Sweep` (promise: `SweepSpec`) |
| LEDs | `led.rs` | called by the main loop and by the DMA handler | `Led` |
| SysTick, pushbuttons | `main.rs` | SysTick handler, main loop | `SysTick`, `Buttons`, which composes `Settings` (promise: `PressSpec`) |
| Trace display | main loop of `main.rs` | main loop | `Plot` |
| LCD link, hardware SPI | `st7735.rs` | caller, SPI2, LCD controller | `LcdSpi` (promise: `LcdWire`) |
| LCD link, software SPI | `st7735.rs`, feature `software-spi` | caller, LCD controller | `LcdSoftSpi` (promise: `LcdWire`) |
| LCD drawing and text | `st7735.rs`, `old_c/ST7735.c` | main loop, LCD controller | `Lcd` (promise: `Canvas`) |
| LCD initialisation | `old_c/ST7735.c` | start-up, SysTick, LCD controller | `LcdInit` |
| Timebase | `set_timebase` in `capture.rs` | main loop, TIM15, ADC1 | `Timebase`, `TimebaseRegs`, `Timer` |
| Signal generator | `siggen.rs` | main loop, TIM2, DMA2 channels 3 and 4, DAC | `Siggen`, `SiggenRegs`, `Timer` (promise: `WaveSpec`) |
| System clock | `sysclk.rs` | start-up, RCC | `SysClock` |
| Delays, start-up | `main.rs`, `capture.rs`, `led.rs` | `main()` up to its loop, SysTick, ADC1 | `Delay`, `Startup`, which composes `LcdInit`, `Led`, `SysClock` |
| Settings, status line | tables and settings of `main.rs` | main loop | `Settings` |
| Font | `parallax_8x12_font.rs` | none: a table | not modelled |

The processor runs one thread (`main`) and two handlers. The DMA1 channel 1
interrupt has priority 0 and preempts everything else; SysTick has the lowest
priority. `interrupt::free` masks both. It does not stop the hardware: the ADC,
the DMA controllers and the timers go on inside a critical section.

A sweep is 160 conversions, triggered by TIM15, that DMA1 moves into
`CAPTURE_CHANNEL_1` while the main loop polls the transfer count and plots each
sample as it arrives. After the last one the main loop disables the channel,
reloads its count, reads and clears the overrun flag, toggles LD5 and starts
over. At the end of every iteration it polls two pushbuttons, which step the
timebase and the signal generator's frequency.

## How the modules correspond to the code

**`Sweep`**. One action per access to a shared register, so that every other
actor can come between two accesses. `pc` is the position of the main loop,
`state` and `x_out` are its locals, `hpc` is the position of the DMA handler,
`primask` the critical section; `adstart`, `req`, `ovr` are ADC1, `dmaEn`,
`cndtr`, `tcif` are DMA1, `buf` is `CAPTURE_CHANNEL_1`. `InterruptTaken` makes a
pending interrupt run before the next instruction of the main loop. A
conversion is represented by its number within the sweep and 0 is anything
older, so `BeginStartAdc` declares everything in the buffer and on the screen
old. The ADC and the DMA controller are external to the repository and modelled
from the configuration that `capture::setup()` gives them (one-shot DMA, the
new value kept on overrun, interrupt on completion). Whether the ADC goes on
requesting transfers while OVR is set is not settled by the repository (the
hardware's manual says it does not), so `DmaTransfer` may then happen or never
happen. The buttons may or may not
be pressed; what matters here is that a critical section then runs in the
middle of a sweep. `SetTimebase`'s forced timer update triggers a conversion;
`Convert` may happen at any time and includes it.

**`Led`**. The output register as a set of lit LEDs. A BSRR write is atomic;
`led_toggle` is a read and a later write.

**`SysTick`, `Buttons`, `Settings`**. The handler is one step (nothing it touches
is touched by the interrupt that can preempt it). The three accessors are one volatile
access each, so a tick can come between any two. `owed` is a history variable:
presses registered minus steps made. A press steps one of the settings of
`Settings`: the two tables with their real entries, the registers they lead to
(`TimebaseRegs` and `SiggenRegs`, shared with the timers' models below), and the
20 character cells of the status line. `SamplePeriod` of `TimebaseRegs` is what
ADC1, which ignores triggers while it converts, makes of TIM15's period.

**`Plot`**. One column of the screen, real coordinates and real arithmetic:
columns share no pixels, so one shows what happens to all. Text is abstracted to
ink or no ink in the column.

**`LcdSpi`, `LcdSoftSpi`, `LcdWire`**. A message is a byte and the level of A0/DC
it is meant to be read with. SPI2 is a FIFO and a shift register; the controller
takes the level of the pin when the last bit arrives. The software build clocks
single bits. Both implement the same channel.

**`Timer`, `Timebase`, `TimebaseRegs`**. `Timer` is an up-counting STM32 timer with
the shadow registers that ARPE and PSC buffering give it; TIM15 and TIM2 are
instances. `Timebase` writes ARR, PSC, CNT and EGR one by one (`pc`) while `Tick`
lets the timer and the conversion in progress go on between any two writes.
`gap` and `settled` are history variables: the clocks since the last conversion
began, and whether it began under the present setting. The ADC's conversion
time is not in the code but follows from it: 12 bits (12.5 cycles), a sample
time of 7.5 cycles, and a clock of AHB/2.

**`Siggen`, `SiggenRegs`, `WaveSpec`**. A sample is its position in the table.
`siggen_setup` is the order in which the parts are configured and enabled,
`SetupStep` its next statement. An update of TIM2 makes each DAC channel output
its holding register and ask its DMA channel for the next sample. `WaveSpec`
knows only the outputs.

**`SysClock`**. One action per register access of `set_sys_clock`; RCC makes HSE,
PLL and the switch ready in actions of its own, HSE perhaps never. `clkpc` is the
position of the function; `Startup` composes it with the rest of `main()`, which
goes on when it is `"done"`.

**`Delay`, `LcdInit`, `Startup`**. One thread, three modules: `pc` is the position of
`main()` or of the function it has called. `Delay` has the SysTick counter, its
pending exception (one, however long interrupts are masked) and `delay_ms`, and
takes the handler from `SysTick`. `LcdInit` has the reset of the controller and
the interpreter `commandList` with the tables byte for byte, except that
arguments no property is about are all `"arg"`. `waited` is a history variable:
the clocks that have passed in delays since the controller got its last command
or edge of RST. `Startup` has the order of the
calls in `main()` and the two critical sections of `capture::setup()`. A
critical section that waits for nothing is one step. The signal generator's
set-up is one step here and has a module of its own.

**`Lcd`, `Canvas`**. Each drawing function is an operator that gives the commands it
sends, with their data bytes; `Receive` is what the controller does with one:
the address window, RAM writes that wrap inside it, the MADCTL bits. `Canvas`
says the same of whole calls in terms of points on the screen: what a call
paints, clipped, turned by the rotation. Only `main()` draws, so a call is one
step; how its bytes get to the controller is `LcdSpi` and `LcdSoftSpi`.

## Runs

| Run | Config | What it shows |
|---|---|---|
| `sweep` | `Sweep.cfg` | types, `IInv`; plotted data is this sweep's, in order (`FreshTrace`); OVR is about the sweep that ended; LD3 follows the capture; the DMA channel is switched only at rest; sweeps recur, unless an overrun withholds the rest of one (`SweepsRecur`); the whole implements `SweepSpec` |
| `buttons` | `Buttons.cfg` | no press is lost or counted twice (`OneStepPerPress`); the status line is current and complete; samples come at the pace that the timebase's label states, the last entry excepted (`TimebaseLabelTrue`); implements `PressSpec`, with its liveness |
| `buttons_boot` | `ButtonsBoot.cfg` | *violated*: a flag left over from boot makes one press count twice |
| `lcd_spi` | `LcdSpi.cfg` | the FIFO never overflows, bytes in flight match A0/DC, calls return, implements `LcdWire` |
| `lcd_soft_spi` | `LcdSoftSpi.cfg` | the bit-banged link stays in step, implements `LcdWire` |
| `plot` | `Plot.cfg` | no stale dots, dots within one row of the exact place |
| `plot_graticule` | `PlotGraticuleKept.cfg` | *violated*: a trace crossing a graticule point erases it |
| `timebase` | `Timebase.cfg` | wherever in a period the four registers are written, no sample is late by more than a conversion and a call (`NoStarvation`), the period is the requested one rounded down to whole counts, and samples are evenly spaced from the next conversion on |
| `timebase_top_rate` | `TimebaseTopRate.cfg` | *violated*: at 3130434 samples per second the ADC ignores every other trigger |
| `siggen` | `Siggen.cfg` | sine and ramp stay in phase; TIM2's counter never passes ARR; implements `WaveSpec` with its liveness |
| `startup` | `Startup.cfg` | the clock in use is alive and flash and APB1 are slowed in time; with no external clock the start-up halts, with one it reaches the loop; delays last, tables are read exactly, LCD and ADC get their waits, the loop finds what it relies on |
| `lcd` | `Lcd.cfg` | every drawing call paints exactly what `Canvas` says, in every rotation |

The violated runs each state what a comment or the README says; `findings` in
`PROJECT.json` quotes it.

**Bounds.** A sweep of `N = 3` has a first, a middle and a last sample;
`MaxLost = 2` allows two overruns in a row or apart. Debounce of 3 ticks with at
most 2 ticks per loop iteration keeps the ratio that matters
(`2 * MaxLoopTicks <= DEBOUNCE + 1`, 30 ms against 100 in the code) at its
limit; the tables are the real ones. The SPI FIFO has its real size and two byte values suffice to tell messages apart. The
software link is checked with bytes of 4 bits: no step depends on the width, and the
proofs are for 8. In
`Plot` every coordinate is real; the samples are those whose dots fall on,
beside and away from graticule points, on text and on both borders.

`Timebase.cfg` scales TIM15 down (72 clocks a second, 16 counts, a prescaler of
3) and keeps what matters: rates on both sides of the branch, rounding, a rate
at which the ADC has no spare clock. `TimebaseTopRate.cfg` has the real
constants. `MaxCall` bounds the clocks that the four writes take.
`Siggen` has a table of 3 samples and frequencies that reach the lower limit of
ARR. `Startup` has the real tables, delays and 1280 polls of HSERDY; a SysTick
period of 2 clocks is enough for a delay to begin in the middle of one. `Lcd` has a glass of 3 by 4 pixels, characters of 2 by 2 that no turn or
mirror image takes to themselves, two drawing calls (`MaxCalls`) and any number
of rotations: a call's outcome depends on the glass, the rotation and the
window, and after one call all of these can be anything they can be.

**Timing assumptions.** `LedOnIsPrompt`: `main` reaches `led_on(LD3)`, a few
instructions after starting the ADC, before the last of the sweep's transfers.
`MaxLoopTicks`: a loop iteration draws at most two status lines, under 30 ms at
4.5 MHz. `Siggen`'s `Tick`: a DMA channel serves a request before the next
trigger, 25 clocks or more later at 10 kHz. `Delay`: the SysTick handler is
shorter than a clock of the counter it serves (8 clocks of the processor in the
code, a fraction of a period in the model). All are guards of the actions they
constrain. Where a handler outran `led_on(LD3)` the LED would stay lit; that order
is ruled out by `LedOnIsPrompt` and not shown to be harmless.

**Fairness.** Weak fairness of the main loop and of the handler (the processor
does not stop), of conversions (TIM15 runs from `capture::setup()` on), of DMA
transfers while OVR is clear, and of SPI2's clocking. `SweepSpec` asks for samples
only in a sweep without an overrun. In `Siggen`, of the set-up, of TIM2's clock and
of both DMA channels; nobody has to change the frequency. In `SysClock`, of the
function, the PLL's lock and the switch, but not of HSE, which need not be
connected, nor of a debugger that resumes. In `Startup`, of the SysTick counter,
its exception and the ADC, and strong fairness of `main()`: a pending exception
disables it again and again, but the handler is shorter than a period, so it gets
on in between. Nobody is obliged to press a button or to call the LCD.

## Proofs

All safety properties that the passing runs check are proved, except `ImplementsCanvas`.
The invariants below were first checked by TLC, on the instance of the run.

`SweepProofs` proves, for every `N >= 1` and every `MaxLost`, that `IInv` is
inductive, and from it `TypeOK`, `FreshTrace`, `OvrIsAboutThisSweep`,
`Ld3ShowsCapture` and the action property `ChannelSwitchedAtRest`. None of these
is inductive alone. `FreshTrace` needs to know what the buffer holds (`Stored`),
which needs to know that conversions are numbered beyond what is stored
(`Overruns`), which needs to know that the ADC is armed exactly while transfers
are left (`Hardware`), which needs to know where the main loop is when the
channel is enabled (`Progress`), and that a completed sweep's interrupt has been
served before the main loop plots its last column (`Masking`). The only
assumption is that `N` is positive and `MaxLost` a natural number; the timing
assumption `LedOnIsPrompt` is part of the model. `SweepIsImplemented` is the
refinement of `SweepSpec` without its fairness: starting the ADC begins a sweep,
a DMA transfer is a sample, plotting a column shows one, disabling the channel
ends the sweep, a conversion that finds the previous one not yet stored is an
overrun (`ConvertOverruns`), and every other step leaves the sequences alone.

`ButtonsProofs` proves, for every debounce time and loop time within the stated
ratio, `TypeOK`, `OneStepPerPress` and the safety of `PressSpec`. `BInv` says, for
each button, that it owes a press exactly while it is down and its change is still
to be looked at, or being looked at (`Flagged`), and that its debounce counter
then outlasts the ticks that may come before the main loop is done with it
(`TicksLeft`): no second change can slip in. About
`Settings` it proves `SettingsInv` (`SettingsFollowed`): registers and status line
are those of the two table entries selected. `StatusLineCurrent` follows for every
entry; `TimebaseLabelTrue` follows for the clocks of the board, which are the
hypothesis of `LabelsHonest`, by evaluating the arithmetic of the 16 entries it is
about and because the ADC keeps up with each (`EveryTriggerConverts`). To the provers
a string is an atom, so the widths of the labels are an assumption of `Settings`
(`TextWidths`), which TLC evaluates.

`PlotProofs` proves, for every column and every set of samples, `TypeOK`,
`NoStaleDots` and `DotWithinOneRow`. The arithmetic is one lemma, `RowOfSample`,
about all 4096 conversions.

`TimebaseProofs` proves `RateHonoured` and `NoStarvation` for every clock, prescaler,
branch bound, conversion time and set of rates such that each rate's ARR fits the
counter (`ArrsFit`); `OneRateDoesNotFit` proves that with the real constants 1098,
which is not in the table, is the only rate that does not. `EvenSpacing` also needs
periods no shorter than a conversion (`RatesFit`), which the last entry of the table
breaks (`timebase_top_rate`). The invariant `RInv` says that outside a call the
shadow registers are those of the setting, and that inside one the registers
written so far hold the new values; `TInv` adds that `gap` is exactly the timer's
count once the setting has settled. `NoStarvation`
needs `GapInv` on top of `RInv`: outside a call `gap` is at most a conversion ahead of
the clocks that the timer has counted (`Elapsed`), which are fewer than a period;
inside one it may grow by the clocks of the call. `CountsOn` has the arithmetic of
a counter behind a prescaler: `cnt * (psc + 1) + pcnt` grows by one a clock.

`SiggenProofs` proves `InPhase`, `NotInTheWeeds` and the safety part of `WaveSpec`
for every table length, counter width and set of frequencies. `SInv` says that
nothing has triggered the DAC before the set-up is over, and that from then on
each DMA channel is one sample ahead of its output, or has a request pending.

`StartupProofs` is about `Startup` with everything it composes, for every SysTick
period, every debounce time, every number of polls of HSERDY and whatever RCC and
the buttons do.

* `DInv` ties the ticks that `delay_ms` has counted to the clocks elapsed
  (`Counted`), which needs interrupts to be unmasked in every delay
  (`MaskedWhere`). It gives `DelayLongEnough`; `RegulatorAge` carries the result
  from the delay to the calibration (`RegulatorSettled`).
* `CInv` lists what is in place after each statement of `set_sys_clock`. It gives
  `ClockAlive`, `SlowedInTime` and `PllSetWhileOff`. `ClockRunsAsAlone` shows that
  the composition takes no step of the clock that `SysClock` does not have.
* `MainInv` says the same of the statements of `main()` and `capture::setup()`. It
  gives `AdcInOrder`.
* `LcdInv` is about the command lists. `CommandAt(l, a, n)` holds of the places `a` at
  which a command of table `l` stands with `n` commands still to come. `TableInv`
  says that the interpreter is at such a place, or will be once it has read the
  arguments and the delay that are left of a command; `TablesAreRead` shows, entry
  by entry, that one command leads to the next. This is `TablesReadExactly`.
  `LcdStateInv` adds what the controller has been told so far, `WaitInv` that
  the delay that follows a command or an edge of RST is the one it needs, and
  `WaitedInv` that `waited` covers the whole of that delay: `LcdGetsItsTime`.
* `Unreported` says that a button whose flag is clear is up and not being debounced.
  With the final states of the invariants above it gives `ReadyForLoop`.

`LcdSpiProofs` proves `TypeOK`, `InFlightMatchesLine` and the safety part of `LcdWire`
for every FIFO size, every level of TXE below it and every set of bytes. `FInv`
says that the bytes in the shift register and the FIFO are those sent and not
yet received, in order, all with the level that the line now has.

`LcdSoftSpiProofs` proves `TypeOK`, `InStep` and the safety part of `LcdWire` for
bytes of eight bits (`Width = 8`): the provers know powers of two as numbers only,
so the arithmetic of a bit is eight cases. `SInv` shares the byte out between the
sender, which has its lowest bits left-aligned in `data` (`Rest`), and the
controller, which has the others (`Held`); `TopBitIsNext` and `SampleAddsBit` pass
one bit on.

Only model-checked: all liveness (it is outside the prover's reach, with the
fairness it rests on), hence `SweepsRecur`, `CallsReturn`, `FinishesOrHalts`,
`Boots` and the liveness half of the refinements; and `Lcd` with its refinement of
`Canvas`, whose commands and pixels are folds over sequences, about which nothing
can be proved without induction over data. `TypeOK` of `Timebase` and `Siggen` and
`PllSetWhileOff` are proved and have no run.

## Other disagreements with comments and documents

Met while modelling; they follow from single definitions and have no run.

* `main.rs:272` says of `y < 0` "(can't yet happen)": conversion 4095 gives
  `y_of(4095) = -1`.
* `main.rs:267-268` says "we could just right shift by 5 bits": from conversion
  2367 on, some are drawn a row higher than the shift would (`DotWithinOneRow`
  bounds how far a dot is from its exact row).
* `docs/connections.rst:12-13` has the sine on PA4 and the ramp on PA5;
  `siggen.rs:129-158` feeds the sine to DAC channel 2, PA5, and the ramp to
  channel 1, PA4.
* `README.rst:54` gives 1,600,000 samples per second as the maximum, and
  `README.rst:57-58` 20µs/div as the fastest timebase; the table
  (`main.rs:141`) goes on to 3130434 and "~10us".
* `docs/peripherals.rst` has LD5 "toggled after each display sweep". A sweep with an
  overrun may have no end: OVR is cleared after the sweep only
  (`capture.rs:201-211`), and nothing restarts an ADC that has stopped requesting
  transfers. `SweepsRecur` has this as its one exception.
* `capture.rs:213` promises "the specified number of samples per second"; 1098
  does not fit ARR (`OneRateDoesNotFit`).

## Not modelled

* The order in which the compiler emits the non-volatile reads of
  `CAPTURE_CHANNEL_1`; the model reads in program order.
* TIM2's input clock. `siggen.rs` takes 36 MHz; RCC may give timers twice the clock
  of a divided bus. No property relies on it, and none relates the frequency
  labels to the outputs.
* Pin, bus clock and peripheral configuration writes, except as the initial
  states and the configurations that the modelled hardware has.
* `colstart` and `rowstart` of green-tab displays in the drawing functions (`main()`
  names a red tab), and the `LCD_SOFT_RESET` variant of the reset, which is not
  compiled.
* The font: a table of bitmaps without behaviour; `Lcd` is parameterised by it.
* `build.rs`, which runs on the host.
* Both interrupt handlers in one model. They share no variable: SysTick touches
  the button flags and the delay, the DMA handler the LED port and its own flag,
  and `Sweep` already lets the main loop be delayed anywhere.
