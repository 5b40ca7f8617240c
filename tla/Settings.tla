------------------------------ MODULE Settings ------------------------------
(***************************************************************************)
(* The two settings that the pushbuttons step through, the timebase and    *)
(* the signal generator's frequency: the tables, the timer registers that  *)
(* follow them, and the status line that names the one set last.  The line *)
(* has twenty cells; a cell shows the k-th character of a text.            *)
(***************************************************************************)
EXTENDS TimebaseRegs, SiggenRegs, Sequences, FiniteSets

VARIABLES
  timebase_index, siggen_freq_index,
  tim15,      \* ARR and PSC of TIM15, 16 bits each
  tim2_arr,   \* ARR of TIM2
  line,       \* the status line
  latest      \* the setting made last

settingsVars == <<timebase_index, siggen_freq_index, tim15, tim2_arr, line, latest>>

Freq(frequency, label) == [frequency |-> frequency, label |-> label]

SIGGEN_FREQUENCIES ==
  <<Freq(1, "1Hz"), Freq(3, "3Hz"), Freq(10, "10Hz"), Freq(33, "33Hz"), Freq(100, "100Hz"),
    Freq(333, "333Hz"), Freq(1000, "1kHz"), Freq(3333, "3.3kHz"), Freq(10000, "10kHz")>>

\* `us' is the number that the label states, `about' is the "~" of some.
Interval(sample_rate, label, us) ==
  [sample_rate |-> sample_rate, label |-> label, us |-> us, about |-> label \in {"~50us", "~10us"}]

TIMEBASE_INTERVALS ==
  <<Interval(1, "32s", 32000000), Interval(32, "1s", 1000000), Interval(64, ".5s", 500000),
    Interval(160, ".2s", 200000), Interval(320, ".1s", 100000), Interval(640, "50ms", 50000),
    Interval(1600, "20ms", 20000), Interval(3200, "10ms", 10000), Interval(6400, "5ms", 5000),
    Interval(16000, "2ms", 2000), Interval(32000, "1ms", 1000), Interval(64000, ".5ms", 500),
    Interval(160000, ".2ms", 200), Interval(320000, ".1ms", 100), Interval(640000, "~50us", 50),
    Interval(1600000, "20us", 20), Interval(3130434, "~10us", 10)>>

\* Cells that a text takes, one for each character.
Width(text) == Len(text)

\* Every label fits on the line.  (To the provers a string is an atom.)
ASSUME TextWidths ==
  /\ Width("siggen freq:") = 12 /\ Width("/div") = 4
  /\ \A i \in 1 .. Len(SIGGEN_FREQUENCIES) : Width(SIGGEN_FREQUENCIES[i].label) \in 1 .. 7
  /\ \A i \in 1 .. Len(TIMEBASE_INTERVALS) : Width(TIMEBASE_INTERVALS[i].label) \in 1 .. 16

Timebase   == TIMEBASE_INTERVALS[timebase_index + 1]
SiggenFreq == SIGGEN_FREQUENCIES[siggen_freq_index + 1]

-----------------------------------------------------------------------------
Cells == 0 .. 19
Blank == <<"", 0>>

\* A text printed from a cell on, cut off at the edge of the screen.
st7735_print(old, text, cell) ==
  [c \in Cells |-> IF c - cell \in 0 .. Width(text) - 1 THEN <<text, c - cell + 1>> ELSE old[c]]

\* Mutated form: the line is printed over.
clear_status_line_not(old) == old

clear_status_line(old) == [c \in Cells |-> Blank]

\* Pixel columns 0 and 104.
set_siggen_freq_from_index(i) ==
  LET f == SIGGEN_FREQUENCIES[i + 1] IN
    /\ tim2_arr' = siggen_arr(f.frequency)
    /\ line' = st7735_print(st7735_print(clear_status_line(line), "siggen freq:", 0), f.label, 13)
    /\ latest' = "siggen"

timebase_line(old, t) ==
  st7735_print(st7735_print(clear_status_line(old), t.label, 0), "/div", Width(t.label))

timebase_regs(t) ==
  [arr |-> arr_of(t.sample_rate) % 2^16, psc |-> psc_of(t.sample_rate) % 2^16]

set_capture_timebase_from_index(i) ==
  LET t == TIMEBASE_INTERVALS[i + 1] IN
    /\ tim15' = timebase_regs(t)
    /\ line' = timebase_line(line, t)
    /\ latest' = "timebase"

\* What main() sets before its loop: 1 kHz, then the middle of the timebases.
SettingsInit ==
  /\ siggen_freq_index = 6 /\ tim2_arr = siggen_arr(1000)
  /\ timebase_index = Len(TIMEBASE_INTERVALS) \div 2 /\ tim15 = timebase_regs(Timebase)
  /\ line = timebase_line([c \in Cells |-> Blank], Timebase)
  /\ latest = "timebase"

\* The entry after i in a table of n, the first after the last.
next_index(i, n) == (i + 1) % n

\* Button 1 was pressed.
NextTimebase ==
  /\ timebase_index' = next_index(timebase_index, Len(TIMEBASE_INTERVALS))
  /\ set_capture_timebase_from_index(timebase_index')
  /\ UNCHANGED <<siggen_freq_index, tim2_arr>>

\* Button 4 was pressed.
NextSiggenFreq ==
  /\ siggen_freq_index' = next_index(siggen_freq_index, Len(SIGGEN_FREQUENCIES))
  /\ set_siggen_freq_from_index(siggen_freq_index')
  /\ UNCHANGED <<timebase_index, tim15>>

-----------------------------------------------------------------------------
Shows(text, cell) == \A k \in 1 .. Width(text) : cell + k - 1 \in Cells /\ line[cell + k - 1] = <<text, k>>

Inked == Cardinality({c \in Cells : line[c] # Blank})

\* main.rs:322-340: the line names the value in force of the setting made last, to
\* its last character, and nothing of what it said before is left.
StatusLineCurrent ==
  \/ /\ latest = "siggen" /\ Shows("siggen freq:", 0) /\ Shows(SiggenFreq.label, 13)
     /\ Inked = 12 + Width(SiggenFreq.label)
  \/ /\ latest = "timebase" /\ Shows(Timebase.label, 0) /\ Shows("/div", Width(Timebase.label))
     /\ Inked = Width(Timebase.label) + 4

\* The last timebase asks for more samples than ADC1 can convert.
BeyondAdc == timebase_index = Len(TIMEBASE_INTERVALS) - 1

\* main.rs:120-137: what the status line says of the timebase is what TIM15, with the
\* two 16-bit registers it really holds, and ADC1 do.  The 32 samples of a division of
\* the graticule take exactly its label's time, or within 5% of it where that says
\* "~".  The last entry is the exception (TimebaseTopRate.cfg).
TimebaseLabelTrue ==
  LET Abs(n) == IF n < 0 THEN -n ELSE n
      \* Eighths of a division's 32 samples, and of its label, at 72 clocks a microsecond.
      actual == 4 * SamplePeriod((tim15.arr + 1) * (tim15.psc + 1))
      stated == 9 * Timebase.us
  IN  ~BeyondAdc =>
        IF Timebase.about THEN 20 * Abs(actual - stated) <= stated ELSE actual = stated
=============================================================================
