-------------------------------- MODULE Plot --------------------------------
(***************************************************************************)
(* One column of the display while sweeps go by: the pixels of column x,   *)
(* previous_y[x], and what main() draws there: the graticule, each new     *)
(* sample's dot over the erased old one, and the status line.  Columns     *)
(* share no pixel and no element of previous_y, so any one of them shows   *)
(* what happens to all.                                                    *)
(***************************************************************************)
EXTENDS Integers

CONSTANTS
  Columns,      \* columns to look at, out of 0 .. 159
  RawSamples    \* 12-bit conversions that the ADC may deliver

Conversion == 0 .. 4095

ASSUME PlotAssumption == Columns \subseteq 0 .. 159 /\ RawSamples \subseteq Conversion

Rows == 0 .. 127
Color == {"Black", "Green", "Red", "White"}

VARIABLES
  x,             \* the column
  screen,        \* row -> colour
  previous_y,    \* row of the column's dot, 255 before the first one
  raw            \* the sample plotted last, 0 before the first one

vars == <<x, screen, previous_y, raw>>

-----------------------------------------------------------------------------
\* Points that the two loops under "paint graticule" draw in red.
graticule == {p \in (0 .. 159) \X Rows : p[1] \in {32, 64, 96, 128} /\ 127 - p[2] \in {32, 64, 96}}

Graticule == {y \in Rows : <<x, y>> \in graticule}

\* Row that a raw conversion is drawn on, before clipping.
microvolts(r) == r * 806

\* Mutated form: the quotient rounded up.
y_of_rounded_up(r) == 127 - (microvolts(r) + 25780) \div 25781

y_of(r) == 127 - microvolts(r) \div 25781

\* Mutated form: the branch that "can't yet happen" left out.
clipped_below_only(y) == IF y > 127 THEN 127 ELSE y

clipped(y) == IF y < 0 THEN 0 ELSE IF y > 127 THEN 127 ELSE y

\* A dot out of range is drawn red at the border.
dot_color(y) == IF y < 0 \/ y > 127 THEN "Red" ELSE "White"

\* Mutated form: the old dot is left where it is.
erased_not == screen

\* "erase old plot"
erased ==
  IF previous_y < 255
  THEN [screen EXCEPT ![previous_y] = IF x % 32 = 0 /\ previous_y % 32 = 0 THEN "Green" ELSE "Black"]
  ELSE screen

\* Text is abstracted to ink or no ink in this column: a line of twelve rows
\* from `top' is printed over what was there, `ink' in green and the rest black.
Lines(top) == top .. top + 11

Printed(old, top, ink) ==
  [y \in Rows |-> IF y \notin Lines(top) THEN old[y] ELSE IF y \in ink THEN "Green" ELSE "Black"]

\* The blank screen with the title over its nine characters, the graticule, and
\* the status lines that main() prints before it enters its loop.
Init ==
  /\ x \in Columns
  /\ \E title \in {{}, IF x < 72 THEN Lines(0) ELSE {}}, status \in {{}, Lines(116)} :
       LET painted == [y \in Rows |-> IF y \in Graticule THEN "Red"
                                      ELSE IF y \in title THEN "Green" ELSE "Black"]
       IN  screen = Printed(painted, 116, status)
  /\ previous_y = 255
  /\ raw = 0

\* SweepState::During for this column: erase, convert, clip, draw, remember.
PlotSample ==
  \E r \in RawSamples :
    LET y == y_of(r) IN
      /\ raw' = r
      /\ previous_y' = clipped(y)
      /\ screen' = [erased EXCEPT ![clipped(y)] = dot_color(y)]
      /\ UNCHANGED x

\* clear_status_line and the text printed after it, when a button is pressed.
StatusLine ==
  \E ink \in {{}, Lines(116)} :
    /\ screen' = Printed(screen, 116, ink)
    /\ UNCHANGED <<x, previous_y, raw>>

\* "OVR set", printed after an overrun by builds with debug assertions.
OvrMessage ==
  /\ x < 56
  /\ \E ink \in {{}, Lines(104)} : screen' = Printed(screen, 104, ink)
  /\ UNCHANGED <<x, previous_y, raw>>

Next == PlotSample \/ StatusLine \/ OvrMessage

Spec == Init /\ [][Next]_vars

-----------------------------------------------------------------------------
\* Every variable keeps its type; in particular previous_y is a row of the screen
\* or 255, so a dot is erased where one can be.
TypeOK ==
  /\ x \in Columns /\ screen \in [Rows -> Color]
  /\ previous_y \in Rows \cup {255} /\ raw \in Conversion

\* The sweep leaves no dots behind: whatever was plotted, clipped, erased and
\* overwritten by status lines before, a pixel of the column that is lit as a
\* dot, other than the graticule's, is the dot of the latest sample.
NoStaleDots ==
  \A y \in Rows : screen[y] = "White" \/ (screen[y] = "Red" /\ y \notin Graticule)
                    => y = previous_y

\* The voltage arithmetic with its rounded constants (806 and 25781) puts the
\* dot within one row of where the exact ratio, raw / 4096 of 128 rows, puts it.
DotWithinOneRow ==
  previous_y < 255 => previous_y - (127 - raw \div 32) \in {-1, 0}

\* "paint graticule" (main.rs:211) and "erase old plot" (main.rs:253): erasing
\* a dot gives back what it covered, so a graticule point is always either red
\* or under the dot of the latest sample.
GraticuleKept == \A y \in Graticule : screen[y] = "Red" \/ y = previous_y
=============================================================================
