----------------------------- MODULE PlotProofs -----------------------------
(***************************************************************************)
(* Proofs about Plot.tla, for every column and every set of samples.       *)
(***************************************************************************)
EXTENDS Plot, TLAPS

\* The voltage arithmetic of main(), for each of the 4096 conversions: the row
\* is above the screen for full scale only, never below it, and once clipped it
\* is at most one row higher than the row of the exact ratio.
LEMMA RowOfSample ==
  ASSUME NEW r \in Conversion
  PROVE  /\ y_of(r) <= 127
         /\ y_of(r) < 0 <=> r = 4095
         /\ clipped(y_of(r)) \in Rows
         /\ clipped(y_of(r)) - (127 - r \div 32) \in {-1, 0}
<1> USE DEF Conversion
<1> DEFINE q == (r * 806) \div 25781
           s == r \div 32
<1>1. q \in Nat /\ 25781 * q <= r * 806 /\ r * 806 < 25781 * q + 25781
  OBVIOUS
<1>2. s \in Nat /\ 32 * s <= r /\ r < 32 * s + 32
  OBVIOUS
<1> HIDE DEF q, s
<1>3. q \in 0 .. 128 /\ (q = 128 <=> r = 4095)
  <2>0. r * 806 <= 3300570 /\ (r # 4095 => r * 806 <= 3299764)
    OBVIOUS
  <2>1. q <= 128
    BY <1>1, <2>0
  <2>2. q = 128 => r = 4095
    BY <1>1, <2>0
  <2>3. r = 4095 => q = 128
    BY <1>1
  <2> QED
    BY <1>1, <2>1, <2>2, <2>3
<1>4. q - s \in {0, 1} /\ s \in 0 .. 127
  <2>0. r \in Int /\ r < 32 * 128
    OBVIOUS
  <2>1. s < 128
    BY <1>2, <2>0 DEF s
  <2>2. 25792 * s <= r * 806 /\ r * 806 <= 25792 * s + 24986
    BY <1>2
  <2>3. s < q + 1
    BY <1>1, <1>2, <2>2
  <2>4. q <= s + 1
    BY <1>1, <1>2, <2>1, <2>2
  <2> QED
    BY <1>1, <1>2, <2>1, <2>3, <2>4
<1>5. y_of(r) = 127 - q
  BY DEF y_of, microvolts, q
<1> QED
  BY <1>3, <1>4, <1>5 DEF clipped, Rows, s

\* Erasing leaves no dot behind: what still looks like one was never a dot.
LEMMA ErasedHasNoDots ==
  ASSUME TypeOK, NoStaleDots
  PROVE  /\ erased \in [Rows -> Color]
         /\ \A y \in Rows : erased[y] # "White" /\ (erased[y] = "Red" => y \in Graticule)
<1>1. CASE previous_y \in Rows
  <2> DEFINE back == IF x % 32 = 0 /\ previous_y % 32 = 0 THEN "Green" ELSE "Black"
  <2>1. previous_y < 255
    BY <1>1 DEF Rows
  <2>2. erased = [screen EXCEPT ![previous_y] = back]
    BY <2>1, Zenon DEF erased
  <2>3. back \in {"Green", "Black"}
    OBVIOUS
  <2> HIDE DEF back
  <2> QED
    BY <1>1, <2>2, <2>3 DEF TypeOK, NoStaleDots, Color
<1>2. CASE previous_y = 255
  <2>1. erased = screen
    BY <1>2 DEF erased
  <2>2. \A y \in Rows : y # previous_y
    BY <1>2 DEF Rows
  <2> QED
    BY <2>1, <2>2 DEF TypeOK, NoStaleDots
<1> QED
  BY <1>1, <1>2 DEF TypeOK

\* Printing a line of text draws no dots and moves none.
LEMMA PrintedAddsNoDots ==
  ASSUME NEW old \in [Rows -> Color], NEW top, NEW ink
  PROVE  /\ Printed(old, top, ink) \in [Rows -> Color]
         /\ \A y \in Rows : Printed(old, top, ink)[y] \in {old[y], "Green", "Black"}
  BY DEF Printed, Color

\* The inductive invariant: the properties of the run are inductive together.
PlotInv == TypeOK /\ NoStaleDots /\ DotWithinOneRow

\* The screen as main() sets it up shows the graticule and text only.
LEMMA InitPlotInv == Init => PlotInv
<1> SUFFICES ASSUME Init PROVE PlotInv
  OBVIOUS
<1>1. PICK title, status :
        LET painted == [y \in Rows |-> IF y \in Graticule THEN "Red"
                                       ELSE IF y \in title THEN "Green" ELSE "Black"]
        IN  screen = Printed(painted, 116, status)
  BY ZenonT(40) DEF Init
<1> DEFINE painted == [y \in Rows |-> IF y \in Graticule THEN "Red"
                                      ELSE IF y \in title THEN "Green" ELSE "Black"]
<1>2. /\ painted \in [Rows -> Color]
      /\ \A y \in Rows : painted[y] # "White" /\ (painted[y] = "Red" => y \in Graticule)
  BY DEF Color
<1>3. screen = Printed(painted, 116, status)
  BY <1>1
<1> HIDE DEF painted
<1>4. /\ screen \in [Rows -> Color]
      /\ \A y \in Rows : screen[y] \in {painted[y], "Green", "Black"}
  BY <1>2, <1>3, PrintedAddsNoDots
<1>5. TypeOK /\ DotWithinOneRow
  BY <1>4 DEF Init, TypeOK, DotWithinOneRow, Conversion
<1>6. NoStaleDots
  BY <1>2, <1>4 DEF NoStaleDots
<1> QED
  BY <1>5, <1>6 DEF PlotInv

\* A step that only prints text keeps the invariant.
LEMMA PrintPlotInv ==
  ASSUME PlotInv, NEW top, NEW ink,
         screen' = Printed(screen, top, ink), UNCHANGED <<x, previous_y, raw>>
  PROVE  PlotInv'
<1>1. /\ screen' \in [Rows -> Color]
      /\ \A y \in Rows : screen'[y] \in {screen[y], "Green", "Black"}
  BY PrintedAddsNoDots DEF PlotInv, TypeOK
<1>2. TypeOK' /\ DotWithinOneRow'
  BY <1>1 DEF PlotInv, TypeOK, DotWithinOneRow
<1>3. NoStaleDots'
  BY <1>1 DEF PlotInv, NoStaleDots, Graticule
<1> QED
  BY <1>2, <1>3 DEF PlotInv

\* Plotting a sample keeps the invariant.
LEMMA PlotSamplePlotInv == PlotInv /\ PlotSample => PlotInv'
<1> SUFFICES ASSUME PlotInv, PlotSample PROVE PlotInv'
  OBVIOUS
<1>1. PICK r \in RawSamples :
        /\ raw' = r /\ previous_y' = clipped(y_of(r)) /\ x' = x
        /\ screen' = [erased EXCEPT ![clipped(y_of(r))] = dot_color(y_of(r))]
  BY DEF PlotSample
<1>2. r \in Conversion
  BY PlotAssumption
<1> DEFINE c == clipped(y_of(r))
<1>3. c \in Rows /\ c - (127 - r \div 32) \in {-1, 0}
  BY <1>2, RowOfSample
<1>4. erased \in [Rows -> Color]
      /\ \A y \in Rows : erased[y] # "White" /\ (erased[y] = "Red" => y \in Graticule)
  BY ErasedHasNoDots DEF PlotInv
<1>5. screen' = [erased EXCEPT ![c] = dot_color(y_of(r))] /\ dot_color(y_of(r)) \in Color
  BY <1>1 DEF dot_color, Color
<1>6. previous_y' = c /\ raw' = r /\ x' = x
  BY <1>1
<1> HIDE DEF c
<1>7. TypeOK'
  BY <1>2, <1>3, <1>4, <1>5, <1>6 DEF PlotInv, TypeOK
<1>8. NoStaleDots'
  BY <1>3, <1>4, <1>5, <1>6 DEF NoStaleDots, Graticule
<1>9. DotWithinOneRow'
  BY <1>3, <1>6 DEF DotWithinOneRow
<1> QED
  BY <1>7, <1>8, <1>9 DEF PlotInv

\* The invariant holds throughout.
THEOREM PlotInvariant == Spec => []PlotInv
<1>1. PlotInv /\ [Next]_vars => PlotInv'
  <2> SUFFICES ASSUME PlotInv, [Next]_vars PROVE PlotInv'
    OBVIOUS
  <2>1. CASE PlotSample
    BY <2>1, PlotSamplePlotInv
  <2>2. CASE StatusLine
    BY <2>2, PrintPlotInv DEF StatusLine
  <2>3. CASE OvrMessage
    BY <2>3, PrintPlotInv DEF OvrMessage
  <2>4. CASE UNCHANGED vars
    BY <2>4 DEF vars, PlotInv, TypeOK, NoStaleDots, DotWithinOneRow, Graticule
  <2> QED
    BY <2>1, <2>2, <2>3, <2>4 DEF Next
<1> QED
  BY <1>1, InitPlotInv, PTL DEF Spec

\* However many sweeps have passed over a column, its only dot is the latest
\* sample's.
THEOREM PlotLeavesNoDots == Spec => []NoStaleDots
<1>1. PlotInv => NoStaleDots
  BY DEF PlotInv
<1> QED
  BY <1>1, PlotInvariant, PTL

\* Every dot is drawn within one row of its exact place.
THEOREM PlotIsAccurate == Spec => []DotWithinOneRow
<1>1. PlotInv => DotWithinOneRow
  BY DEF PlotInv
<1> QED
  BY <1>1, PlotInvariant, PTL

\* main.rs:252-282: every row that the sweep erases or draws is a row of the display, and the
\* column remembered for the next sweep is one, or the 255 that stands for none.
THEOREM PlotStaysOnScreen == Spec => []TypeOK
<1>1. PlotInv => TypeOK
  BY DEF PlotInv
<1> QED
  BY <1>1, PlotInvariant, PTL
=============================================================================
