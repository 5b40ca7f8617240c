-------------------------------- MODULE Lcd --------------------------------
(***************************************************************************)
(* The drawing functions of st7735.rs and ST7735.c as the commands they    *)
(* send, each with the data bytes that follow it, and the LCD controller   *)
(* that receives them: an address window that pixels of two bytes fill,    *)
(* and the MADCTL bits that turn the picture.  How the bytes get there is  *)
(* LcdSpi.tla and LcdSoftSpi.tla.  Only main() draws, so a call is one     *)
(* step.  The display is the one that main() names, with a red tab:        *)
(* colstart and rowstart are 0.                                            *)
(***************************************************************************)
EXTENDS Integers, Sequences, SequencesExt

CONSTANTS
  TFTWIDTH, TFTHEIGHT, GLYPHWIDTH, GLYPHHEIGHT, FONT,    \* as in Canvas.tla
  COORDS, SIZES,    \* coordinates and sizes that calls name
  COLORS, TEXTS,    \* colours and texts they name
  MaxCalls          \* bound on the drawing calls

ASSUME LcdAssumption ==
  /\ {TFTWIDTH, TFTHEIGHT, GLYPHWIDTH, GLYPHHEIGHT} \subseteq Nat \ {0}
  /\ \A c \in DOMAIN FONT : FONT[c] \in Seq(Nat) /\ Len(FONT[c]) = GLYPHHEIGHT

VARIABLES
  width, height,    \* _width and _height of ST7735.c
  rotation, call,   \* history, for Canvas.tla
  calls,            \* number of drawing calls made
  lcd               \* the controller

vars == <<width, height, rotation, call, calls, lcd>>

Canvas == INSTANCE Canvas WITH glass <- lcd.glass

-----------------------------------------------------------------------------
(* The controller.                                                         *)

Command(c, data) == [cmd |-> c, data |-> data]

\* The pixel that an address stands for.
Pixel(l, x, y) ==
  LET a == IF "MV" \in l.madctl THEN y ELSE x
      b == IF "MV" \in l.madctl THEN x ELSE y
  IN  <<IF "MX" \in l.madctl THEN TFTWIDTH - 1 - a ELSE a,
        IF "MY" \in l.madctl THEN TFTHEIGHT - 1 - b ELSE b>>

\* The pixel that the k-th colour after RAMWR goes to: the window is filled row
\* by row, and again from its start once it is full.
Target(l, k) ==
  LET w == l.xe - l.xs + 1
      h == l.ye - l.ys + 1
  IN  Pixel(l, l.xs + ((k - 1) % w), l.ys + (((k - 1) \div w) % h))

\* A pixel keeps the last colour that was sent to it; colours for addresses off
\* the glass are lost.
Stored(l, data) ==
  [p \in DOMAIN l.glass |->
     LET ks == {k \in 1 .. Len(data) \div 2 : Target(l, k) = p} IN
       IF ks = {} THEN l.glass[p] ELSE data[2 * Max(ks) - 1] * 256 + data[2 * Max(ks)]]

Receive(l, m) ==
  CASE m.cmd = "MADCTL" -> [l EXCEPT !.madctl = m.data[1]]
    [] m.cmd = "CASET" -> [l EXCEPT !.xs = m.data[2], !.xe = m.data[4]]
    [] m.cmd = "RASET" -> [l EXCEPT !.ys = m.data[2], !.ye = m.data[4]]
    [] m.cmd = "RAMWR" -> [l EXCEPT !.glass = Stored(l, m.data)]

-----------------------------------------------------------------------------
(* The drawing functions: the commands that a call sends.                  *)

Black == 0

u8(n) == n % 256

st7735_send_color(color) == <<color \div 256, color % 256>>

\* n times the same colour.
Repeat(n, color) == FlattenSeq([i \in 1 .. n |-> st7735_send_color(color)])

\* st7735_setAddrWindow, and the colours that its caller sends next.
st7735_setAddrWindow(x0, y0, x1, y1, colors) ==
  <<Command("CASET", <<0, u8(x0), 0, u8(x1)>>), Command("RASET", <<0, u8(y0), 0, u8(y1)>>),
    Command("RAMWR", colors)>>

st7735_drawPixel(x, y, color) ==
  IF x < 0 \/ x >= width \/ y < 0 \/ y >= height THEN <<>>
  ELSE st7735_setAddrWindow(x, y, x + 1, y + 1, st7735_send_color(color))

st7735_drawFastVLine(x, y, h0, color) ==
  LET h == IF y + h0 - 1 >= height THEN height - y ELSE h0 IN
    IF x >= width \/ y >= height THEN <<>>
    ELSE st7735_setAddrWindow(x, y, x, y + h - 1, Repeat(h, color))

st7735_drawFastHLine(x, y, w0, color) ==
  LET w == IF x + w0 - 1 >= width THEN width - x ELSE w0 IN
    IF x >= width \/ y >= height THEN <<>>
    ELSE st7735_setAddrWindow(x, y, x + w - 1, y, Repeat(w, color))

\* Mutated form: the pixels are cut off at the edge, the window is not.
st7735_fill_rect_uncut(x, y, w0, h0, color) ==
  LET w == IF x + w0 - 1 >= width THEN width - x ELSE w0
      h == IF y + h0 - 1 >= height THEN height - y ELSE h0
  IN  IF x >= width \/ y >= height THEN <<>>
      ELSE st7735_setAddrWindow(x, y, x + w0 - 1, y + h0 - 1, Repeat(w * h, color))

st7735_fill_rect(x, y, w0, h0, color) ==
  LET cutx == x + w0 - 1 >= width
      cuty == y + h0 - 1 >= height
      w    == IF cutx THEN width - x ELSE w0
      h    == IF cuty THEN height - y ELSE h0
  IN  IF (cutx /\ x >= width) \/ (cuty /\ y >= height) THEN <<>>
      ELSE st7735_setAddrWindow(x, y, x + w - 1, y + h - 1, Repeat(w * h, color))

st7735_fillScreen(color) == st7735_fill_rect(0, 0, width, height, color)

\* A row of a character, least significant bit first.
GlyphRow(bits, fg, bg) ==
  FlattenSeq([i \in 1 .. GLYPHWIDTH |->
                st7735_send_color(IF (bits \div 2^(i - 1)) % 2 = 1 THEN fg ELSE bg)])

st7735_putc_unchecked(x, y, c, fg, bg) ==
  IF c \notin DOMAIN FONT THEN <<>>
  ELSE st7735_setAddrWindow(x, y, x + GLYPHWIDTH - 1, y + GLYPHHEIGHT - 1,
         FlattenSeq([yrow \in 1 .. GLYPHHEIGHT |-> GlyphRow(FONT[c][yrow], fg, bg)]))

st7735_putc(x, y, c, fg, bg) ==
  IF x > width - GLYPHWIDTH \/ y > height - GLYPHHEIGHT THEN <<>>
  ELSE st7735_putc_unchecked(x, y, c, fg, bg)

\* Characters up to the first that does not fit.
st7735_print(text, x0, y, fg, bg) ==
  LET x(k) == x0 + (k - 1) * GLYPHWIDTH IN
    IF y > height - GLYPHHEIGHT THEN <<>>
    ELSE FlattenSeq([k \in 1 .. Len(text) |->
           IF x(k) > width - GLYPHWIDTH THEN <<>>
           ELSE st7735_putc_unchecked(x(k), y, text[k], fg, bg)])

-----------------------------------------------------------------------------
\* After initR: the upright display, blank, MADCTL as its table sets it.
Init ==
  /\ width = TFTWIDTH /\ height = TFTHEIGHT /\ rotation = 0
  /\ call = Canvas!Rotate(0) /\ calls = 0
  /\ lcd = [madctl |-> {"MX", "MY"},
            xs |-> 0, xe |-> TFTWIDTH - 1, ys |-> 0, ye |-> TFTHEIGHT - 1,
            glass |-> [p \in Canvas!Glass |-> Black]]

\* A call is made and its commands reach the controller.
Sends(c, commands) ==
  /\ calls < MaxCalls /\ calls' = calls + 1
  /\ call' = c
  /\ lcd' = FoldLeft(Receive, lcd, commands)
  /\ UNCHANGED <<width, height, rotation>>

DrawPixel(x, y, color) ==
  Sends(Canvas!Rect(x, y, 1, 1, color), st7735_drawPixel(x, y, color))

DrawFastVLine(x, y, h, color) ==
  Sends(Canvas!Rect(x, y, 1, h, color), st7735_drawFastVLine(x, y, h, color))

DrawFastHLine(x, y, w, color) ==
  Sends(Canvas!Rect(x, y, w, 1, color), st7735_drawFastHLine(x, y, w, color))

FillRect(x, y, w, h, color) ==
  Sends(Canvas!Rect(x, y, w, h, color), st7735_fill_rect(x, y, w, h, color))

FillScreen(color) ==
  Sends(Canvas!Rect(0, 0, width, height, color), st7735_fillScreen(color))

Putc(x, y, c, fg, bg) ==
  Sends(Canvas!Text(x, y, <<c>>, fg, bg), st7735_putc(x, y, c, fg, bg))

PrintText(text, x, y, fg, bg) ==
  Sends(Canvas!Text(x, y, text, fg, bg), st7735_print(text, x, y, fg, bg))

\* The bits that st7735_setRotation sends.
madctl_of(r) ==
  CASE r = 0 -> {"MX", "MY"} [] r = 1 -> {"MY", "MV"} [] r = 2 -> {} [] r = 3 -> {"MX", "MV"}

SetRotation(m) ==
  LET r == m % 4 IN
    /\ lcd' = FoldLeft(Receive, lcd, <<Command("MADCTL", <<madctl_of(r)>>)>>)
    /\ width'  = IF r \in {0, 2} THEN TFTWIDTH ELSE TFTHEIGHT
    /\ height' = IF r \in {0, 2} THEN TFTHEIGHT ELSE TFTWIDTH
    /\ rotation' = r /\ call' = Canvas!Rotate(m)
    /\ UNCHANGED calls

\* A pixel may be off the screen on any side; the other calls have no check for
\* coordinates below 0, and main() has none that need it.  Text is on black.
Next ==
  \/ \E m \in 0 .. 4 : SetRotation(m)
  \/ \E color \in COLORS :
       \/ FillScreen(color)
       \/ \E x, y \in COORDS \cup {-1} : DrawPixel(x, y, color)
       \/ \E x, y \in COORDS, k \in SIZES : DrawFastVLine(x, y, k, color) \/ DrawFastHLine(x, y, k, color)
       \/ \E x, y \in COORDS, w, h \in SIZES : FillRect(x, y, w, h, color)
  \/ \E x, y \in COORDS, text \in TEXTS, fg \in COLORS :
       PrintText(text, x, y, fg, Black) \/ Putc(x, y, text[1], fg, Black)

Spec == Init /\ [][Next]_vars

-----------------------------------------------------------------------------
\* Whatever was drawn before and however the display is turned, each call paints
\* exactly the pixels it names, cut off at the edges.
ImplementsCanvas == Canvas!Spec
=============================================================================
