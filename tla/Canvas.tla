------------------------------- MODULE Canvas -------------------------------
(***************************************************************************)
(* What the drawing functions of st7735.rs and ST7735.c promise: a call    *)
(* paints the pixels it names, in the coordinates of the rotation in       *)
(* force, cut off at the edges of the screen; nothing else changes.  Text  *)
(* shows the characters that fit whole.  A rotation is a quarter turn from *)
(* the one before it, never a mirror image.                                *)
(***************************************************************************)
EXTENDS Integers, Sequences

CONSTANTS
  TFTWIDTH, TFTHEIGHT,      \* pixels of the upright glass, 128 and 160
  GLYPHWIDTH, GLYPHHEIGHT,  \* pixels of a character, 8 and 12
  FONT                      \* character -> sequence of rows, a row's bit i being pixel i

VARIABLES glass,      \* pixel of the upright glass -> colour
          rotation,
          call        \* the latest call

vars == <<glass, rotation, call>>

\* Calls: a rectangle (pixels, lines and fills are such), a text, a rotation.
Rect(x, y, w, h, color) ==
  [op |-> "rect", x |-> x, y |-> y, w |-> w, h |-> h, color |-> color]
Text(x, y, text, fg, bg) ==
  [op |-> "text", x |-> x, y |-> y, text |-> text, fg |-> fg, bg |-> bg]
Rotate(m) == [op |-> "rotate", m |-> m]

Glass  == (0 .. TFTWIDTH - 1) \X (0 .. TFTHEIGHT - 1)
Width  == IF rotation % 2 = 0 THEN TFTWIDTH ELSE TFTHEIGHT
Height == IF rotation % 2 = 0 THEN TFTHEIGHT ELSE TFTWIDTH
Screen == (0 .. Width - 1) \X (0 .. Height - 1)

\* Where on the glass a point of the screen is: each rotation a quarter turn on.
Place(p) ==
  CASE rotation = 2 -> p
    [] rotation = 3 -> <<TFTWIDTH - 1 - p[2], p[1]>>
    [] rotation = 0 -> <<TFTWIDTH - 1 - p[1], TFTHEIGHT - 1 - p[2]>>
    [] rotation = 1 -> <<p[2], TFTHEIGHT - 1 - p[1]>>

\* The points that a call paints, and the colour it gives each.
Painted(c) ==
  IF c.op = "rect"
  THEN {p \in Screen : p[1] - c.x \in 0 .. c.w - 1 /\ p[2] - c.y \in 0 .. c.h - 1}
  ELSE {p \in Screen :
          /\ p[1] >= c.x /\ p[2] - c.y \in 0 .. GLYPHHEIGHT - 1 /\ c.y + GLYPHHEIGHT <= Height
          /\ LET k == (p[1] - c.x) \div GLYPHWIDTH IN
               k < Len(c.text) /\ c.text[k + 1] \in DOMAIN FONT /\ c.x + (k + 1) * GLYPHWIDTH <= Width}

Inked(c, p) ==
  LET k == (p[1] - c.x) \div GLYPHWIDTH
      i == (p[1] - c.x) % GLYPHWIDTH
  IN  (FONT[c.text[k + 1]][p[2] - c.y + 1] \div 2^i) % 2 = 1

ColorOf(c, p) == IF c.op = "rect" THEN c.color ELSE IF Inked(c, p) THEN c.fg ELSE c.bg

Init == /\ glass \in [Glass -> Nat]
        /\ rotation = 0
        /\ call = Rotate(0)

Draw(c) ==
  /\ c.op # "rotate"
  /\ glass' = [g \in Glass |->
                 IF \E p \in Painted(c) : Place(p) = g
                 THEN ColorOf(c, CHOOSE p \in Painted(c) : Place(p) = g) ELSE glass[g]]
  /\ UNCHANGED rotation

Turn(c) ==
  /\ c.op = "rotate"
  /\ rotation' = c.m % 4
  /\ UNCHANGED glass

Next == Draw(call') \/ Turn(call')

Spec == Init /\ [][Next]_vars
=============================================================================
