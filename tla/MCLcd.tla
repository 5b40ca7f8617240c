------------------------------- MODULE MCLcd -------------------------------
(* A glass of 3 by 4 pixels and characters of 2 by 2.                      *)
EXTENDS Lcd

\* Two characters that no turn or mirror image takes to themselves; a third
\* code, 128, has no glyph.
MCFont == 65 :> <<1, 0>> @@ 66 :> <<3, 1>>
MCTexts == {<<65, 66>>, <<128, 65>>}
\* Green and red.
MCColors == {2016, 63488}
=============================================================================
