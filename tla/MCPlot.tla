------------------------------- MODULE MCPlot -------------------------------
(***************************************************************************)
(* Plot.tla for TLC: a column with graticule points, one that only looks   *)
(* like it, and one with neither; samples whose dots fall on graticule     *)
(* points (rows 95 and 31), next to them (rows 96 and 32), on the text     *)
(* lines, on both borders and above the screen.                            *)
(***************************************************************************)
EXTENDS Plot

MCRawSamples == {0, 31, 224, 544, 992, 1024, 2048, 3040, 3072, 3103, 4094, 4095}
=============================================================================
