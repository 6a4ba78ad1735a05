---------------------------- MODULE MCOSProgram ----------------------------
(***************************************************************************)
(* Words of six bits for the numbers, so that every pair of them is tried. *)
(* A screen of nine rows of four words of four pixels: a line lies in one  *)
(* word, in two, or has whole words inside.  Frames of two by two pixels:  *)
(* four rows of eight characters, and a row of pixels below the last that  *)
(* is in no frame.  The keys: a letter, one without a bitmap (an arrow),   *)
(* enter and backspace.                                                    *)
(***************************************************************************)
EXTENDS OSProgram

CONSTANTS Letter, Arrow

MCPrintable == {Letter}
MCKeys == {Letter, Arrow, NEWLINE, BACKSPACE}
MCMessages == {<<>>, <<Letter>>}
MCGlyph == (Letter :> {<<0, 1>>}) @@ (SQUARE :> {<<0, 0>>, <<1, 0>>})
=============================================================================
