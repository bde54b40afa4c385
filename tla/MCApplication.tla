--------------------------- MODULE MCApplication ---------------------------
(***************************************************************************)
(* A reading of two glyphs and one of four, the longest, for TLC.          *)
(***************************************************************************)
EXTENDS Application

ShortAndLong == {9, -50}
=============================================================================
