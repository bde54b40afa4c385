----------------------------- MODULE MCGpioIrq -----------------------------
(***************************************************************************)
(* Two runs of the application and a visitor, for TLC.                     *)
(***************************************************************************)
EXTENDS GpioIrq, TLC

CONSTANTS a1, a2, v1

TwoApps    == {a1, a2}
OneVisitor == {v1}
Symmetry   == Permutations(TwoApps)
=============================================================================
