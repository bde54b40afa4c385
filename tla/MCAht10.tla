------------------------------ MODULE MCAht10 ------------------------------
(***************************************************************************)
(* For TLC, a measurement at the low end of the range and one whose bytes  *)
(* and nibbles all differ.                                                 *)
(***************************************************************************)
EXTENDS Aht10, TLC

CONSTANTS u1, u2

TwoUsers  == {u1, u2}
TwoOfThem == {<<0, 0>>, <<616657, 343918>>}
OnStack   == {[i \in 1 .. 6 |-> 21]}
Ready     == {28}
Symmetry  == Permutations(TwoUsers)
=============================================================================
