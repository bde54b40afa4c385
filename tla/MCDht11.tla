------------------------------ MODULE MCDht11 ------------------------------
(***************************************************************************)
(* Two users beside probe, one reading that differs from the pair stored   *)
(* first in both places, and the bytes noise leaves, for TLC.              *)
(***************************************************************************)
EXTENDS Dht11

CONSTANTS u1, u2

TwoUsers    == {u1, u2}
OneReading  == {<<20, 20>>}
NoiseBytes  == {0, 20}
=============================================================================
