----------------------------- MODULE MCAt24c64 -----------------------------
(***************************************************************************)
(* A small chip and inputs for TLC: pages of three bytes, a file that ends *)
(* one byte before the chip does, as 7999 does before a page ends, and a   *)
(* byte count that overflows inside the file.                              *)
(***************************************************************************)
EXTENDS At24c64, TLC

Bits == {0, 1}

\* None, one byte, a page, and past the end of the file.
CarefulCounts == {0, 1, 3, 7}

\* One byte, a page, the overflow of the count and past the end.
EdgeCounts == {1, 3, 4, 7}

\* Before the file, in it, its end, and past it.
SeekOffsets == {-1, 0, 2, LAST_BYTE, LAST_BYTE + 1}

None == {}

AnyFile == Permutations(Files)
=============================================================================
