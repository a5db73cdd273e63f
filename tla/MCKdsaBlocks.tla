----------------------------- MODULE MCKdsaBlocks -----------------------------
(***************************************************************************)
(* Two processes on a volume of two words of three bits.  An int has two   *)
(* bits: as in the code, a word has bits below the sign bit of an int, one *)
(* at it and one above it.                                                 *)
(***************************************************************************)
EXTENDS KdsaBlocks, TLC

CONSTANTS p1, p2

MCProcs == {p1, p2}
ProcSymmetry == Permutations(MCProcs)
LowBits == 0 .. IntBits - 2
AllBits == Bits
=============================================================================
