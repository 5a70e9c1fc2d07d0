--------------------------- MODULE MCOwnedBlocks ---------------------------
(* Model values for OwnedBlocks: three processes over a heap of four pages*)
(* and superblocks of one or two pages.  A page of PageSize bytes holds   *)
(* PageSize / 8 unsigned longs; the sizes are scaled down so that the     *)
(* mapping's bound is within reach of a few superblocks.                  *)
EXTENDS OwnedBlocks, TLC

CONSTANTS p1, p2, p3

MCProcs == {p1, p2, p3}
MCSymmetry == Permutations(MCProcs)
=============================================================================
