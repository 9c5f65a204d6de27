--------------------------- MODULE MCServingLayout ---------------------------
(* Small instances of ServingLayout.                                       *)
EXTENDS ServingLayout, TLC
CONSTANTS k1, k2
MCSymmetry == Permutations({k1, k2})
=============================================================================
