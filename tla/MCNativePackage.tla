-------------------------- MODULE MCNativePackage --------------------------
(* A small instance of NativePackage (NativePackage.cfg).  No definition   *)
(* tells two builds, byte values, components or publications apart.        *)
EXTENDS NativePackage, TLC

MCSymmetry == Permutations(Contents) \cup Permutations(Pubs)
              \cup Permutations(Tools) \cup Permutations(Components)
=============================================================================
