-------------------------- MODULE MCDeferredImport --------------------------
(* A small instance of DeferredImport on its own (DeferredStrand.cfg).     *)
EXTENDS DeferredImport

CONSTANTS i1, i2, c1, c2
=============================================================================
