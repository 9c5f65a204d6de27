--------------------------- MODULE MCNativeExport ---------------------------
(* Small instances of NativeExport: the files ExportSources.cfg,           *)
(* ExportForeign.cfg and ExportCleanup.cfg.                                *)
EXTENDS NativeExport, TLC

CONSTANTS r1, r2, a1, a2

MCSymmetry == Permutations(Runs) \cup Permutations(Artifacts)
=============================================================================
