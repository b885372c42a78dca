---------------------------- MODULE MCStageResult ----------------------------
(* Small instances of StageResult for TLC.                                  *)
EXTENDS StageResult, TLC

Symmetry == Permutations(Viewer)
=============================================================================
