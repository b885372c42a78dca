--------------------------- MODULE MCResultChain ---------------------------
(* Small instances of the result chain for TLC.                             *)
EXTENDS ResultChainSnapshots, TLC

Symmetry == Permutations(Participant)
=============================================================================
