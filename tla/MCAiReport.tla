----------------------------- MODULE MCAiReport -----------------------------
(* Small instances of AiReport for TLC.                                     *)
EXTENDS AiReport
=============================================================================
