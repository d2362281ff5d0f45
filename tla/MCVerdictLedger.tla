-------------------------- MODULE MCVerdictLedger ---------------------------
(* Small instances of VerdictLedger. *)
EXTENDS VerdictLedger
=============================================================================
