----------------------------- MODULE MCCheckRuns ----------------------------
(* Small instances of CheckRuns. *)
EXTENDS CheckRuns, TLC

\* Publishers are threads without a name.
MCSymmetry == Permutations(Publishers)
=============================================================================
