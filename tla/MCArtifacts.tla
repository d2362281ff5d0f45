----------------------------- MODULE MCArtifacts ----------------------------
(* Small instances of Artifacts. *)
EXTENDS Artifacts, TLC

CONSTANTS j1, j2, d1, d2, r1

\* A run with a retry, and a larger one of the same repository that only just fits.
MCTries      == (j1 :> 2) @@ (j2 :> 1)
MCRepository == (j1 :> r1) @@ (j2 :> r1)
MCSize       == (j1 :> 1) @@ (j2 :> 2)
=============================================================================
