------------------------------- MODULE MCQuota ------------------------------
(* Small instances of Quota. *)
EXTENDS Quota, TLC

\* Requests are told apart by nothing.
MCSymmetry == Permutations(Requests)
=============================================================================
