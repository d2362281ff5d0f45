----------------------------- MODULE MCExecution ----------------------------
(* Small instances of Execution. *)
EXTENDS Execution

\* Three steps, one more than the records hold.  The first two together are over the
\* budget, the first and the last within it.
MCScript == <<{2}, {2}, {1}>>

\* Attempts are told apart by nothing.
MCSymmetry == Permutations(Attempts)
=============================================================================
