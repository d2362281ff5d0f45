------------------------------- MODULE MCCache ------------------------------
(* Small instances of Cache. *)
EXTENDS Cache, TLC

CONSTANTS r1, r2, r3, b1, b2, b3, acme, other

\* Two runs of one key, one of a newer key of the same branch; entry 3 is another branch
\* and entry 4 another repository.
MCKey        == (r1 :> 1) @@ (r2 :> 1) @@ (r3 :> 2)
MCScope      == (1 :> 1) @@ (2 :> 1) @@ (3 :> 2) @@ (4 :> 3)
MCRepository == (1 :> acme) @@ (2 :> acme) @@ (3 :> acme) @@ (4 :> other)
MCSize       == (b1 :> 1) @@ (b2 :> 1) @@ (b3 :> 2)
MCStored     == (1 :> b1) @@ (3 :> b1) @@ (4 :> b1)

\* Two runs of one key are told apart by nothing.
MCSymmetry == Permutations({r1, r2})
=============================================================================
