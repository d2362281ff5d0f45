--------------------------- MODULE WriteOnceStore ---------------------------
(***************************************************************************)
(* What the broker's two stores promise whoever reads them, with requests, *)
(* leases, clocks, quotas and files left out: a key has one content or     *)
(* none; content is written only where there is none, one key at a time;   *)
(* any contents may be dropped at any time, to be written again later; and *)
(* no content is ever replaced by another.  Artifacts and Cache are both   *)
(* shown to implement this module.                                         *)
(***************************************************************************)
CONSTANTS Keys,     \* what a content is asked for by
          Values,   \* the contents
          None

VARIABLE held       \* [Keys -> Values \cup {None}]: what a reader would be given

Contents == [Keys -> Values \cup {None}]

Init == held \in Contents

\* A key keeps what it has, or is left with nothing.
Lose(k)  == held'[k] \in {held[k], None}

Write(k) == held[k] = None /\ held'[k] \in Values

(***************************************************************************)
(* One step writes at most one key; to make room, it may drop any others.  *)
(***************************************************************************)
Next == /\ held' \in Contents
        /\ \/ \A k \in Keys : Lose(k)
           \/ \E k \in Keys : Write(k) /\ \A other \in Keys \ {k} : Lose(other)

Spec == Init /\ [][Next]_held
=============================================================================
