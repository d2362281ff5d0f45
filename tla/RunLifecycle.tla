---------------------------- MODULE RunLifecycle ----------------------------
(***************************************************************************)
(* What the direct-execution queue promises about one run, with leases,    *)
(* clocks, devices and requests left out: a run is submitted once, started *)
(* at most MaxAttempts times, goes back to the queue when an attempt is    *)
(* lost and attempts remain, is parked when they do not, and once it has a *)
(* verdict or is parked it never moves again.  JobQueue and VerdictLedger  *)
(* are both shown to implement this module.                                *)
(***************************************************************************)
EXTENDS Naturals

CONSTANTS Jobs,         \* the runs
          MaxAttempts   \* retry.py MAX_ATTEMPTS

VARIABLES phase,        \* [Jobs -> Phases]
          tries         \* [Jobs -> 0 .. MaxAttempts]: attempts started so far

Verdicts == {"success", "failure"}
Terminal == Verdicts \cup {"dead"}
Phases   == Terminal \cup {"absent", "pending", "running"}

Init == /\ phase = [j \in Jobs |-> "absent"]
        /\ tries = [j \in Jobs |-> 0]

Submit(j)   == phase[j] = "absent" /\ phase'[j] = "pending" /\ tries'[j] = tries[j]

Start(j)    == /\ phase[j] = "pending" /\ tries[j] < MaxAttempts
               /\ phase'[j] = "running" /\ tries'[j] = tries[j] + 1

Lose(j)     == /\ phase[j] = "running" /\ tries'[j] = tries[j]
               /\ phase'[j] = IF tries[j] < MaxAttempts THEN "pending" ELSE "dead"

Conclude(j) == phase[j] = "running" /\ phase'[j] \in Verdicts /\ tries'[j] = tries[j]

Stay(j)     == phase'[j] = phase[j] /\ tries'[j] = tries[j]

(***************************************************************************)
(* One step moves one run, except that a reclaim loses several at once.    *)
(***************************************************************************)
Next == \/ \E j \in Jobs : /\ Submit(j) \/ Start(j) \/ Conclude(j)
                           /\ \A k \in Jobs \ {j} : Stay(k)
        \/ \A j \in Jobs : Lose(j) \/ Stay(j)

Spec == Init /\ [][Next]_<<phase, tries>>

\* Every run that was submitted is eventually answered or parked.
Settles == \A j \in Jobs : phase[j] = "pending" ~> phase[j] \in Terminal
=============================================================================
