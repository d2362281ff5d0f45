----------------------------- MODULE CheckSummary ---------------------------
(***************************************************************************)
(* What a run's record renders as on its commit (check_summary.py,         *)
(* status_text.py).  A record has the run's status, attempts, exit code,   *)
(* the loss it keeps ("lost" for a lease, "device" for a device's error)   *)
(* and its steps, each with its index, whether it completed and how many   *)
(* are missing at it.  Text is left out, with what redaction takes from    *)
(* it; what the text says of the run and of which step is kept.            *)
(***************************************************************************)
EXTENDS Integers, Sequences, FiniteSets

CONSTANTS MaxAttempts

ASSUME SummaryAssumption == MaxAttempts \in Nat \ {0}

Settled     == {"success", "failure", "dead"}
Conclusions == {"success", "failure", "timed_out", "cancelled"}
TimedOut    == 130
NoStep      == 0        \* steps are numbered from one

parked(a) == a >= MaxAttempts

state_for(job) ==
  CASE job.status = "success" -> "success"
    [] job.status = "failure" -> "failure"
    [] job.status = "dead"    -> IF parked(job.attempts) THEN "error" ELSE "pending"
    [] OTHER                  -> "pending"

\* Mutant: the loss a released run keeps ends its check.
conclusion_for_loss(job) ==
  CASE job.status = "success" -> "success"
    [] job.status = "failure" -> IF job.exit = TimedOut THEN "timed_out" ELSE "failure"
    [] OTHER -> IF job.error = "lost" THEN "cancelled"
                ELSE IF state_for(job) = "pending" THEN "none" ELSE "failure"

\* "none" is no conclusion: the run is not over.
conclusion_for(job) ==
  CASE state_for(job) = "pending" -> "none"
    [] job.status = "success"     -> "success"
    [] job.status = "failure"     -> IF job.exit = TimedOut THEN "timed_out" ELSE "failure"
    [] OTHER                      -> IF job.error = "lost" THEN "cancelled" ELSE "failure"

Red(job) == conclusion_for(job) \notin {"none", "success"}

\* The steps of a record that did not complete.
Unfinished(steps) == {i \in 1..Len(steps) : ~steps[i].completed}

\* The last step that did not complete, which is the one the run stopped in.
unfinished_step(steps) ==
  IF Unfinished(steps) = {} THEN NoStep
  ELSE steps[CHOOSE i \in Unfinished(steps) : \A k \in Unfinished(steps) : k <= i].index

failed_step(job) == IF state_for(job) = "failure" THEN unfinished_step(job.steps) ELSE NoStep

\* The first step of a running job that did not complete.
running_step(job) ==
  LET open == Unfinished(job.steps) IN
  IF job.status = "running" /\ open # {}
  THEN job.steps[CHOOSE i \in open : \A k \in open : i <= k].index
  ELSE NoStep

\* Whether the step a run stopped in failed, or was taken away from under it.
ended(job) == IF conclusion_for(job) = "failure" THEN "failed" ELSE "did not finish"

\* A row of the step table.
result(job, step) ==
  CASE step.completed                       -> "passed"
    [] ~step.completed /\ step.index = failed_step(job)  -> ended(job)
    [] ~step.completed /\ step.index = running_step(job) -> "running"
    [] OTHER                                -> "not finished"

\* The step a failure's title names; a record without one leaves it to the log.
failure_description(job) == unfinished_step(job.steps)

\* What the title says: the verdict and its step, the loss and whether it is retried, or
\* the lane.
title_for(job) ==
  CASE job.status = "failure" -> <<"failed", failure_description(job)>>
    [] job.status = "success" -> <<"passed", NoStep>>
    [] job.status \in {"pending", "running"} /\ job.error = "none" -> <<job.status, NoStep>>
    [] OTHER -> <<IF parked(job.attempts) THEN "lost" ELSE "retried", NoStep>>

\* The line above the table.
headline(job) ==
  CASE state_for(job) = "failure" -> <<ended(job), failed_step(job)>>
    [] state_for(job) # "failure" /\ job.error # "none" -> <<"lost", NoStep>>
    [] OTHER -> IF running_step(job) # NoStep THEN <<"running", running_step(job)>>
                ELSE <<IF job.status = "success" THEN "passed" ELSE "waiting", NoStep>>

\* The table has a row for every step of the record.
table(job) == [i \in 1..Len(job.steps) |-> result(job, job.steps[i])]

\* How many steps the record says it could not carry: the sum over its rows, counted as
\* pairs of row and step.
disclosed(job) ==
  Cardinality(UNION {{i} \X (1..job.steps[i].dropped) : i \in 1..Len(job.steps)})

summary_for(job) == [headline |-> headline(job), table |-> table(job), missing |-> disclosed(job)]

\* The log goes out for a run that did not pass, and only then.
log_text(job) == Red(job)

\* The annotation of a red run names the step it stopped in, if it has one.
annotations_for(job) == IF Red(job) THEN {failed_step(job)} ELSE {}

verdict_for(job) ==
  [state |-> state_for(job), conclusion |-> conclusion_for(job), title |-> title_for(job),
   summary |-> summary_for(job), text |-> log_text(job), annotations |-> annotations_for(job)]

\* A check run's body: the status GitHub shows.
payload_for(job) ==
  IF conclusion_for(job) # "none" THEN conclusion_for(job)
  ELSE IF job.status = "running" THEN "in_progress" ELSE "queued"
=============================================================================
