------------------------------ MODULE CheckRuns -----------------------------
(***************************************************************************)
(* The GitHub check of a run (check_runs.py) and the threads that write it *)
(* (service.py, jobapi.py, lease_reclaim.py).                              *)
(*                                                                         *)
(* A publisher renders the record it was given, finds the run's check in   *)
(* memory or on GitHub, and creates or updates it; nothing is held across  *)
(* those requests.  Publishers start when a run is enqueued (once per      *)
(* webhook delivery), when it is reported, and when a drain posts a        *)
(* verdict the queue owes.                                                 *)
(*                                                                         *)
(* One run, one check name.  The queue is the lifecycle of JobQueue, and   *)
(* the drains of VerdictLedger are one step: the record a drain holds when *)
(* it comes to the check is of the verdict it posted.                      *)
(***************************************************************************)
EXTENDS CheckSummary, FiniteSets

CONSTANTS
  Publishers,      \* threads that may be publishing at a time
  MaxDeliveries,   \* bound: webhook deliveries of the push
  MaxFaults,       \* bound: requests refused or unanswered, restarts
  MaxRemovals,     \* bound: checks a maintainer or retention removes
  None

\* A run's row; a check that was found or opened, and whether it is finished.
Row == [status : Settled \cup {"pending", "running"}, attempts : Nat,
        error : {"none", "lost", "device"}, exit : {0, 1, TimedOut}, steps : {<<>>}]
OpenCheck == [id : Nat \ {0}, done : BOOLEAN]

ASSUME CheckAssumption ==
  /\ MaxDeliveries \in Nat /\ MaxFaults \in Nat /\ MaxRemovals \in Nat
  /\ None \notin Row /\ None \notin OpenCheck

VARIABLES
  job,                  \* the run's row, or None
  owed, seq,            \* a verdict is owed, and how many there were
  open,                 \* the publisher's memory: the id held, and whether it is finished
  ppc, kind, rec, pseq, held,   \* a publisher: place, caller, record, its seq, check it found
  checks,               \* GitHub: the checks opened for the run, the latest last
  \* observation only
  deliveries, faults, removals,
  overlapped,           \* two publishers were under way at a time
  missed,               \* the last publisher that ended wrote nothing it meant to
  skipped               \* a report changed the row without publishing, and nobody has since

row       == <<job, owed, seq>>
publisher == <<ppc, kind, rec, pseq, held>>
seen      == <<deliveries, faults, removals, overlapped, missed, skipped>>
vars      == <<row, open, publisher, checks, seen>>

Init ==
  /\ job = None /\ owed = FALSE /\ seq = 0 /\ open = None
  /\ ppc = [p \in Publishers |-> "idle"] /\ kind = [p \in Publishers |-> None]
  /\ rec = [p \in Publishers |-> None] /\ pseq = [p \in Publishers |-> 0]
  /\ held = [p \in Publishers |-> None]
  /\ checks = <<>>
  /\ deliveries = 0 /\ faults = 0 /\ removals = 0
  /\ overlapped = FALSE /\ missed = FALSE /\ skipped = FALSE

-----------------------------------------------------------------------------
(* Who publishes *)

Busy == {p \in Publishers : ppc[p] # "idle"}

\* Hands a record to a free thread.
publish_check_run(p, k, j, n) ==
  /\ ppc[p] = "idle"
  /\ ppc' = [ppc EXCEPT ![p] = "looking"] /\ kind' = [kind EXCEPT ![p] = k]
  /\ rec' = [rec EXCEPT ![p] = j] /\ pseq' = [pseq EXCEPT ![p] = n]
  /\ overlapped' = (overlapped \/ Busy # {}) /\ skipped' = FALSE
  /\ UNCHANGED held

Fresh == [status |-> "pending", attempts |-> 0, error |-> "none", exit |-> 0, steps |-> <<>>]

\* A delivery inserts the run, or finds the one that is there, and publishes its record.
enqueue_direct(p) ==
  LET found == IF job = None THEN Fresh ELSE job IN
  /\ deliveries < MaxDeliveries /\ deliveries' = deliveries + 1
  /\ job' = found
  /\ publish_check_run(p, "enqueue", found, seq)
  /\ UNCHANGED <<owed, seq, open, checks, faults, removals, missed>>

\* A claim does not publish; the loss of the last attempt stays in the row.
claim ==
  /\ job # None /\ job.status = "pending"
  /\ job' = [job EXCEPT !.status = "running", !.attempts = @ + 1]
  /\ UNCHANGED <<owed, seq, open, publisher, checks, seen>>

\* What a lost attempt leaves in the row.
released(why) ==
  [job EXCEPT !.status = IF parked(job.attempts) THEN "dead" ELSE "pending", !.error = why]

\* A spent lease is released and its verdict owed.
release ==
  /\ job # None /\ job.status = "running"
  /\ job' = released("lost") /\ owed' = TRUE /\ seq' = seq + 1
  /\ UNCHANGED <<open, publisher, checks, seen>>

\* verdicts.py: a report with an exit code settles the row, one with an error releases it.
settle ==
  {released("device")} \cup
  {[job EXCEPT !.status = IF code = 0 THEN "success" ELSE "failure",
               !.exit = code, !.error = "none"] : code \in {0, 1, TimedOut}}

\* Mutant: the check is published from the row as it was before the report.
reported_before(after) == job

\* The record a report publishes: the row it left.
reported(after) == after

\* A report supersedes what was owed and publishes the row it left.  When its commit
\* status is refused the verdict is owed again.
report(p) ==
  /\ job # None /\ job.status = "running"
  /\ seq' = seq + 1
  /\ \E after \in settle :
       job' = after /\ publish_check_run(p, "report", reported(after), seq + 1)
  /\ \/ owed' = FALSE /\ UNCHANGED faults
     \/ owed' = TRUE /\ faults < MaxFaults /\ faults' = faults + 1
  /\ UNCHANGED <<open, checks, deliveries, removals, missed>>

\* The post of the commit status raises what _post_status does not catch: the row is
\* settled, nothing is owed and the request ends before it publishes.
report_raises ==
  /\ job # None /\ job.status = "running"
  /\ faults < MaxFaults /\ faults' = faults + 1
  /\ seq' = seq + 1 /\ owed' = FALSE
  /\ job' \in settle
  /\ skipped' = TRUE
  /\ UNCHANGED <<open, publisher, checks, deliveries, removals, overlapped, missed>>

\* A drain of the timer or of a claim request has posted the verdict that was owed.
drain_owed(p, k) ==
  /\ owed /\ owed' = FALSE
  /\ publish_check_run(p, k, job, seq)
  /\ UNCHANGED <<job, seq, open, checks, deliveries, faults, removals, missed>>

-----------------------------------------------------------------------------
(* CheckRunPublisher.publish *)

There(id) == checks[id].there
Ids == {id \in 1..Len(checks) : There(id)}
Finished(state) == state \in Conclusions

\* A publisher ends.  A refusal is absorbed, except that a claim request's drain puts
\* the verdict back if no later one was given.
ends(p, wrote) ==
  /\ ppc' = [ppc EXCEPT ![p] = "idle"] /\ kind' = [kind EXCEPT ![p] = None]
  /\ rec' = [rec EXCEPT ![p] = None] /\ pseq' = [pseq EXCEPT ![p] = 0]
  /\ held' = [held EXCEPT ![p] = None]
  /\ missed' = ~wrote
  /\ owed' = (owed \/ (~wrote /\ kind[p] = "claim" /\ seq = pseq[p]))

fails(p) ==
  /\ faults < MaxFaults /\ faults' = faults + 1
  /\ ends(p, FALSE)

\* Mutant: a run that waits for its next attempt writes over a finished check.
has_later_truth_never(p, h) == FALSE

\* A finished check is the later truth than a record without a conclusion.
has_later_truth(p, h) == h # None /\ h.done /\ conclusion_for(rec[p]) = "none"

\* With the check in hand the record is written, or the publisher is done.  The second
\* try, after a 404, writes in any case.
decide(p, h) ==
  IF has_later_truth(p, h) /\ ppc[p] \in {"looking", "finding"}
  THEN ends(p, TRUE)
  ELSE /\ ppc' = [ppc EXCEPT ![p] =
                    IF @ \in {"looking", "finding"} THEN "writing" ELSE "rewriting"]
       /\ held' = [held EXCEPT ![p] = h]
       /\ UNCHANGED <<kind, rec, pseq, missed, owed>>

\* _held: the id in memory, or else a lookup.
Look(p) ==
  /\ ppc[p] \in {"looking", "again"}
  /\ IF open # None THEN decide(p, open)
     ELSE /\ ppc' = [ppc EXCEPT ![p] = IF @ = "looking" THEN "finding" ELSE "refinding"]
          /\ UNCHANGED <<kind, rec, pseq, held, missed, owed>>
  /\ UNCHANGED <<job, seq, open, checks, deliveries, faults, removals, overlapped, skipped>>

\* Mutant: the lookup finds none of the run's checks.
find_none == {None}

\* find: some check with the run's external id, or none, of those GitHub has.
find ==
  IF Ids = {} THEN {None} ELSE {[id |-> i, done |-> Finished(checks[i].state)] : i \in Ids}

Find(p) ==
  /\ ppc[p] \in {"finding", "refinding"}
  /\ \/ \E h \in find :
          /\ decide(p, h)
          /\ open' = IF h # None THEN h ELSE open
          /\ UNCHANGED faults
     \/ fails(p) /\ UNCHANGED open
  /\ UNCHANGED <<job, seq, checks, deliveries, removals, overlapped, skipped>>

\* The write is applied: GitHub opens a check, or updates the one held.
applied(p) ==
  IF held[p] = None
  THEN Append(checks, [state |-> payload_for(rec[p]), there |-> TRUE])
  ELSE [checks EXCEPT ![held[p].id].state = payload_for(rec[p])]

Gone(p) == held[p] # None /\ ~There(held[p].id)

\* create or update, with its answer, without it, or refused.
Write(p) ==
  /\ ppc[p] \in {"writing", "rewriting"} /\ ~Gone(p)
  /\ \/ /\ checks' = applied(p)
        /\ ppc' = [ppc EXCEPT ![p] = "answered"]
        /\ held' = [held EXCEPT ![p] = [id   |-> IF @ = None THEN Len(checks) + 1 ELSE @.id,
                                        done |-> conclusion_for(rec[p]) # "none"]]
        /\ UNCHANGED <<kind, rec, pseq, missed, owed, faults>>
     \/ checks' = applied(p) /\ fails(p)
     \/ fails(p) /\ UNCHANGED checks
  /\ UNCHANGED <<job, seq, open, deliveries, removals, overlapped, skipped>>

\* The check was removed: the id is dropped and everything is tried once more.
WriteGone(p) ==
  /\ ppc[p] \in {"writing", "rewriting"} /\ Gone(p)
  /\ IF ppc[p] = "writing"
     THEN /\ ppc' = [ppc EXCEPT ![p] = "again"] /\ open' = None
          /\ held' = [held EXCEPT ![p] = None]
          /\ UNCHANGED <<kind, rec, pseq, missed, owed>>
     ELSE ends(p, FALSE) /\ UNCHANGED open
  /\ UNCHANGED <<job, seq, checks, deliveries, faults, removals, overlapped, skipped>>

\* The id is remembered once the request has returned.
Remember(p) ==
  /\ ppc[p] = "answered"
  /\ open' = held[p]
  /\ ends(p, TRUE)
  /\ UNCHANGED <<job, seq, checks, deliveries, faults, removals, overlapped, skipped>>

-----------------------------------------------------------------------------
(* The world outside *)

RemoveCheck(id) ==
  /\ removals < MaxRemovals /\ removals' = removals + 1
  /\ There(id) /\ checks' = [checks EXCEPT ![id].there = FALSE]
  /\ UNCHANGED <<row, open, publisher, deliveries, faults, overlapped, missed, skipped>>

\* The broker restarts: its memory of ids and the publishers are gone.
Restart ==
  /\ faults < MaxFaults /\ faults' = faults + 1
  /\ open' = None
  /\ ppc' = [p \in Publishers |-> "idle"] /\ kind' = [p \in Publishers |-> None]
  /\ rec' = [p \in Publishers |-> None] /\ pseq' = [p \in Publishers |-> 0]
  /\ held' = [p \in Publishers |-> None]
  /\ missed' = (missed \/ Busy # {})
  /\ UNCHANGED <<row, checks, deliveries, removals, overlapped, skipped>>

PublisherStep(p) == Look(p) \/ Find(p) \/ Write(p) \/ WriteGone(p) \/ Remember(p)

Next ==
  \/ claim \/ release \/ report_raises \/ Restart
  \/ \E p \in Publishers :
       \/ enqueue_direct(p) \/ report(p) \/ PublisherStep(p)
       \/ \E k \in {"timer", "claim"} : drain_owed(p, k)
  \/ \E id \in 1..Len(checks) : RemoveCheck(id)

Spec == Init /\ [][Next]_vars

-----------------------------------------------------------------------------
(* Properties *)

\* check_summary.py: "a commit cannot read as both green and red".  A check that is
\* finished shows the conclusion of the row, whatever publishers with older records do
\* and however often the broker restarts: a run that is retried is never finished.
ClosedOnItsVerdict ==
  \A id \in 1..Len(checks) :
    Finished(checks[id].state) => /\ job.status \in Settled
                                  /\ checks[id].state = conclusion_for(job)

\* check_runs.py find: a restart, an answer that was lost and a check that was removed
\* do not open a second check beside the first: only two publishers at once do.
OneCheckPerRun == ~overlapped => Cardinality(Ids) <= 1

\* check_runs.py publish: when publishers did not overlap and the last one was not
\* refused, a run that ended is not left with its check pending, unless its check was
\* removed or the report that ended it raised before it came to the check (jobapi.py:356).
SettledCheckCloses ==
  /\ job # None /\ job.status \in Settled /\ ~owed
  /\ Busy = {} /\ ~overlapped /\ ~missed /\ ~skipped /\ removals = 0
  => Ids # {} /\ \A id \in Ids : checks[id].state = conclusion_for(job)

\* check_runs.py publish: "a completed check is the later truth".  A finished check goes
\* back to pending only through a publisher that found it unfinished before, or on the
\* second try after a 404, which does not ask.
ReopenedOnlyUnseen ==
  [][\A id \in 1..Len(checks) :
       Finished(checks[id].state) /\ ~Finished(checks'[id].state)
       => \E p \in Publishers :
            \/ ppc[p] = "rewriting"
            \/ ppc[p] = "writing" /\ held[p] = [id |-> id, done |-> FALSE]]_vars

=============================================================================
