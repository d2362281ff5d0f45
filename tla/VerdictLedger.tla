---------------------------- MODULE VerdictLedger ---------------------------
(***************************************************************************)
(* How a run's verdict reaches its commit (status_ledger.py, verdicts.py,  *)
(* lease_reclaim.py, jobapi.py, the queueing half of service.py).          *)
(*                                                                         *)
(* Every verdict moves status_seq on.  A lost lease leaves its verdict     *)
(* owed in the row; a drain takes the owed verdicts out, and posts each    *)
(* one under status_lock if its number is still the row's.  A report       *)
(* settles the row and posts under the same lock.  Drains run on the       *)
(* reclaim timer and in every claim request, so several are in flight.     *)
(*                                                                         *)
(* Time is left out: any run that is out may be found spent, any run that  *)
(* waits may be claimed.  JobQueue has the clock.                          *)
(***************************************************************************)
EXTENDS Integers, FiniteSets

CONSTANTS
  Jobs, Devices, MaxAttempts,
  Timer,           \* the reclaim thread
  Requests,        \* claim requests being served
  Reporters,       \* report requests being served
  MaxDeliveries,   \* bound: webhook deliveries of one push
  MaxRefusals,     \* bound: requests GitHub refuses or fails to answer
  MaxCrashes,      \* bound: broker restarts
  None             \* SQL NULL, and the free lock

Drains == {Timer} \cup Requests

ASSUME LedgerAssumption ==
  /\ MaxAttempts \in Nat \ {0}
  /\ MaxDeliveries \in Nat /\ MaxRefusals \in Nat /\ MaxCrashes \in Nat
  /\ Drains \cap Reporters = {} /\ Timer \notin Requests
  /\ None \notin Drains \cup Reporters \cup Devices \cup Jobs
  /\ None \notin {"pending", "error", "success", "failure"}

States == {"pending", "error", "success", "failure"}     \* of a commit status
Items  == [job : Jobs, state : States, seq : Nat]        \* an owed verdict in hand

VARIABLES
  \* the jobs table
  status, device, attempts, owed, seq,
  \* the broker process
  lock,                   \* status_lock
  dpc, batch, item,       \* the drains
  rpc, rjob, rdev, rseen, rout,   \* the reports: run, device, attempts as first read, outcome
  queued,                 \* enqueue handlers that have not posted "queued" yet
  \* the commit, as GitHub shows it
  commit,
  \* observation only: last verdict posted (number, state), last verdict whose holder
  \* died or gave up with it in hand (number), deliveries, refusals and crashes so far
  posted, told, dropped, deliveries, refusals, crashes

rows    == <<status, device, attempts, owed, seq>>
drains  == <<dpc, batch, item>>
reports == <<rpc, rjob, rdev, rseen, rout>>
seen    == <<commit, posted, told, dropped>>
vars    == <<rows, lock, drains, reports, queued, seen, deliveries, refusals, crashes>>

Init ==
  /\ status = [j \in Jobs |-> "absent"] /\ device = [j \in Jobs |-> None]
  /\ attempts = [j \in Jobs |-> 0]
  /\ owed = [j \in Jobs |-> None] /\ seq = [j \in Jobs |-> 0]
  /\ lock = None
  /\ dpc = [w \in Drains |-> "idle"]
  /\ batch = [w \in Drains |-> {}] /\ item = [w \in Drains |-> None]
  /\ rpc = [r \in Reporters |-> "idle"]
  /\ rjob = [r \in Reporters |-> None] /\ rdev = [r \in Reporters |-> None]
  /\ rseen = [r \in Reporters |-> 0] /\ rout = [r \in Reporters |-> None]
  /\ queued = [j \in Jobs |-> 0]
  /\ commit = [j \in Jobs |-> None]
  /\ posted = [j \in Jobs |-> 0] /\ told = [j \in Jobs |-> None]
  /\ dropped = [j \in Jobs |-> 0]
  /\ deliveries = [j \in Jobs |-> 0] /\ refusals = 0 /\ crashes = 0

-----------------------------------------------------------------------------
(* Verdicts and the row *)

\* Mutant: one attempt more than the cap.
parked_late(a) == a > MaxAttempts

parked(a) == a >= MaxAttempts

\* status_text.py: what a commit is told of a lost attempt.
lost_description(a) == IF parked(a) THEN "error" ELSE "pending"

\* What the commit is told of a report; rseen is the row as the request read it.
description(r) == IF rout[r] = "error" THEN lost_description(rseen[r]) ELSE rout[r]

\* Mutant: a refused verdict is dropped, and one is put back whatever the row says now.
restore_nothing(i) == owed' = owed
restore_blindly(i) == owed' = [owed EXCEPT ![i.job] = i.state]

restore_status(i) ==
  owed' = IF owed[i.job] = None /\ seq[i.job] = i.seq
          THEN [owed EXCEPT ![i.job] = i.state] ELSE owed

\* GitHub shows the newest status of a context; a verdict post is observed.
shows(j, state, n) ==
  /\ commit' = [commit EXCEPT ![j] = state]
  /\ posted' = [posted EXCEPT ![j] = n]
  /\ told' = [told EXCEPT ![j] = state]
  /\ UNCHANGED dropped

\* A post lands, is refused, or lands without its answer coming back; the caller
\* cannot tell the last two apart.
Outcome == {"landed", "refused", "unanswered"}
lands(o) == o # "refused"
answered(o) == o = "landed"

may_fail(o) == /\ o # "landed" => refusals < MaxRefusals
               /\ refusals' = IF o = "landed" THEN refusals ELSE refusals + 1

-----------------------------------------------------------------------------
(* Queueing: the delivery handler inserts the run, or finds the run of an     *)
(* earlier delivery, and then posts "queued" outside the lock.                *)

Enqueue(j) ==
  /\ deliveries[j] < MaxDeliveries
  /\ deliveries' = [deliveries EXCEPT ![j] = @ + 1]
  /\ status' = [status EXCEPT ![j] = IF @ = "absent" THEN "pending" ELSE @]
  /\ queued' = [queued EXCEPT ![j] = @ + 1]
  /\ UNCHANGED <<device, attempts, owed, seq, lock, drains, reports, seen, refusals, crashes>>

PostQueued(j, o) ==
  /\ queued[j] > 0
  /\ may_fail(o)
  /\ queued' = [queued EXCEPT ![j] = @ - 1]
  /\ commit' = IF lands(o) THEN [commit EXCEPT ![j] = "pending"] ELSE commit
  /\ UNCHANGED <<rows, lock, drains, reports, posted, told, dropped, deliveries, crashes>>

Claim(j, d) ==
  /\ status[j] = "pending"
  /\ status' = [status EXCEPT ![j] = "running"]
  /\ device' = [device EXCEPT ![j] = d]
  /\ attempts' = [attempts EXCEPT ![j] = @ + 1]
  /\ UNCHANGED <<owed, seq, lock, drains, reports, queued, seen, deliveries, refusals, crashes>>

-----------------------------------------------------------------------------
(* The drains *)

\* release_expired: every spent run goes back, and its verdict is owed from the
\* same transaction on.
ReleaseExpired(w, S) ==
  /\ dpc[w] = "idle" /\ lock = None
  /\ S \subseteq {j \in Jobs : status[j] = "running"}
  /\ status' = [j \in Jobs |-> IF j \notin S THEN status[j]
                               ELSE IF parked(attempts[j]) THEN "dead" ELSE "pending"]
  /\ device' = [j \in Jobs |-> IF j \in S THEN None ELSE device[j]]
  /\ owed' = [j \in Jobs |-> IF j \in S THEN lost_description(attempts[j]) ELSE owed[j]]
  /\ seq' = [j \in Jobs |-> IF j \in S THEN seq[j] + 1 ELSE seq[j]]
  /\ dpc' = [dpc EXCEPT ![w] = "released"]
  /\ UNCHANGED <<attempts, lock, batch, item, reports, queued, seen, deliveries, refusals,
                 crashes>>

Owing == {j \in Jobs : owed[j] # None}

TakeOwed(w) ==
  /\ dpc[w] = "released" /\ lock = None
  /\ batch' = [batch EXCEPT ![w] = {[job |-> j, state |-> owed[j], seq |-> seq[j]] : j \in Owing}]
  /\ owed' = [j \in Jobs |-> None]
  /\ dpc' = [dpc EXCEPT ![w] = "draining"]
  /\ UNCHANGED <<status, device, attempts, seq, lock, item, reports, queued, seen,
                 deliveries, refusals, crashes>>

\* Mutant: the verdict is posted without asking whether it is the latest.
PostBegins_unchecked(w, i) ==
  /\ dpc[w] = "draining" /\ lock = None /\ i \in batch[w]
  /\ batch' = [batch EXCEPT ![w] = @ \ {i}]
  /\ lock' = w
  /\ item' = [item EXCEPT ![w] = i]
  /\ dpc' = [dpc EXCEPT ![w] = "posting"]
  /\ UNCHANGED <<rows, reports, queued, seen, deliveries, refusals, crashes>>

\* post_if_current: the lock is taken, and a verdict that is not the latest is
\* dropped.  Otherwise the lock is kept across the post.
PostBegins(w, i) ==
  /\ dpc[w] = "draining" /\ lock = None /\ i \in batch[w]
  /\ batch' = [batch EXCEPT ![w] = @ \ {i}]
  /\ IF seq[i.job] = i.seq
     THEN /\ lock' = w
          /\ item' = [item EXCEPT ![w] = i]
          /\ dpc' = [dpc EXCEPT ![w] = "posting"]
     ELSE UNCHANGED <<lock, item, dpc>>
  /\ UNCHANGED <<rows, reports, queued, seen, deliveries, refusals, crashes>>

PostEnds(w, o) ==
  /\ dpc[w] = "posting"
  /\ may_fail(o)
  /\ IF lands(o) THEN shows(item[w].job, item[w].state, item[w].seq) ELSE UNCHANGED seen
  /\ IF answered(o) THEN UNCHANGED owed ELSE restore_status(item[w])
  /\ dpc' = [dpc EXCEPT ![w] = IF answered(o) THEN "checking" ELSE "draining"]
  /\ lock' = None
  /\ UNCHANGED <<status, device, attempts, seq, batch, item, reports, queued, deliveries,
                 crashes>>

\* The post is refused and the row cannot be written either (_restore): the verdict is lost,
\* and a warning says so.
RestoreFails(w) ==
  /\ dpc[w] = "posting"
  /\ refusals < MaxRefusals /\ refusals' = refusals + 1
  /\ dropped' = [dropped EXCEPT ![item[w].job] = item[w].seq]
  /\ dpc' = [dpc EXCEPT ![w] = "draining"]
  /\ lock' = None
  /\ UNCHANGED <<rows, batch, item, reports, queued, commit, posted, told, deliveries, crashes>>

\* The check run is written outside the lock.  In a claim request a refused check
\* puts the verdict back to be posted again; the timer's check absorbs a refusal.
CheckEnds(w, o) ==
  /\ dpc[w] = "checking"
  /\ may_fail(o)
  /\ IF answered(o) \/ w = Timer THEN UNCHANGED owed
     ELSE lock = None /\ restore_status(item[w])
  /\ dpc' = [dpc EXCEPT ![w] = "draining"]
  /\ UNCHANGED <<status, device, attempts, seq, lock, batch, item, reports, queued, seen,
                 deliveries, crashes>>

DrainEnds(w) ==
  /\ dpc[w] = "draining" /\ batch[w] = {}
  /\ dpc' = [dpc EXCEPT ![w] = "idle"]
  /\ item' = [item EXCEPT ![w] = None]
  /\ UNCHANGED <<rows, lock, batch, reports, queued, seen, deliveries, refusals, crashes>>

-----------------------------------------------------------------------------
(* The report of a device that holds the run *)

\* The row is read first, in whatever state a late report finds it; the body, the
\* credential and the lock are waited for.
ReportReads(r, j, d, out) ==
  /\ rpc[r] = "idle" /\ attempts[j] > 0
  /\ rpc' = [rpc EXCEPT ![r] = "read"]
  /\ rjob' = [rjob EXCEPT ![r] = j] /\ rdev' = [rdev EXCEPT ![r] = d]
  /\ rseen' = [rseen EXCEPT ![r] = attempts[j]] /\ rout' = [rout EXCEPT ![r] = out]
  /\ UNCHANGED <<rows, lock, drains, queued, seen, deliveries, refusals, crashes>>

\* settle, under the lock: whatever is owed for the run is superseded.
ReportSettles(r) ==
  LET j == rjob[r] IN
  /\ rpc[r] = "read" /\ lock = None
  /\ status[j] = "running" /\ device[j] = rdev[r]
  /\ status' = [status EXCEPT ![j] = IF rout[r] # "error" THEN rout[r]
                                     ELSE IF parked(attempts[j]) THEN "dead" ELSE "pending"]
  /\ device' = [device EXCEPT ![j] = IF rout[r] = "error" THEN None ELSE @]
  /\ owed' = [owed EXCEPT ![j] = None]
  /\ seq' = [seq EXCEPT ![j] = @ + 1]
  /\ lock' = r
  /\ rpc' = [rpc EXCEPT ![r] = "settled"]
  /\ UNCHANGED <<attempts, drains, rjob, rdev, rseen, rout, queued, seen,
                 deliveries, refusals, crashes>>

forget(r) ==
  /\ rpc' = [rpc EXCEPT ![r] = "idle"]
  /\ rjob' = [rjob EXCEPT ![r] = None] /\ rdev' = [rdev EXCEPT ![r] = None]
  /\ rseen' = [rseen EXCEPT ![r] = 0] /\ rout' = [rout EXCEPT ![r] = None]

\* The lease is gone, or spent: 409.
ReportRefused(r) ==
  /\ rpc[r] = "read"
  /\ forget(r)
  /\ UNCHANGED <<rows, lock, drains, queued, seen, deliveries, refusals, crashes>>

\* The post, still under the lock; one that fails is owed under a number of its own.
ReportPosts(r, o) ==
  LET j == rjob[r] IN
  /\ rpc[r] = "settled"
  /\ may_fail(o)
  /\ IF lands(o) THEN shows(j, description(r), seq[j]) ELSE UNCHANGED seen
  /\ IF answered(o) THEN UNCHANGED <<owed, seq>>
     ELSE /\ owed' = [owed EXCEPT ![j] = description(r)]
          /\ seq' = [seq EXCEPT ![j] = @ + 1]
  /\ lock' = None
  /\ forget(r)
  /\ UNCHANGED <<status, device, attempts, drains, queued, deliveries, crashes>>

\* _post_status catches GitHubAPIError alone.  A read that times out or a connection that
\* is dropped before the answer leaves the request as it is: the lock goes, the row is
\* settled and nothing is owed.  The post may have landed.
ReportRaises(r, landed) ==
  LET j == rjob[r] IN
  /\ rpc[r] = "settled"
  /\ refusals < MaxRefusals /\ refusals' = refusals + 1
  /\ IF landed THEN shows(j, description(r), seq[j])
     ELSE /\ dropped' = [dropped EXCEPT ![j] = seq[j]]
          /\ UNCHANGED <<commit, posted, told>>
  /\ lock' = None
  /\ forget(r)
  /\ UNCHANGED <<rows, drains, queued, deliveries, crashes>>

-----------------------------------------------------------------------------
\* Drain w has the verdict numbered n of run j in hand.
InHand(w, j, n) ==
  \/ \E i \in batch[w] : i.job = j /\ i.seq = n
  \/ dpc[w] = "posting" /\ item[w].job = j /\ item[w].seq = n

\* The latest verdict of run j is somebody's to post.
BeingPosted(j) ==
  \/ \E w \in Drains : InHand(w, j, seq[j])
  \/ \E r \in Reporters : rpc[r] = "settled" /\ rjob[r] = j

\* The process dies with its lock and everything in hand; the rows stay.
Crash ==
  /\ crashes < MaxCrashes
  /\ crashes' = crashes + 1
  /\ lock' = None
  /\ dpc' = [w \in Drains |-> "idle"]
  /\ batch' = [w \in Drains |-> {}] /\ item' = [w \in Drains |-> None]
  /\ rpc' = [r \in Reporters |-> "idle"]
  /\ rjob' = [r \in Reporters |-> None] /\ rdev' = [r \in Reporters |-> None]
  /\ rseen' = [r \in Reporters |-> 0] /\ rout' = [r \in Reporters |-> None]
  /\ queued' = [j \in Jobs |-> 0]
  /\ dropped' = [j \in Jobs |-> IF BeingPosted(j) THEN seq[j] ELSE dropped[j]]
  /\ UNCHANGED <<rows, commit, posted, told, deliveries, refusals>>

DrainStep(w) ==
  \/ \E S \in SUBSET Jobs : ReleaseExpired(w, S)
  \/ TakeOwed(w) \/ RestoreFails(w) \/ DrainEnds(w)
  \/ \E i \in batch[w] : PostBegins(w, i)
  \/ \E o \in Outcome : PostEnds(w, o) \/ CheckEnds(w, o)

ReportStep(r) ==
  \/ \E j \in Jobs, d \in Devices, out \in {"success", "failure", "error"} :
       ReportReads(r, j, d, out)
  \/ ReportSettles(r) \/ ReportRefused(r)
  \/ \E o \in Outcome : ReportPosts(r, o)
  \/ \E landed \in BOOLEAN : ReportRaises(r, landed)

Next ==
  \/ \E j \in Jobs : \/ Enqueue(j)
                     \/ \E d \in Devices : Claim(j, d)
                     \/ \E o \in Outcome : PostQueued(j, o)
  \/ \E w \in Drains : DrainStep(w)
  \/ \E r \in Reporters : ReportStep(r)
  \/ Crash

Spec == Init /\ [][Next]_vars

\* The reclaim timer keeps ticking, and a request that has started is served to its
\* end.  That GitHub refuses at most MaxRefusals requests is the environment's part.
Fairness ==
  /\ WF_vars(DrainStep(Timer))
  /\ \A w \in Requests : WF_vars(dpc[w] # "idle" /\ DrainStep(w))
  /\ \A r \in Reporters : WF_vars(rpc[r] # "idle" /\ ReportStep(r))

FairSpec == Spec /\ Fairness

-----------------------------------------------------------------------------
(* What is promised *)

TypeOK ==
  /\ status \in [Jobs -> {"absent", "pending", "running", "success", "failure", "dead"}]
  /\ device \in [Jobs -> Devices \cup {None}]
  /\ attempts \in [Jobs -> Nat]
  /\ owed \in [Jobs -> States \cup {None}] /\ seq \in [Jobs -> Nat]
  /\ lock \in Drains \cup Reporters \cup {None}
  /\ dpc \in [Drains -> {"idle", "released", "draining", "posting", "checking"}]
  /\ batch \in [Drains -> SUBSET Items] /\ item \in [Drains -> Items \cup {None}]
  /\ rpc \in [Reporters -> {"idle", "read", "settled"}]
  /\ rjob \in [Reporters -> Jobs \cup {None}] /\ rdev \in [Reporters -> Devices \cup {None}]
  /\ rseen \in [Reporters -> Nat]
  /\ rout \in [Reporters -> {"success", "failure", "error", None}]
  /\ queued \in [Jobs -> Nat]
  /\ commit \in [Jobs -> States \cup {None}]
  /\ posted \in [Jobs -> Nat] /\ told \in [Jobs -> States \cup {None}]
  /\ dropped \in [Jobs -> Nat]
  /\ deliveries \in [Jobs -> Nat] /\ refusals \in Nat /\ crashes \in Nat

\* Whoever is posting holds the lock, and what it posts is the run's latest verdict:
\* nothing moves the number between the check and the post (jobs.py:59).
PostsUnderLock ==
  /\ \A w \in Drains : dpc[w] = "posting" =>
       lock = w /\ item[w] \in Items /\ item[w].seq = seq[item[w].job]
  /\ \A r \in Reporters : rpc[r] = "settled" => lock = r /\ rjob[r] \in Jobs

\* A slow drain never puts an older verdict on top of a newer one: a verdict that is
\* posted is the run's latest at that moment, and the numbers a commit sees only rise.
PostsTheLatest ==
  \A j \in Jobs : posted'[j] # posted[j] => posted'[j] = seq[j] /\ posted'[j] > posted[j]

PostedInOrder == [][PostsTheLatest]_vars

\* The latest verdict of a run is on the commit, owed in its row, or in the hands of
\* somebody who will post it: posts GitHub refuses or does not answer, refused checks,
\* superseding reports and concurrent drains lose none.  Three things do: the process dies
\* with the verdict in hand, a report's post raises what _post_status does not catch, and a
\* verdict cannot be put back.  None loses a verdict that is owed, nor the one after it.
NoVerdictLost ==
  \A j \in Jobs : seq[j] > 0 =>
    posted[j] = seq[j] \/ owed[j] # None \/ BeingPosted(j) \/ dropped[j] = seq[j]

\* docs/direct-execution.md:345: "A status that cannot be published stays owed in
\* `pending_status`": while the broker lives, a verdict that nobody is posting and that
\* the commit was not told is owed.
UnpublishedStaysOwed ==
  \A j \in Jobs : seq[j] > 0 /\ posted[j] # seq[j] /\ ~BeingPosted(j) /\ crashes = 0
                  => owed[j] # None

\* A run that passed or failed and whose latest verdict was posted was told so: no
\* drain of an earlier loss is what the commit heard last of it.
SettledRunsToldTheirVerdict ==
  \A j \in Jobs : status[j] \in {"success", "failure"} /\ seq[j] > 0 /\ posted[j] = seq[j]
                  => told[j] = status[j]

\* The ledger implements RunLifecycle as well: reports and reclaims in any order
\* settle a run once.
Lifecycle == INSTANCE RunLifecycle WITH phase <- status, tries <- attempts
ImplementsLifecycle == Lifecycle!Spec

\* A verdict that is owed reaches the commit, or a later one does, without another
\* lease lapsing (docs/direct-execution.md:345), unless it is lost: by a report that
\* superseded it and raised, by a row that cannot be written, or by the process dying.
OwedIsPosted ==
  \A j \in Jobs : owed[j] # None ~> posted[j] = seq[j] \/ dropped[j] = seq[j]

\* Nothing about run j is left for the broker to send.
Quiet(j) ==
  /\ queued[j] = 0 /\ owed[j] = None
  /\ \A w \in Drains : dpc[w] = "idle"
  /\ \A r \in Reporters : rpc[r] = "idle"

\* README.md:22: "the result is reported as a `cindral/ci` commit status": a finished run
\* with nothing left to send shows its verdict on the commit.
CommitShowsVerdict ==
  \A j \in Jobs : status[j] \in {"success", "failure"} /\ Quiet(j) => commit[j] = status[j]
=============================================================================
