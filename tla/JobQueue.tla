------------------------------ MODULE JobQueue ------------------------------
(***************************************************************************)
(* The durable job queue of the broker (jobs.py, lease_reclaim.py,         *)
(* verdicts.py, scheduling.py, agents_table.py) and the agents that drive  *)
(* it (agent.py, heartbeats.py): leases, presence, claims, renewals,       *)
(* reports, retries and parking.                                           *)
(*                                                                         *)
(* The broker compares every timestamp with its own clock only, so a       *)
(* column holding a time is kept as its distance from now and Tick ages    *)
(* all of them: lease[j] = lease_expires - now, wait[j] = available_at -   *)
(* now, silence[d] = now - last_seen.  Each distance saturates one past    *)
(* the last value a condition of the code can tell apart.                  *)
(***************************************************************************)
EXTENDS Integers, FiniteSets

CONSTANTS
  Jobs, Devices, Slots, Repositories, Labels,
  DeviceOf,              \* [Slots -> Devices]: a slot is one thread of an agent
  RepositoryOf,          \* [Jobs -> Repositories]
  Needs,                 \* [Jobs -> SUBSET Labels]: the labels column
  Offers,                \* [Devices -> SUBSET Labels]: what an agent advertises
  LeaseSeconds,          \* lease length
  Grace,                 \* LIVE_DEVICE_GRACE_SECONDS
  BaseBackoff, MaxBackoff,
  MaxAttempts,
  MaxRepositoryRunning,
  Outcomes,              \* what an executor can end with
  None                   \* SQL NULL

ASSUME ConstantsAssumption ==
  /\ IsFiniteSet(Jobs)
  /\ DeviceOf \in [Slots -> Devices] /\ RepositoryOf \in [Jobs -> Repositories]
  /\ Needs \in [Jobs -> SUBSET Labels] /\ Offers \in [Devices -> SUBSET Labels]
  /\ LeaseSeconds \in Nat \ {0} /\ Grace \in Nat
  /\ BaseBackoff \in Nat /\ MaxBackoff \in Nat
  /\ MaxAttempts \in Nat \ {0} /\ MaxRepositoryRunning \in Nat \ {0}
  /\ Outcomes \subseteq {"success", "failure", "error"}
  /\ None \notin Int /\ None \notin Devices /\ None \notin Jobs

VARIABLES
  \* the jobs table
  status, device, lease, attempts, wait,
  born,        \* created_at, as the rank the run was enqueued with
  \* the agents table
  silence,
  \* the meta table
  reclaims, reclaimsLive,
  \* the agents: what each slot is doing, with which run, and its unanswered report
  pc, held, try, mail,
  \* observation only: device-error reports the queue accepted, per run
  errors

rows     == <<status, device, lease, attempts, wait>>
counters == <<reclaims, reclaimsLive>>
agent    == <<pc, held, try>>
vars     == <<rows, born, silence, counters, agent, mail, errors>>

Running(r)  == {j \in Jobs : status[j] = "running" /\ RepositoryOf[j] = r}
Enqueued    == {j \in Jobs : status[j] # "absent"}
Reports     == [job : Jobs, try : 1 .. MaxAttempts, outcome : Outcomes]

(***************************************************************************)
(* The initial queue is empty, no device has announced itself.             *)
(***************************************************************************)
Init ==
  /\ status = [j \in Jobs |-> "absent"]
  /\ device = [j \in Jobs |-> None]
  /\ lease = [j \in Jobs |-> None]
  /\ attempts = [j \in Jobs |-> 0]
  /\ wait = [j \in Jobs |-> 0]
  /\ born = [j \in Jobs |-> 0]
  /\ silence = [d \in Devices |-> Grace + 1]
  /\ reclaims = 0 /\ reclaimsLive = 0
  /\ pc = [s \in Slots |-> "idle"]
  /\ held = [s \in Slots |-> None]
  /\ try = [s \in Slots |-> 0]
  /\ mail = [s \in Slots |-> None]
  /\ errors = [j \in Jobs |-> 0]

-----------------------------------------------------------------------------
(* retry.py *)

backoff_seconds(a) ==
  LET doubled == BaseBackoff * 2 ^ (IF a > 1 THEN a - 1 ELSE 0)
  IN  IF doubled < MaxBackoff THEN doubled ELSE MaxBackoff

\* Mutant: one attempt more than the cap, and one less.
parked_late(a)  == a > MaxAttempts
parked_early(a) == a >= MaxAttempts - 1

parked(a) == a >= MaxAttempts

(* lease_reclaim.py: a lapsed lease is spent when the grace is over too, or *)
(* when its device is not announcing itself any more.                       *)
Present == {d \in Devices : silence[d] <= Grace}

\* Mutant: no grace for a device that is present.
spent_lease_no_grace(j) == lease[j] # None /\ lease[j] < 0

\* Mutant: a device that is present keeps a lapsed lease for ever.
spent_lease_present_keeps(j) ==
  lease[j] # None /\ lease[j] < 0 /\ (device[j] = None \/ device[j] \notin Present)

spent_lease(j) ==
  /\ lease[j] # None
  /\ lease[j] < 0
  /\ lease[j] < -Grace \/ device[j] = None \/ device[j] \notin Present

Spent == {j \in Jobs : status[j] = "running" /\ spent_lease(j)}

\* Mutant: any device, and any state of the run.
holds_lease_any_device(j, d) == status[j] = "running" /\ ~spent_lease(j)
holds_lease_any_state(j, d)  == device[j] = d /\ ~spent_lease(j)

\* What the queue checks of a renewal or a report: the run is out, to that
\* device, and its lease is not spent.  The row knows no attempt.
holds_lease(j, d) == status[j] = "running" /\ device[j] = d /\ ~spent_lease(j)

release(S) ==
  /\ status' = [j \in Jobs |-> IF j \notin S THEN status[j]
                               ELSE IF parked(attempts[j]) THEN "dead" ELSE "pending"]
  /\ device' = [j \in Jobs |-> IF j \in S THEN None ELSE device[j]]
  /\ lease' = [j \in Jobs |-> IF j \in S THEN None ELSE lease[j]]
  /\ wait' = [j \in Jobs |-> IF j \in S THEN backoff_seconds(attempts[j]) ELSE wait[j]]
  /\ UNCHANGED attempts

\* Mutant: only the reclaims of devices that are present are counted.
expire_counts_live ==
  LET live == Cardinality({j \in Spent : device[j] \in Present})
  IN  release(Spent) /\ reclaims' = reclaims + live /\ reclaimsLive' = reclaimsLive + live

\* Release every spent lease and count it, in one transaction.
expire ==
  /\ release(Spent)
  /\ reclaims' = reclaims + Cardinality(Spent)
  /\ reclaimsLive' = reclaimsLive + Cardinality({j \in Spent : device[j] \in Present})

-----------------------------------------------------------------------------
(* The broker's operations *)

\* An insert; a second delivery of the same webhook finds the row and changes
\* nothing, which is a stuttering step here.
enqueue(j) ==
  /\ status[j] = "absent"
  /\ status' = [status EXCEPT ![j] = "pending"]
  /\ born' = [born EXCEPT ![j] = Cardinality(Enqueued)]
  /\ UNCHANGED <<device, lease, attempts, wait, silence, counters, agent, mail, errors>>

record_heartbeat(d) ==
  /\ silence' = [silence EXCEPT ![d] = 0]
  /\ UNCHANGED <<rows, born, counters, agent, mail, errors>>

\* The reclaim timer; a pass that finds nothing spent changes nothing.
reclaim_tick ==
  /\ Spent # {}
  /\ expire
  /\ UNCHANGED <<born, silence, agent, mail, errors>>

\* Mutant: the repository's limit is off by one.
eligible_one_over(d) ==
  {j \in Jobs : /\ status[j] = "pending" /\ wait[j] <= 0
                /\ Needs[j] \subseteq Offers[d]
                /\ Cardinality(Running(RepositoryOf[j])) <= MaxRepositoryRunning}

eligible(d) ==
  {j \in Jobs : /\ status[j] = "pending" /\ wait[j] <= 0
                /\ Needs[j] \subseteq Offers[d]
                /\ Cardinality(Running(RepositoryOf[j])) < MaxRepositoryRunning}

\* Fewest running of the repository first, then the oldest run.
goes_before(i, j) ==
  LET active(k) == Cardinality(Running(RepositoryOf[k]))
  IN  active(i) < active(j) \/ (active(i) = active(j) /\ born[i] <= born[j])

pick_job(d) == {j \in eligible(d) : \A k \in eligible(d) : goes_before(j, k)}

\* The claim request first releases what is spent, then asks for a run: two
\* transactions, and anything may happen between them.
ClaimReleases(s) ==
  /\ pc[s] = "idle"
  /\ expire
  /\ pc' = [pc EXCEPT ![s] = "asking"]
  /\ UNCHANGED <<born, silence, held, try, mail, errors>>

\* The reply reaches the slot, or is lost with the lease already granted.
Claim(s, j, answered) ==
  /\ pc[s] = "asking"
  /\ j \in pick_job(DeviceOf[s])
  /\ status' = [status EXCEPT ![j] = "running"]
  /\ device' = [device EXCEPT ![j] = DeviceOf[s]]
  /\ lease' = [lease EXCEPT ![j] = LeaseSeconds]
  /\ attempts' = [attempts EXCEPT ![j] = @ + 1]
  /\ pc' = [pc EXCEPT ![s] = IF answered THEN "running" ELSE "idle"]
  /\ held' = [held EXCEPT ![s] = IF answered THEN j ELSE @]
  /\ try' = [try EXCEPT ![s] = IF answered THEN attempts[j] + 1 ELSE @]
  /\ UNCHANGED <<wait, born, silence, counters, mail, errors>>

ClaimNothing(s) ==
  /\ pc[s] = "asking"
  /\ pick_job(DeviceOf[s]) = {}
  /\ pc' = [pc EXCEPT ![s] = "idle"]
  /\ UNCHANGED <<rows, born, silence, counters, held, try, mail, errors>>

-----------------------------------------------------------------------------
(* The agent: an executor, a renewal thread beside it, and the report. *)

Working(s) == pc[s] \in {"running", "reporting"}

\* A renewal that reaches the broker moves the lease or is refused, which ends
\* the run on this slot.
Renew(s) ==
  /\ Working(s)
  /\ IF holds_lease(held[s], DeviceOf[s])
     THEN lease' = [lease EXCEPT ![held[s]] = LeaseSeconds] /\ UNCHANGED pc
     ELSE pc' = [pc EXCEPT ![s] = "lost"] /\ UNCHANGED lease
  /\ UNCHANGED <<status, device, attempts, wait, born, silence, counters,
                 held, try, mail, errors>>

\* Renewals that do not get through up to the slot's own deadline: it gives up.
RenewalsFail(s) ==
  /\ Working(s)
  /\ pc' = [pc EXCEPT ![s] = "lost"]
  /\ UNCHANGED <<rows, born, silence, counters, held, try, mail, errors>>

free(s) == /\ pc' = [pc EXCEPT ![s] = "idle"]
           /\ held' = [held EXCEPT ![s] = None]
           /\ try' = [try EXCEPT ![s] = 0]

\* A slot that lost its lease drops what it ran and reports nothing.
Abandon(s) ==
  /\ pc[s] = "lost"
  /\ free(s)
  /\ UNCHANGED <<rows, born, silence, counters, mail, errors>>

\* The executor ended: an exit code, or the error that kept it from one.
SendReport(s, outcome) ==
  /\ pc[s] = "running" /\ mail[s] = None
  /\ mail' = [mail EXCEPT ![s] = [job |-> held[s], try |-> try[s], outcome |-> outcome]]
  /\ pc' = [pc EXCEPT ![s] = "reporting"]
  /\ UNCHANGED <<rows, born, silence, counters, held, try, errors>>

\* The client stops waiting; the request may still be handled later.
ReportTimesOut(s) ==
  /\ pc[s] = "reporting"
  /\ free(s)
  /\ UNCHANGED <<rows, born, silence, counters, mail, errors>>

\* The request never arrives.
ReportLost(s) ==
  /\ mail[s] # None
  /\ mail' = [mail EXCEPT ![s] = None]
  /\ IF pc[s] = "reporting" THEN free(s) ELSE UNCHANGED agent
  /\ UNCHANGED <<rows, born, silence, counters, errors>>

\* verdicts.py settle: an exit code ends the run, a device error releases it.
settle(j, outcome) ==
  IF outcome = "error"
  THEN release({j}) /\ errors' = [errors EXCEPT ![j] = @ + 1]
  ELSE /\ status' = [status EXCEPT ![j] = outcome]
       /\ lease' = [lease EXCEPT ![j] = None]
       /\ UNCHANGED <<device, attempts, wait, errors>>

\* The report is handled: recorded, or refused because the lease moved on.
Report(s) ==
  /\ mail[s] # None
  /\ IF holds_lease(mail[s].job, DeviceOf[s])
     THEN settle(mail[s].job, mail[s].outcome)
     ELSE UNCHANGED <<rows, errors>>
  /\ mail' = [mail EXCEPT ![s] = None]
  /\ IF pc[s] = "reporting" THEN free(s) ELSE UNCHANGED agent
  /\ UNCHANGED <<born, silence, counters>>

\* The agent's process dies with every run it holds, and comes back idle.
AgentCrash(d) ==
  /\ \E s \in Slots : DeviceOf[s] = d /\ pc[s] \in {"running", "reporting", "lost"}
  /\ pc' = [s \in Slots |-> IF DeviceOf[s] = d THEN "idle" ELSE pc[s]]
  /\ held' = [s \in Slots |-> IF DeviceOf[s] = d THEN None ELSE held[s]]
  /\ try' = [s \in Slots |-> IF DeviceOf[s] = d THEN 0 ELSE try[s]]
  /\ UNCHANGED <<rows, born, silence, counters, mail, errors>>

-----------------------------------------------------------------------------
Tick ==
  /\ lease' = [j \in Jobs |-> IF lease[j] # None /\ lease[j] >= -Grace
                              THEN lease[j] - 1 ELSE lease[j]]
  /\ wait' = [j \in Jobs |-> IF wait[j] > 0 THEN wait[j] - 1 ELSE wait[j]]
  /\ silence' = [d \in Devices |-> IF silence[d] <= Grace THEN silence[d] + 1 ELSE silence[d]]
  /\ UNCHANGED <<status, device, attempts, born, counters, agent, mail, errors>>

SlotStep(s) ==
  \/ ClaimReleases(s) \/ ClaimNothing(s)
  \/ \E j \in Jobs : Claim(s, j, TRUE) \/ Claim(s, j, FALSE)
  \/ Renew(s) \/ RenewalsFail(s) \/ Abandon(s)
  \/ \E outcome \in Outcomes : SendReport(s, outcome)
  \/ ReportTimesOut(s) \/ ReportLost(s) \/ Report(s)

Next ==
  \/ \E j \in Jobs : enqueue(j)
  \/ \E d \in Devices : record_heartbeat(d) \/ AgentCrash(d)
  \/ \E s \in Slots : SlotStep(s)
  \/ reclaim_tick
  \/ Tick

Spec == Init /\ [][Next]_vars

\* Time passes, the reclaim timer runs, a slot keeps polling for work, and an
\* executor ends within its job's timeout.  Nothing makes a device announce
\* itself, renew, stay up or get a request through.
Fairness ==
  /\ WF_vars(Tick)
  /\ WF_vars(reclaim_tick)
  /\ \A s \in Slots :
       /\ WF_vars(ClaimReleases(s))
       /\ WF_vars(ClaimNothing(s) \/ \E j \in Jobs : Claim(s, j, TRUE) \/ Claim(s, j, FALSE))
       /\ WF_vars(\E outcome \in Outcomes : SendReport(s, outcome))
       /\ WF_vars(Abandon(s))
       /\ WF_vars(ReportLost(s) \/ Report(s))

FairSpec == Spec /\ Fairness

-----------------------------------------------------------------------------
(* What is promised *)

TypeOK ==
  /\ status \in [Jobs -> {"absent", "pending", "running", "success", "failure", "dead"}]
  /\ device \in [Jobs -> Devices \cup {None}]
  /\ lease \in [Jobs -> Int \cup {None}]
  /\ attempts \in [Jobs -> 0 .. MaxAttempts]
  /\ wait \in [Jobs -> Int]
  /\ born \in [Jobs -> Nat]
  /\ silence \in [Devices -> 0 .. Grace + 1]
  /\ reclaims \in Nat /\ reclaimsLive \in Nat
  /\ pc \in [Slots -> {"idle", "asking", "running", "reporting", "lost"}]
  /\ held \in [Slots -> Jobs \cup {None}]
  /\ try \in [Slots -> 0 .. MaxAttempts]
  /\ mail \in [Slots -> Reports \cup {None}]
  /\ errors \in [Jobs -> Nat]

\* A lease is the slot authority (jobs.py, JobStore): a run is out exactly while
\* its row carries a lease, a lease names the device that holds it, and it never
\* promises more than one lease length or less than the end of the grace.
LeaseIsAuthority ==
  \A j \in Jobs :
    /\ status[j] = "running" <=> lease[j] # None
    /\ status[j] = "running" => device[j] \in Devices /\ lease[j] \in -(Grace + 1) .. LeaseSeconds

\* The attempt cap: whatever claims, lapsed leases, late reports and crashes come
\* together, a run waiting in the queue has an attempt left, a run out on a device
\* is on one of its attempts, and only a run that used them all is parked.
AttemptsSpent ==
  \A j \in Jobs :
    /\ status[j] = "absent" => attempts[j] = 0
    /\ status[j] = "pending" => attempts[j] < MaxAttempts
    /\ status[j] \in {"running", "success", "failure"} => attempts[j] >= 1
    /\ status[j] = "dead" => attempts[j] = MaxAttempts

\* No interleaving of claims from different devices lets one repository hold more
\* leases than its limit (CINDRAL_MAX_REPOSITORY_RUNNING).
RepositoryCap ==
  \A r \in Repositories : Cardinality(Running(r)) <= MaxRepositoryRunning

\* As many pairs as the counts of f come to together; the runs whose last attempt is out
\* or ended in a verdict.
each(f)  == UNION {{j} \X (1 .. f[j]) : j \in Jobs}
Answered == {j \in Jobs : status[j] \in {"running", "success", "failure"}}

\* Every attempt is accounted for exactly once: a lease that lapsed, counted by
\* one reclaim however many claims and ticks see it, an accepted device error, a
\* verdict, or a run still out (jobs.py:266, "cannot both requeue the same run and
\* count it twice").  A reclaim is counted live at most once as well.
EveryAttemptAccounted ==
  /\ Cardinality(each(attempts)) = reclaims + Cardinality(each(errors)) + Cardinality(Answered)
  /\ reclaimsLive <= reclaims

\* What a working slot believes it runs was handed to it: the run exists and has
\* been started at least as often as the attempt the slot is on.
AgentKnowsItsAttempt ==
  /\ \A s \in Slots : pc[s] \in {"running", "reporting", "lost"} =>
       held[s] \in Jobs /\ try[s] \in 1 .. attempts[held[s]]
  /\ \A s \in Slots : mail[s] # None => mail[s].try \in 1 .. attempts[mail[s].job]

\* The step takes the report of slot s off the wire.
handled(s) == mail[s] # None /\ mail'[s] = None

\* A lease inside its term, or in the grace of a device that is announcing itself,
\* is never taken away: its run goes back to the queue only on the word of the
\* device that holds it (lease_reclaim.py, expire).
TakesOnlySpentLeases ==
  \A j \in Jobs :
    /\ status[j] = "running" /\ status'[j] \in {"pending", "dead"}
    /\ lease[j] >= 0 \/ (lease[j] >= -Grace /\ silence[device[j]] <= Grace)
    => \E s \in Slots : handled(s) /\ mail[s].job = j /\ DeviceOf[s] = device[j]

LateHolderKeepsRun == [][TakesOnlySpentLeases]_vars

\* A report of an attempt that lost its lease to another device changes nothing,
\* however late it arrives (verdicts.py, settle).
RefusesForeignReports ==
  \A s \in Slots : handled(s) /\ device[mail[s].job] # DeviceOf[s] => status' = status

ForeignAttemptRefused == [][RefusesForeignReports]_vars

\* The queue keeps the promise of RunLifecycle: one submission, at most
\* MaxAttempts starts, and a verdict or a parking that nothing undoes.
Lifecycle == INSTANCE RunLifecycle WITH phase <- status, tries <- attempts
ImplementsLifecycle == Lifecycle!Spec

\* Every enqueued run is answered or parked in the end: devices may crash, go
\* silent, lose replies or never renew, and no run is stranded.
EveryRunSettles == Lifecycle!Settles
=============================================================================
