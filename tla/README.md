# Cindral: models, checks and proofs

Cindral is a CI relay.  A broker (`src/src/cindral/service.py`) receives signed
GitHub webhooks and either dispatches a GitHub Actions workflow or queues the
push as a job for the operator's own devices.  A device runs an agent
(`agent.py`) that claims jobs under a lease, runs them and reports; the broker
puts the result on the commit.  This directory models the parts of the broker
and the agent whose correctness depends on the order of events, checks them
with TLC on small instances and proves the main results with TLAPS.

Source paths below are relative to `src/src/cindral/`.

## 1. Inventory

| Component | State | Operations | Hard behaviour |
|---|---|---|---|
| Job queue and leases (`jobs`, `lease_reclaim`, `verdicts`, `scheduling`, `retry`, `agents_table`) | `jobs`, `agents` and `meta` tables | enqueue, claim, renew, report, reclaim, heartbeat | leases lapse while renewals, reports and claims are in flight; two deadlines (term and grace); attempt cap |
| Device agent (`agent`, `heartbeats`) | one thread per slot, a renewal thread beside each run | poll, run, renew, give up, report | lost replies and reports, crash with leases standing, two slots under one device name |
| Verdict ledger (`status_ledger`, `status_text`, `jobapi`, `lease_reclaim`) | `pending_status`, `status_seq`, `status_lock` | owe, take, post, restore, supersede | several drains at once; slow, refused and unanswered posts; a crash in between |
| Push dispatch (`webhook_dispatch`, `deliveries`, `delivery_*`, `refusal`) | `webhook_deliveries` | receive, look up, register, claim, send, record, hand over, replay, recover | redeliveries and the replay loop on one row; unknown answers; restart |
| Metered budget (`budget`, `metering`, `delivery_spend`) | `metered_dispatches` | hold, release, attribute, count | a hold must go back on every path that starts no run, and on no other |
| Request routing (`service`, `pull_request_dispatch`, `webhook`, `merge_ref`, `dispatch_ref`) | none of its own | HTTP handlers | holds across calls; posts outside the lock |
| Lane policy (`policy`, `dispatch_targets`, `models`) | configuration | choose, push_lane, permits_device | takes a hold as a side effect |
| Capacity reservations (`dispatch_capacity`) | in-memory map | reserve, expire, release | expiry against a late dispatch |
| Check runs (`check_runs`, `check_summary`) | ids of open checks, in memory | render, find, create, update | publishers overlap; answers are lost; checks are removed; the ids are gone after a restart |
| Artifacts (`artifact*`) | `artifacts` rows and one file per run | stage, put, confirm, discard, get | archive of a lost attempt against that of the next; rename before commit |
| Cache (`cache*`) | `cache_entries` rows and one file per content | look up, download, upload, expire, evict | rows share files; tests without the lock; times sampled before waiting |
| Pool view, stalls (`pool`, `stalls`, `observability`, `freshness`) | views | snapshot | two counts of one load |
| Quota, billing | last reading, last failure | refresh, current, read | several readers, the last to store wins; end of the month |
| Credentials (`app_auth`, `device_auth`) | cached token | token, refresh | none: one lock around everything |
| Workflow translation (`actions`, `discovery`, `triggers`, `jobcondition`, ...) | none | pure functions | coverage of inputs |
| Executor (`executor`, `process`, `steps`, `act`, `limits`) | workspace, network and containers named after the job | prepare, run, cancel, clean up, read the log | two attempts of a job on one device; killed clients; crash of the agent |
| Onboarding, CLI, MCP, panel | none shared with the broker | clients | - |

How they interact: webhook handlers, claim and report handlers run in threads of
one broker process; two timers (reclaim, replay) run beside them.  They share the
SQLite tables (every method of a store is one transaction), `status_lock` and
`budget_lock`.  A thread keeps rows it read, verdicts it took and holds it got in
local variables across network calls; that is where most hazards lie.  Agents
talk to the broker over HTTP only, so any call may be lost on the way there or
on the way back.  `sole_holder.py` keeps a queue file to one broker process.

What makes each part correct, in one line each:

* queue: a run has at most `MAX_ATTEMPTS` attempts, each accounted for once, and
  in the end a verdict or a parking that nothing undoes; a lease is taken away only
  when it is spent;
* ledger: the verdicts of a run reach its commit in order, the last one included;
* push dispatch: one dispatch per delivery, and a device gets only what GitHub
  certainly did not start;
* budget: the month is charged for what was started or may have been, no more and
  no less;
* artifacts: an archive that was acknowledged stands, with the bytes of the attempt
  whose verdict is shown, none is replaced by another, and the disk holds what the rows say;
* check runs: one check per run, which ends on the run's verdict and stays there;
* cache: rows and files agree, quotas hold, an entry's content is stored once, and a run
  restores only from its scope;
* quota: a decision rests on a reading of its own month that is not too old;
* executor: green is earned, an attempt removes what it made and nothing else, and the
  step a run stopped in is named whatever was cut from its records.

The hazards are listed in `PROJECT.json`, each at the line where it bites, with the
properties that cover it.

## 2. Modules

| Module | What it is |
|---|---|
| `RunLifecycle` | abstract specification of one run: submitted, started at most `MaxAttempts` times, lost and retried, concluded or parked |
| `JobQueue` | the queue with time, leases, presence, backoff and the agents |
| `VerdictLedger` | the queue without time, with the threads that publish its verdicts |
| `PushDispatch` | the delivery ledger, the metered ledger and the threads on them |
| `Artifacts` | uploads of a run's attempts, the store of archives and its readers |
| `WriteOnceStore` | abstract specification of both stores: a key has one content or none, content is written where there is none, dropped at any time, and never replaced |
| `CheckSummary` | what a run's record renders as: state, conclusion, title, table, annotation |
| `CheckRuns` | the publishers of one run's check, over `CheckSummary` |
| `Cache` | the store of dependency caches and the runs that use it |
| `Quota` | the cached quota reading, its readers and the route decision |
| `Steps` | step records: from the marks in a log to what the broker keeps |
| `Execution` | attempts of one job on one device, over `Steps` and `CheckSummary` |
| `MC*` | instances for TLC |
| `*Proofs` | theorems about `JobQueue`, `VerdictLedger`, `PushDispatch`, `Artifacts`, `CheckRuns`, `Cache`, `Quota` and `Execution` |

Operators named `..._late`, `..._nothing` and so on, with a comment that starts
"Mutant", are the plausible bugs each property is tried against; no specification
uses them.

### JobQueue

Rows of `jobs` are functions of the run (`status`, `device`, `lease`, `attempts`,
`wait`, `born`), rows of `agents` are `silence`, and the two `meta` counters are
`reclaims` and `reclaimsLive`.  The broker compares timestamps with its own clock
only, so a column that holds a time is kept as its distance from now, and `Tick`
ages them all; each distance stops one past the last value that a condition can
tell apart.  An agent row that `prune_agents` deletes is one with `silence` beyond
the grace.  A run may be enqueued once; redelivered webhooks find the row.

A claim is two actions because the handler makes two transactions (release what is
spent, then pick).  `Claim` with `answered = FALSE` is a reply that is lost with the
lease granted.  `mail[s]` is a report on the wire: it is handled, or lost, at any
later time, also after the client stopped waiting.  `RenewalsFail` is the renewal
thread's own deadline.  Preflight and version checks before a claim are an idle
slot here.  What an executor does is its outcome.

### VerdictLedger

`owed` and `seq` are `pending_status` and `status_seq`.  A drain (`dpc`, `batch`,
`item`) is the reclaim timer or a claim request; a report (`rpc`, ...) keeps the
attempts it read first in `rseen`, since `_report` words the status from that row.
`lock` is `status_lock`; an action that only takes and drops the lock requires it to
be free.  A post lands, is refused, or lands without its answer.  A report's post may also
raise what `_post_status` does not catch, a read timeout or a dropped connection
(`ReportRaises`): the run is settled and nothing is owed.  `dropped` is the number of the
verdict of a run that was lost that way, with the process, or with a row that could not be
written; it is observation only.  The
drains catch every exception (`post_if_current`) and put the verdict back, unless the row
cannot be written (`RestoreFails`).  A status is its
state; wording is left out.  Time is left out, so any run that is out may be found
spent and any run that waits may be claimed: more behaviours than `JobQueue` has.

### PushDispatch

`state`, `rowlane`, `order` are the delivery ledger; `holds` and `month` the ids of
the rows of the metered ledger and those the ceiling counts.  A thread goes through
`looking` (`workflow_exists`), `choosing`, `registering`, `claiming`, `sending`, one
state per answer, and `handing`; the replay loop enters at `looking` with each row
of its pass (`todo`, places in the order of creation), after it asked the policy again (`permitted`).  A ceiling is the number
of dispatches the budget admits; a budget is assumed to be configured.  `DeviceOK`
folds the conditions of `hand_off` (a device lane, a commit, a fallback).  `queued` counts the
refused pushes a device was given, `diverted` those it was given for want of an adapter.  A
release is `given_back`, or the ledger cannot be written and the hold `stays`: most callers
swallow that error, `release_hold` lets it end the request (`ChooseLocal`).  A pull request
posts a status between its hold and its dispatch, and what that post raises leaves the hold
with nothing sent (`CallRaises`); `unreleased` counts the holds that stayed.  Capacity
reservations are not modelled.  A pull request, `/v1/dispatch` and `/v1/route` use
the metered ledger only (`Call`, `CallSends`, `Preview`).

### Artifacts

`row[j].n` is the attempt that published the row: two attempts of one commit produce the
same bytes and so the same digest, and only the publication time tells them apart.
`file[j]` is the attempt whose bytes have the run's path.  What the store does under its
lock is one step; `put_raises` is a commit that failed (the rename is undone, if no row
names the run) or landed and raised (nothing is).  An upload is `reading` while it has no
lock, then `created` or `existing`, then its lease is checked again (`Recheck`) and its
row looked up (`Confirm`), each in a step of its own.  `drops` are the discards a
reclaim still owes.  What the model shows beside its properties:

* a reclaim's discard that runs after the next claim takes the next attempt's archive,
  also one that was answered 201 (`taken` is where the properties allow for it);
* an upload answered 200 ("existing") can be followed by the first attempt's own
  compare-and-delete, so nothing is stored;
* with the same device on both attempts, the lease test cannot tell them apart, and the
  first attempt's bytes may stay under the second one's verdict;
* a put over an expired row of its own run unlinks the file it has just renamed in; the
  upload is then answered 507.

`Served(j)` is what stands to be served for a run: the attempt of a row whose time is not up,
with that of its bytes, or nothing.  As `held` it implements `WriteOnceStore`, whose values
have row and bytes of one attempt, so that another's bytes behind a row are no value at all.
The code says it of the store ("One immutable archive per job", `artifact.py:93`).  It is about
the store at one moment: a download opens the file without the lock after it took the row.

### CheckSummary and CheckRuns

A record is the row's status, attempts, exit code, loss and steps.  A publisher goes
through `looking` (memory), `finding` (GitHub), `writing` and `answered`, and after a 404
through the same places once more (`again`, `refinding`, `rewriting`).  `open` is the id
in memory.  Drains are one step here; `VerdictLedger` has their detail.  What a check
that is not as it should be takes, and the properties therefore allow for:

* two publishers at a time can open two checks, or leave a settled run's check pending;
* the second try after a 404 does not ask whether the check it found is finished, so a
  pending record reopens it (`check_runs.py:291`);
* a check that is refused in a report's or the timer's thread is not tried again;
* a report whose status post raises ends before it comes to the check (`report_raises`,
  `skipped`);
* a running last attempt is titled as lost when the row keeps an earlier loss.

Annotations are sent again when the answer to a write was lost; GitHub adds them up.
That is not modelled.

### Cache

An entry stands for repository, branch, architecture and key.  A lookup is three steps
(transaction, test of the file, late delete of the row), a download two (row, file), and
an upload takes its time before its body.  `burnt` are files that an undone transaction
had unlinked, `loose` files left without a row; the next collection takes the latter.
`admitted` is what the entry held when the broker admitted the download: contents are shared,
so the file a lookup named may be there after its entry was stored again with another.
Beside its properties the model shows that a late delete can remove a row that was stored
again meanwhile; that a slow upload can be the oldest row and evict itself while it is
answered 201; that a content larger than the store's quota but within the repository's
empties the store; and that a transaction undone after its unlinking leaves a row without
a file, which the next lookup drops.  Staged files of a crashed upload are never swept.
The hit and miss counters are not modelled.

`Entry(e)` is the content of a row whose time is not up by the clock of now.  As `held` it
implements `WriteOnceStore` (`docs/direct-execution.md:496`: "an immutable entry").  A request
has an older time than the clock, so a lookup may touch, and bring back, a row that has expired
meanwhile, with the content it had; and an upload replaces only rows that had expired when it
began.

### Quota

A thread that reads goes from `allowance` to `organization` and `report` as the
endpoints fail, then `store`s; a request then looks at the shared reading again
(`serve`).  A reading has its status, the month it names, or none, and its time.
`ReadTime` is what the timeouts allow a read.  The allowance names no month, so such a
reading is served past the month's end until it is too old, although `quota.py:5` says a
reading serves "until that reading goes stale or its billing month ends".  A slow reader
that asked before the month's end can store last, and the first request of the month is
then told the quota is unknown; `replaced` marks it.  `service.py:70` hands the GitHub
client to the billing client where a token is expected, so with the code as wired every
read is refused; the model is of the source with a credential that works.

### Steps and Execution

An attempt is at one command of `_execute` or `_run_steps` at a time; `workspace`,
`network`, `service`, `job` and `archive` are the attempt whose object has the job's name
on the device.  Cancelling kills the client that is running: the daemon may have done what it
was asked for.  A command may also fail half way by itself: `docker run` makes a container and
does not start it.  Nothing that is removed is sure to go, since no result of `docker rm`,
`docker network rm` or the removal of files decides anything; `cleanup_workspace` may be off
(`cleanup=False`).  `left` is what is on the device for one of these reasons, or since the agent
died; it is observation only, and `MaxLeft` bounds it.  A container takes as long as it likes and ends as the
script does (`announce`, `step_passes`, `container_exits`).  `completed_log` is what an
attempt reads back; what is left of a log that two attempts wrote is left out, since no
property reads the records of such an attempt.
`encode_steps(parse_steps(...))` is the way of the records to the broker, and
`verdict_for` what the check then shows.  The loops over a log are written as what they
compute: a charge is a number of pairs of position and character, the marks that count are
the one set of positions in which each is the first or the next of the last before it, and
`only` reads them in order.  The cache around the steps is in `Cache`.
Beside its properties the model shows that

* creating the network is the only mutual exclusion between attempts of one job on a
  device; workspace, log and archive are shared: a second start replaces the workspace and
  truncates the log of the first, the first's cleanup deletes the workspace of the second,
  and one attempt's upload may send or unlink the other's archive;
* a client killed while it makes the network or a service, a service that is made and does
  not start, and a network that is not removed stay, and every later attempt of the job on
  that device fails with exit code 1;
* a job container that was not removed fails the next attempt with 125, and that attempt's
  cleanup then takes it;
* `_execute` turns every failure of the device into exit code 1, a red commit, although
  `agent.py` reports a device failure as a loss where it sees one;
* a crash of the agent leaves containers that nothing removes.

## 3. Runs

All bounds are CONSTANTS; those whose names start with `Max` and are not the code's own limits
only bound how often the environment acts.

| Run | Instance | Shows |
|---|---|---|
| `JobQueuePair` | 2 runs of one repository (cap 1), 2 devices with different labels, 2 attempts, no grace | `TypeOK`, `AttemptsSpent`, `RepositoryCap`, `EveryAttemptAccounted`, `ForeignAttemptRefused`, refinement of `RunLifecycle` |
| `JobQueueLive` | the same runs, one slot, grace 1, `FairSpec` | `LateHolderKeepsRun`, `EveryRunSettles` |
| `LedgerOrder` | 1 run, 2 attempts, timer, 1 claim request, 2 reports, 1 post that fails, 1 crash, `FairSpec` | `PostsUnderLock`, `NoVerdictLost`, `SettledRunsToldTheirVerdict`, `PostedInOrder`, `OwedIsPosted`, refinement of `RunLifecycle` |
| `DispatchClaims` | 1 delivery sent twice, 2 requests, a direct dispatch, a preview, a month's end, a fault, a restart | `TypeOK`, `OneAttempt`, `HandedOverOnce`, `RefusedIsHandedOver`, `NoHoldStranded` |
| `DispatchLive` | 2 deliveries, ceiling 1, a direct dispatch, 2 faults, passes that read one row, `FairSpec` | `ClaimIsExclusive`, `FreeLaneIsReplayed`, `ReadyIsReplayed` |
| `ArtifactStore` | a run with 2 attempts, 2 devices, a larger archive already stored, quotas of 2, a reader, 2 faults | `AckedArchiveStands`, `VerdictOwnsArchive`, `DiskIsAccounted`, refinement of `WriteOnceStore` |
| `CheckPublishers` | 2 publishers, 2 deliveries, 2 attempts, a fault, a removed check | `ClosedOnItsVerdict`, `OneCheckPerRun`, `SettledCheckCloses`, `ReopenedOnlyUnseen` |
| `CacheStore` | 3 runs, 4 entries of 2 repositories and 3 scopes, 3 contents (one of size 2), quotas of 2, a lifetime of 1, 3 times, a fault | `FilesMatchRows`, `QuotasHold`, `RestoredFromScope`, refinement of `WriteOnceStore` |
| `QuotaReading` | the refresh thread and 2 requests, months of 3, age 2, 5 times | `ServedIsFresh`, `ReadAfreshAtReset` |
| `DeviceRuns` | 2 attempts, 3 steps where records hold 2, a crash, at most 2 things left at a time, with and without a service | `GreenIsEarned`, `CleanupTakesItsOwn`, `LeftoversHaveACause`, `StopIsNamed` |

Why the bounds are enough: two attempts give a first attempt that can be late and a
last one that parks.  One repository with a
cap of one makes every second claim a conflict.  A lease length of one and a grace
of zero or one give every side of both deadlines.  One run suffices for the ledger
because its threads interact per run (the lock, which they share, is modelled for
all); two requests, a direct dispatch and a preview suffice for the budget because a
ceiling of one makes every second hold the one that is refused.  In `DispatchLive` a pass
reads one of two rows, so a metered row without room keeps a later free one from being read.  In `ArtifactStore` the second
archive leaves no room for the first, so a put evicts; in `CacheStore` a content is shared
across repositories, another fills a quota alone, and with the third an entry can be stored
again with something else while its old file is kept by another; in `QuotaReading` a month ends within
the age of a reading and within a read; in `DeviceRuns` the records are short by one step and
the costs are on both sides of the budget, and two things that stay at a time are a container
and the network or the workspace it stays with.  `CheckPublishers` has as many threads
as two checks take.

Symmetry is used where threads or attempts have no name in the specification
(`CheckPublishers`, `CacheStore` for the two runs of one key, `QuotaReading`, `DeviceRuns`);
none of these runs checks liveness.

Deadlock is checked in the queue and the ledger.  The other modules may stop when their
runs are over and the bounds are used up, so it is not checked there.

### Where the code and its documentation disagree

The run `LedgerLateQueued` states what the repository's README says, that a run's result is
on its commit, and TLC finds the behaviour that breaks it: "queued" is posted outside the
lock, lands after the verdict and stays.  The run `LedgerUnpublished` states what
`docs/direct-execution.md:345` says, that a status that cannot be published stays owed: a
report's post that raises what is not a `GitHubAPIError` breaks it with no crash
(`jobapi.py:293`).  `PROJECT.json` quotes both lines.

The models show more of them, which have no run of their own:

* a late report of a lapsed attempt settles the retry when another slot of the same
  device holds it: a row knows its device, not its attempt (`agent.py:327`: "the server
  will reject a report anyway");
* a verdict taken out of its row is lost by a crash before the post, or when it cannot be
  put back after one
  (`docs/direct-execution.md:345`: it "stays owed");
* `/v1/route` keeps the hold of its decision, so previews use up the month
  (`policy.py:283`); `NoHoldStranded` therefore counts them;
* a request that holds, and chose the hosted lane, sends a row that another request
  registered as local, and the month keeps paying: `webhook_dispatch.py:366` gives back the
  capacity reservation only, although `delivery_spend.py:42` has it that "a hold for a free
  dispatch would spend the budget of a lane nobody is paying for";
* a push runs on a device and on GitHub when the adapter appears between two deliveries
  of it (`refusal.py:23`), since a push without an adapter leaves no row (`AdapterMissing`);
* a request that decided on a local lane, and holds nothing, sends a row that another
  request registered as hosted (`service.py:277`: a run "has to be counted");
* a verdict whose check run was refused, or whose answer was lost, is posted again
  (`status_ledger.py:40` says "exactly once");
* a device error is worded from the row read before the lock (`ReportReads`, `rseen`), so a
  run parked since then is told it is retried;
* a 403 or 429 becomes `uncertain`, which nothing retries (`delivery_dispatch.py:48` says
  "retryable");
* metered rows that wait for room stay the oldest, so enough of them keep a free row from
  ever being read by a pass (`Crowded`, which `FreeLaneIsReplayed` has to except);
* a pull request whose pending status raises keeps its hold for a dispatch that was never
  sent, and so does a release that fails (`budget.py:176`: "a dispatch GitHub refused was
  never charged");
* those of the newer modules, in section 2.

### Fairness

`JobQueue`: time passes, the reclaim timer runs, a slot keeps polling, an executor
ends within its job's timeout, a report on the wire is delivered or lost.  Nothing is
assumed of devices renewing, announcing themselves, staying up or getting a reply.
`VerdictLedger`: the timer keeps ticking and a request once started is served; that
posts are refused only `MaxRefusals` times is the environment's part.
`PushDispatch`: the replay loop runs and a request once received is worked on;
`ReadyIsReplayed` promises nothing for a row the month has no room for, and
`FreeLaneIsReplayed` nothing for a row that is crowded out for good.
The two timers are daemon threads whose loops catch every exception, and every
network call has a timeout, which is what justifies these.  The newer modules state safety only: their specifications
assume no fairness.

## 4. Proofs

TLAPS checks these for every value of the constants that satisfies the named assumptions
(`ConstantsAssumption`, `LedgerAssumption`, `DispatchAssumption`, `ArtifactAssumption`,
`CheckAssumption`, `SummaryAssumption`, `CacheAssumption`, `QuotaAssumption`,
`ExecutionAssumption`).  They say that sets are what they are, limits are numbers, and
`None` is none of the values it stands beside.  Three say more: the runs of `JobQueue` and
`Artifacts` and the entries of `Cache` are finitely many, since the models count them; what
a store holds before the model starts fits its quotas; and a read of the quota takes no
longer than a reading may be old (`ReadTime <= MaxAge`: three requests of ten seconds
against a minute or more).

* `JobQueueProofs`.  The inductive invariant `Inv` joins types, `LeaseIsAuthority`,
  `AttemptsSpent` and `AgentKnowsItsAttempt` (an attempt on a slot or on the wire has
  been started).  The parts need each other: a release turns a running run into a
  pending one, and only `attempts >= 1` of running runs and the cap test together give
  the cap.  From it follow `TypeOK`, `AttemptsSpent`, the repository cap (a step adds at most
  one running run, and only below the cap), the refinement of `RunLifecycle`, and the
  action properties `LateHolderKeepsRun` and `ForeignAttemptRefused`.
  `EveryAttemptAccounted` counts attempts as pairs of run and number, so that a claim adds
  one pair and a report or a release moves one run between the counts; no sum is needed.
* `VerdictLedgerProofs`.  `LInv` joins types, `PostsUnderLock`, that no number in hand
  is ahead of its row, and that a verdict owed or in hand under the row's own number
  agrees with a settled row.  It yields `TypeOK`, `PostsUnderLock`,
  `SettledRunsToldTheirVerdict` and `PostedInOrder`.  `NoVerdictLost` is inductive beside it: a
  crash, a report that raises and a drain that cannot put back mark the very verdict they
  lose (`dropped`), and a later one is accounted for again.  The ledger implements `RunLifecycle` as well.
* `PushDispatchProofs`.  `DInv` joins `ClaimIsExclusive` with what a thread's place
  says of its row: nothing was sent before the claim, a refusal started no run, and one
  thread at most hands a push over, which is then queued once (`QueuedOnce`).  It yields
  `OneAttempt` and `ClaimIsExclusive` for any number of requests, redeliveries and restarts.
  `OInv` adds that a push delivered once is decided by one request, which diverts it or
  registers it and not both; with `DInv` that is `HandedOverOnce`.  `RInv` is about
  the money and the hand-over: a row of the metered ledger is in the hands of a thread that
  has yet to account for it, or one of at most as many as there were dispatches at risk,
  previews and holds that stayed (`Charged`).  It needs the ledger to be finite, since an id is one more than the greatest, and
  it holds although an id may be given back twice, and given out again in between.  It yields
  `NoHoldStranded` and `RefusedIsHandedOver`.  `RestTypes` has what is missing for `TypeOK`,
  and that a thread at work has a delivery.
* `QuotaProofs`.  `QInv` says how old a reading can be while a request reads for itself:
  the reading it found was within its age, and one stored since was taken within a read.
  The second look tests no age, so `ServedIsFresh` rests on these two facts and on
  `ReadTime <= MaxAge`.  `ReadAfreshAtReset` follows from what a thread that reads has
  stored (`OwnIsStored`).
* `CheckRunsProofs`.  `CInv` joins types, `RowIsSound`, `RecordsAgree` (a record with a
  conclusion is the row itself, since a settled row does not change), `HeldIsAnswered`, and,
  for publishers that never overlapped, `OneByOne` (one at a time, which opens a check only
  where GitHub has none) and `SettledIsTold` (they publish the settled row or owe it, unless
  a report raised).  It
  yields `ClosedOnItsVerdict`, `SettledCheckCloses`, `OneCheckPerRun` and the action
  property `ReopenedOnlyUnseen`.
* `ExecutionProofs`.  `EInv` joins types, `NetworkGuards` (creating the network is what
  lets an attempt in, and a service that is remembered is the attempt's own),
  `MadeIsRemembered` (for each thing apart: what has the job's name is in `left`, or some
  attempt has yet to remove it), `AloneInItsCheckout` and `CodeIsEarned`.  It
  yields `GreenIsEarned`, `LeftoversHaveACause` and the action property
  `CleanupTakesItsOwn`.  `RecInv` adds `RecordsAreTrue`: steps are announced by their number,
  and of an attempt that met no other the log is what its script printed, until the records
  are made of it.  `StopIsNamed` then rests on what the operators of `Steps` and `CheckSummary`
  do to any log: all marks of such a log count (`BoundariesOf`); a prefix fits whose charge
  does, and the device keeps the last step beside the longest one (`FittingOf`,
  `WithinBudgetOf`); what it sends is within the broker's bounds, which therefore take
  nothing more (`EncodeKeeps`); and rows shown and steps said to be missing add up.
* `ArtifactsProofs`.  `AInv` joins types, `QueueIsSound` (an attempt whose discard is
  outstanding neither holds the run nor settled it), `RowsArePublished`, `PublishedStands`
  (an archive stands from its commit on, not only from its 201), `RowIsAccountedFor` (a
  row that nobody is about to recheck or drop is of the device that has the run or settled
  it, or a discard is to come), `NeverAnothersBytes` (a row whose
  time is not up has its own bytes or none) and `FilesHaveRows`.  It yields
  `AckedArchiveStands` and `VerdictOwnsArchive`, and the refinement of `WriteOnceStore`:
  every step leaves a run with what is served, or with nothing (`Wanes`), but for one put
  where nothing is (`Fills`).  With `RowsFit` it
  yields `DiskIsAccounted`: bytes are counted as pairs of archive and position, so fewer
  rows have no more bytes; every step but a put that commits only takes rows away, and a
  put evicts until both quotas fit, which ends because the empty set does.
* `CacheProofs`.  `SInv` joins types, `NothingAhead` (no row and no request is of the
  future, so that of any rows one was used last), `TakenFromScope`, `SentIsBuilt`,
  `AdmittedAsHeld` (a download in hand is of the content its entry held when it was admitted),
  `FilesMatchRows` and `RestoredFromScope`, and yields the last two.
  `QuotasHold` is proved as in `ArtifactsProofs`, over contents, which rows share, and so is
  the refinement of `WriteOnceStore`; that a row expired when an upload began is expired
  when it commits is where `NothingAhead` is needed.

Every invariant and action property of the passing runs is proved, and so are the four
refinements.  Liveness (`EveryRunSettles`, `OwedIsPosted`, `FreeLaneIsReplayed`,
`ReadyIsReplayed`) is outside this prover's reach, like ENABLED, and stays with TLC.  Where a
proof would go by induction over a log or a set of rows, it goes through a least or a greatest
number with the property instead (`LeastOf`, `GreatestOf`, from the well-foundedness of the
naturals).  No module that is proved about uses a RECURSIVE operator.

## 5. Not modelled, and the plan

Left out for good: onboarding, command line, MCP server and panel (clients without shared
state), parsing and signature checks, the wording, bounds and redaction of text, resource
limits and the runner that calls `act` (one subprocess).  The installation token
(`app_auth.py`) is minted and cached under one lock that every caller holds throughout, so
there is no order of events to explore.

Planned, in this order:

1. Capacity reservations (`dispatch_capacity.py`) beside the dispatch decision, and the
   pool view's two counts of a device's load.
2. Pure algorithms with a reference: job conditions, triggers.
