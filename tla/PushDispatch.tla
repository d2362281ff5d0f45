---------------------------- MODULE PushDispatch ----------------------------
(***************************************************************************)
(* How a push becomes a GitHub workflow dispatch, or a device run when     *)
(* GitHub refuses it (webhook_dispatch.py, delivery_dispatch.py,           *)
(* deliveries.py, refusal.py), and what a metered dispatch costs           *)
(* (budget.py, metering.py, delivery_spend.py, the callers in service.py   *)
(* and pull_request_dispatch.py).                                          *)
(*                                                                         *)
(* The delivery ledger and the metered ledger are tables; everything else  *)
(* is in the hands of threads: one per webhook request, the replay loop,   *)
(* and one per direct dispatch.  A thread keeps the row it read and the    *)
(* hold it took in local variables, and uses them after others moved on.   *)
(***************************************************************************)
EXTENDS Integers, Sequences, FiniteSets

CONSTANTS
  Deliveries,      \* signed pushes to a default branch
  AutoLane,        \* those whose repository asks for the "auto" lane, not "hosted"
  DeviceOK,        \* those whose repository the policy serves on a device
  Handlers,        \* webhook requests
  Replay,          \* the replay loop
  Callers,         \* pull request events and /v1/dispatch requests
  Ceiling,         \* dispatches the month's budget admits
  Limit,           \* rows one replay pass reads (30 in the code)
  MaxSends,        \* bound: times GitHub sends one delivery
  MaxCalls, MaxPreviews, MaxMonths, MaxFaults, MaxCrashes,   \* bounds
  None

Threads == Handlers \cup {Replay}

ASSUME DispatchAssumption ==
  /\ AutoLane \subseteq Deliveries /\ DeviceOK \subseteq Deliveries
  /\ Replay \notin Handlers /\ Callers \cap Threads = {}
  /\ Ceiling \in Nat /\ Limit \in Nat \ {0}
  /\ {MaxSends, MaxCalls, MaxPreviews, MaxMonths, MaxFaults, MaxCrashes} \subseteq Nat
  /\ None \notin Deliveries /\ None \notin Nat

Terminal == {"accepted", "rejected", "uncertain"}    \* TERMINAL_STATES
Answers  == {"accepted", "refused", "throttled", "broken", "unknown"}

VARIABLES
  \* webhook_deliveries: state, recorded lane, and the rows in order of creation
  state, rowlane, order,
  \* metered_dispatches: the ids of its rows, and those of this month; how often a hold
  \* was left there that should have gone (observation only)
  holds, month, unreleased,
  \* the policy of the running process: the deliveries it may dispatch
  permitted,
  \* the threads
  pc, rec, hold, fresh, lane, todo,
  \* observation only.  Per delivery: dispatches sent, runs GitHub started, hand-overs to
  \* the device pool after a refusal, and for want of an adapter; dispatches sent with a
  \* hold, not refused outright
  asked, runs, queued, diverted, atRisk,
  sends, calls, previews, months, faults, crashes

ledger   == <<state, rowlane, order>>
metered  == <<holds, month, unreleased>>
threads  == <<pc, rec, hold, fresh, lane, todo>>
observed == <<asked, runs, queued, diverted, atRisk>>
bounds   == <<sends, calls, previews, months, faults, crashes>>
vars     == <<ledger, metered, permitted, threads, observed, bounds>>

Init ==
  /\ state = [d \in Deliveries |-> "absent"] /\ rowlane = [d \in Deliveries |-> None]
  /\ order = <<>>
  /\ holds = {} /\ month = {} /\ unreleased = 0
  /\ permitted = Deliveries
  /\ pc = [w \in Threads \cup Callers |-> "idle"]
  /\ rec = [w \in Threads |-> None] /\ hold = [w \in Threads \cup Callers |-> None]
  /\ fresh = [w \in Threads |-> FALSE] /\ lane = [w \in Threads |-> None]
  /\ todo = {}
  /\ asked = [d \in Deliveries |-> 0] /\ runs = [d \in Deliveries |-> 0]
  /\ queued = [d \in Deliveries |-> 0] /\ diverted = [d \in Deliveries |-> 0]
  /\ atRisk = 0
  /\ sends = [d \in Deliveries |-> 0]
  /\ calls = 0 /\ previews = 0 /\ months = 0 /\ faults = 0 /\ crashes = 0

-----------------------------------------------------------------------------
(* The metered ledger *)

\* reserve_metered: the count and the insert are one step, under budget_lock.
room == Cardinality(month) < Ceiling

\* SQLite gives a new row the largest id plus one, a deleted id included.
next_id == IF holds = {} THEN 1 ELSE 1 + (CHOOSE n \in holds : \A m \in holds : m <= n)

reserve == holds' = holds \cup {next_id} /\ month' = month \cup {next_id} /\ UNCHANGED unreleased

\* Mutant: the month goes on counting a hold that was given back.
given_back_keeps_month(id) == holds' = holds \ {id} /\ UNCHANGED <<month, unreleased>>

\* MeteredLedger.release deletes the row, if it is there.
given_back(id) == holds' = holds \ {id} /\ month' = month \ {id} /\ UNCHANGED unreleased

\* The ledger cannot be written, or is not asked to: the hold stays.
stays(id) ==
  /\ unreleased < MaxFaults
  /\ unreleased' = IF id \in holds THEN unreleased + 1 ELSE unreleased
  /\ UNCHANGED <<holds, month>>

\* release_reservation and _release swallow the ledger's error.
release(id) == given_back(id) \/ stays(id)

\* A dispatch on the wire.  A 4xx or a failed connection says no run started; a 403 or
\* 429 too, for now; after a 5xx or a lost answer a run may exist.
started(o) == IF o = "accepted" THEN {1} ELSE IF o \in {"broken", "unknown"} THEN {0, 1} ELSE {0}
definite(o) == o \in {"refused", "throttled"}

-----------------------------------------------------------------------------
(* A webhook request *)

finished(w) ==
  /\ pc' = [pc EXCEPT ![w] = "idle"] /\ rec' = [rec EXCEPT ![w] = None]
  /\ hold' = [hold EXCEPT ![w] = None] /\ fresh' = [fresh EXCEPT ![w] = FALSE]
  /\ lane' = [lane EXCEPT ![w] = None]

goes(w, to) == pc' = [pc EXCEPT ![w] = to] /\ UNCHANGED <<rec, hold, fresh, lane>>

\* Mutant: a refused push is answered, and not handed over.
refused_to_nobody(w) == finished(w)

\* A refused push goes to the device pool, if the policy serves it there.
refused_to(w) == IF rec[w] \in DeviceOK THEN goes(w, "handing") ELSE finished(w)

\* _dispatch_push reads the row once: no row is a push to decide on, a ready row a
\* push to send, and any other row is answered from.
Receive(h, d) ==
  /\ pc[h] = "idle" /\ sends[d] < MaxSends /\ d \in permitted
  /\ sends' = [sends EXCEPT ![d] = @ + 1]
  /\ IF state[d] \in {"absent", "ready"}
     THEN /\ pc' = [pc EXCEPT ![h] = "looking"] /\ rec' = [rec EXCEPT ![h] = d]
          /\ fresh' = [fresh EXCEPT ![h] = state[d] = "absent"]
          /\ UNCHANGED <<hold, lane>>
     ELSE UNCHANGED <<pc, rec, hold, fresh, lane>>
  /\ UNCHANGED <<ledger, metered, permitted, todo, observed, calls, previews, months, faults,
                 crashes>>

\* The replay loop reads the oldest ready rows, and takes them one by one.  The policy
\* is asked again first: it may have changed with the last restart.
\* Mutant: only rows of a lane that costs nothing are read.
Ready_free == {i \in DOMAIN order : state[order[i]] = "ready" /\ rowlane[order[i]] = "local"}

\* The rows that are ready, by their place in the order of creation.
Ready == {i \in DOMAIN order : state[order[i]] = "ready"}

\* The oldest n of them.
oldest(n) == {i \in Ready : Cardinality({k \in Ready : k < i}) < n}

StartPass ==
  /\ pc[Replay] = "idle" /\ todo = {} /\ Ready # {}
  /\ todo' = oldest(Limit)
  /\ UNCHANGED <<ledger, metered, permitted, pc, rec, hold, fresh, lane, observed, bounds>>

NextRecord ==
  LET i == CHOOSE i \in todo : \A k \in todo : i <= k
      d == order[i]
      rejects == d \notin permitted /\ state[d] = "ready"
      drops   == d \notin permitted /\ (state[d] # "ready" \/ d \notin DeviceOK)
  IN
  /\ pc[Replay] = "idle" /\ todo # {}
  /\ todo' = todo \ {i}
  /\ state' = [state EXCEPT ![d] = IF rejects THEN "rejected" ELSE @]
  /\ pc' = [pc EXCEPT ![Replay] = IF d \in permitted THEN "looking"
                                  ELSE IF drops THEN "idle" ELSE "handing"]
  /\ rec' = [rec EXCEPT ![Replay] = IF drops THEN None ELSE d]
  /\ UNCHANGED <<rowlane, order, metered, permitted, hold, fresh, lane, observed, bounds>>

\* workflow_exists fails: a row stays as it is.
LookupFails(w) ==
  /\ pc[w] = "looking" /\ faults < MaxFaults
  /\ faults' = faults + 1
  /\ finished(w)
  /\ UNCHANGED <<ledger, metered, permitted, todo, observed, sends, calls, previews, months,
                 crashes>>

\* workflow_exists answers 404.  A new push leaves no row; a ready row is rejected by
\* whoever gets there first.  A request that comes second goes on to the dispatch.
AdapterMissing(w) ==
  /\ pc[w] = "looking"
  /\ IF fresh[w]
     THEN /\ UNCHANGED state
          /\ IF rec[w] \in DeviceOK THEN goes(w, "diverting") ELSE finished(w)
     ELSE IF state[rec[w]] = "ready"
     THEN state' = [state EXCEPT ![rec[w]] = "rejected"] /\ refused_to(w)
     ELSE UNCHANGED state /\ IF w = Replay THEN finished(w) ELSE goes(w, "holding")
  /\ UNCHANGED <<rowlane, order, metered, permitted, todo, observed, bounds>>

\* The push is queued on a device because GitHub has no adapter for it; this ledger keeps
\* nothing of it.
Divert(w) ==
  /\ pc[w] = "diverting"
  /\ diverted' = [diverted EXCEPT ![rec[w]] = @ + 1]
  /\ finished(w)
  /\ UNCHANGED <<ledger, metered, permitted, todo, asked, runs, queued, atRisk, bounds>>

\* Mutant: a recorded push is held for, whatever its lane costs.
pays_any(w) == TRUE

\* reserve_for: a recorded push is held for if its lane is metered, a new one always.
pays(w) == fresh[w] \/ rowlane[rec[w]] = "hosted"

\* The adapter is there.  A new push is held for before its lane is chosen; a recorded
\* push waits in the ledger if it has to be held for and there is no room.
TakeHold(w) ==
  /\ pc[w] \in {"looking", "holding"}
  /\ IF pays(w) /\ room
     THEN /\ reserve
          /\ hold' = [hold EXCEPT ![w] = next_id]
          /\ pc' = [pc EXCEPT ![w] = IF fresh[w] THEN "choosing" ELSE "claiming"]
          /\ UNCHANGED <<rec, fresh, lane>>
     ELSE /\ UNCHANGED metered
          /\ IF fresh[w] THEN goes(w, "choosing")
             ELSE IF pays(w) THEN finished(w) ELSE goes(w, "claiming")
  /\ UNCHANGED <<ledger, permitted, todo, observed, bounds>>

\* _choose: the hold stays with a hosted decision and goes back with any other; without
\* a hold the push goes to a local lane, or there is none and the request is refused.  A
\* ledger that cannot be written here ends the request: release_hold catches nothing.
ChooseHosted(h) ==
  /\ pc[h] = "choosing" /\ hold[h] # None
  /\ pc' = [pc EXCEPT ![h] = "registering"] /\ lane' = [lane EXCEPT ![h] = "hosted"]
  /\ UNCHANGED <<ledger, metered, permitted, rec, hold, fresh, todo, observed, bounds>>

ChooseLocal(h, found) ==
  /\ pc[h] = "choosing" /\ (hold[h] = None \/ rec[h] \in AutoLane)
  /\ \/ /\ given_back(hold[h]) /\ found
        /\ pc' = [pc EXCEPT ![h] = "registering"] /\ lane' = [lane EXCEPT ![h] = "local"]
        /\ hold' = [hold EXCEPT ![h] = None] /\ UNCHANGED <<rec, fresh>>
     \/ given_back(hold[h]) /\ ~found /\ finished(h)
     \/ hold[h] # None /\ stays(hold[h]) /\ finished(h)
  /\ UNCHANGED <<ledger, permitted, todo, observed, bounds>>

\* INSERT OR IGNORE: the row, and the lane in it, may be another request's.
Register(h) ==
  LET d == rec[h]
      new == state[d] = "absent"
  IN
  /\ pc[h] = "registering"
  /\ state' = [state EXCEPT ![d] = IF new THEN "ready" ELSE @]
  /\ rowlane' = [rowlane EXCEPT ![d] = IF new THEN lane[h] ELSE @]
  /\ order' = IF new THEN Append(order, d) ELSE order
  /\ goes(h, "claiming")
  /\ UNCHANGED <<metered, permitted, todo, observed, bounds>>

-----------------------------------------------------------------------------
(* dispatch_record *)

\* Mutant: the claim does not look at the state, and a lost claim keeps its hold.
Claim_any(w) ==
  /\ pc[w] = "claiming"
  /\ state' = [state EXCEPT ![rec[w]] = "attempting"] /\ goes(w, "sending")
  /\ UNCHANGED <<rowlane, order, metered, permitted, todo, observed, bounds>>

Claim_keeps_hold(w) ==
  LET won == state[rec[w]] = "ready" IN
  /\ pc[w] = "claiming"
  /\ state' = [state EXCEPT ![rec[w]] = IF won THEN "attempting" ELSE @]
  /\ goes(w, IF won THEN "sending" ELSE "lost")
  /\ UNCHANGED <<rowlane, order, metered, permitted, todo, observed, bounds>>

\* The claim wins the row, or the hold goes back.
Claim(w) ==
  LET d == rec[w] IN
  /\ pc[w] = "claiming"
  /\ IF state[d] = "ready"
     THEN state' = [state EXCEPT ![d] = "attempting"] /\ goes(w, "sending") /\ UNCHANGED metered
     ELSE UNCHANGED state /\ goes(w, "lost") /\ release(hold[w])
  /\ UNCHANGED <<rowlane, order, permitted, todo, observed, bounds>>

\* The ledger cannot be read or written before anything was sent.
StoreFails(w) ==
  /\ pc[w] \in {"registering", "claiming"} /\ faults < MaxFaults
  /\ faults' = faults + 1
  /\ release(hold[w])
  /\ finished(w)
  /\ UNCHANGED <<ledger, permitted, todo, observed, sends, calls, previews, months, crashes>>

\* The claim was lost to somebody whose attempt is over: "duplicate", and a request
\* that decided the lane itself gives its hold back once more.
AnswerDuplicate(w) ==
  /\ pc[w] = "lost"
  /\ IF fresh[w] /\ state[rec[w]] \in Terminal THEN release(hold[w]) ELSE UNCHANGED metered
  /\ finished(w)
  /\ UNCHANGED <<ledger, permitted, todo, observed, bounds>>

\* The dispatch; a refusal outright gives the hold back, a 403 or 429 keeps it.
Send(w, o) ==
  LET d == rec[w] IN
  /\ pc[w] = "sending"
  /\ \E n \in started(o) : runs' = [runs EXCEPT ![d] = @ + n]
  /\ asked' = [asked EXCEPT ![d] = @ + 1]
  /\ atRisk' = IF hold[w] # None /\ o # "refused" THEN atRisk + 1 ELSE atRisk
  /\ IF o = "refused" THEN release(hold[w]) ELSE UNCHANGED metered
  /\ goes(w, o)
  /\ UNCHANGED <<ledger, permitted, todo, queued, diverted, bounds>>

\* Mutant: every answer but a success counts as a refusal.
result_refused(o) == IF o = "accepted" THEN o ELSE "rejected"

result(o) == CASE o = "accepted" -> "accepted"
               [] o = "refused"  -> "rejected"
               [] OTHER          -> "uncertain"

\* The result is recorded, or cannot be and the row stays at "attempting".
Finish(w, o, written) ==
  /\ pc[w] = o
  /\ written \/ faults < MaxFaults
  /\ faults' = IF written THEN faults ELSE faults + 1
  /\ state' = IF written THEN [state EXCEPT ![rec[w]] = result(o)] ELSE state
  /\ IF written /\ result(o) = "rejected" THEN refused_to(w) ELSE finished(w)
  /\ UNCHANGED <<rowlane, order, metered, permitted, todo, observed, sends, calls, previews,
                 months, crashes>>

\* The device pool takes a refused push, or cannot: the replay loop then gives the
\* hold of that push back, whether or not it went back before.
HandOff(w, taken) ==
  /\ pc[w] = "handing"
  /\ taken \/ faults < MaxFaults
  /\ faults' = IF taken THEN faults ELSE faults + 1
  /\ queued' = IF taken THEN [queued EXCEPT ![rec[w]] = @ + 1] ELSE queued
  /\ IF ~taken /\ w = Replay THEN release(hold[w]) ELSE UNCHANGED metered
  /\ finished(w)
  /\ UNCHANGED <<ledger, permitted, todo, asked, runs, diverted, atRisk, sends,
                 calls, previews, months, crashes>>

-----------------------------------------------------------------------------
(* Dispatches without a ledger row: pull requests and /v1/dispatch *)

Call(c) ==
  /\ pc[c] = "idle" /\ calls < MaxCalls /\ room
  /\ calls' = calls + 1
  /\ reserve
  /\ hold' = [hold EXCEPT ![c] = next_id]
  /\ pc' = [pc EXCEPT ![c] = "calling"]
  /\ UNCHANGED <<ledger, permitted, rec, fresh, lane, todo, observed, sends, previews, months,
                 faults, crashes>>

\* A pull request gives the hold back on any answer that is not a success, a
\* /v1/dispatch request on a definite one; both keep it when the answer is lost.
gives_back(pull, o) == IF pull THEN o \in {"refused", "throttled", "broken"} ELSE definite(o)

CallSends(c, pull, o) ==
  /\ pc[c] = "calling"
  /\ atRisk' = IF definite(o) THEN atRisk ELSE atRisk + 1
  /\ IF gives_back(pull, o) THEN release(hold[c]) ELSE UNCHANGED metered
  /\ hold' = [hold EXCEPT ![c] = None]
  /\ pc' = [pc EXCEPT ![c] = "idle"]
  /\ UNCHANGED <<ledger, permitted, rec, fresh, lane, todo, asked, runs, queued, diverted,
                 bounds>>

\* The decision is not the hosted lane: the hold goes back.
CallElsewhere(c) ==
  /\ pc[c] = "calling"
  /\ release(hold[c])
  /\ hold' = [hold EXCEPT ![c] = None]
  /\ pc' = [pc EXCEPT ![c] = "idle"]
  /\ UNCHANGED <<ledger, permitted, rec, fresh, lane, todo, observed, bounds>>

\* The pending status of a pull request is posted between the hold and the dispatch, and
\* its post raises what is not a GitHubAPIError: nothing is sent, and the hold stays.
CallRaises(c) ==
  /\ pc[c] = "calling"
  /\ stays(hold[c])
  /\ hold' = [hold EXCEPT ![c] = None]
  /\ pc' = [pc EXCEPT ![c] = "idle"]
  /\ UNCHANGED <<ledger, permitted, rec, fresh, lane, todo, observed, bounds>>

\* /v1/route previews a decision, hold and all.
Preview ==
  /\ previews < MaxPreviews /\ room
  /\ previews' = previews + 1
  /\ reserve
  /\ UNCHANGED <<ledger, permitted, threads, observed, sends, calls, months, faults, crashes>>

-----------------------------------------------------------------------------
MonthTurns ==
  /\ months < MaxMonths
  /\ months' = months + 1
  /\ month' = {}
  /\ UNCHANGED <<ledger, holds, unreleased, permitted, threads, observed, sends, calls, previews, faults,
                 crashes>>

\* Mutant: what was being attempted is attempted again.
recover_retries(s) == IF s = "attempting" THEN "ready" ELSE s

\* DeliveryStore.recover: what was being attempted may have started a run.
recover(s) == IF s = "attempting" THEN "uncertain" ELSE s

\* The process dies; the next one calls what was being attempted uncertain (recover),
\* and may have been given another policy.
Restart ==
  /\ crashes < MaxCrashes
  /\ crashes' = crashes + 1
  /\ state' = [d \in Deliveries |-> recover(state[d])]
  /\ \E allowed \in {Deliveries, {}} : permitted' = allowed
  /\ pc' = [w \in Threads \cup Callers |-> "idle"]
  /\ rec' = [w \in Threads |-> None] /\ hold' = [w \in Threads \cup Callers |-> None]
  /\ fresh' = [w \in Threads |-> FALSE] /\ lane' = [w \in Threads |-> None]
  /\ todo' = {}
  /\ UNCHANGED <<rowlane, order, metered, observed, sends, calls, previews, months, faults>>

ThreadStep(w) ==
  \/ AdapterMissing(w) \/ LookupFails(w) \/ Divert(w) \/ TakeHold(w)
  \/ Claim(w) \/ StoreFails(w) \/ AnswerDuplicate(w)
  \/ \E o \in Answers : Send(w, o) \/ Finish(w, o, TRUE) \/ Finish(w, o, FALSE)
  \/ HandOff(w, TRUE) \/ HandOff(w, FALSE)

HandlerStep(h) ==
  \/ ThreadStep(h) \/ Register(h)
  \/ ChooseHosted(h) \/ ChooseLocal(h, TRUE) \/ ChooseLocal(h, FALSE)

ReplayStep == StartPass \/ NextRecord \/ ThreadStep(Replay)

Next ==
  \/ \E h \in Handlers : HandlerStep(h) \/ \E d \in Deliveries : Receive(h, d)
  \/ ReplayStep
  \/ \E c \in Callers : \/ Call(c) \/ CallElsewhere(c) \/ CallRaises(c)
                       \/ \E pull \in BOOLEAN, o \in Answers : CallSends(c, pull, o)
  \/ Preview \/ MonthTurns \/ Restart

Spec == Init /\ [][Next]_vars

\* A request that was received is worked on to its end, and the replay loop runs.  How
\* GitHub answers, and that the store fails at most MaxFaults times, is not assumed.
Fairness == WF_vars(ReplayStep) /\ \A h \in Handlers : WF_vars(HandlerStep(h))

FairSpec == Spec /\ Fairness

-----------------------------------------------------------------------------
(* What is promised *)

TypeOK ==
  /\ state \in [Deliveries -> {"absent", "ready", "attempting"} \cup Terminal]
  /\ rowlane \in [Deliveries -> {"hosted", "local", None}] /\ order \in Seq(Deliveries)
  /\ holds \subseteq Nat /\ month \subseteq holds /\ permitted \subseteq Deliveries
  /\ pc \in [Threads \cup Callers ->
               {"idle", "looking", "diverting", "holding", "choosing", "registering",
                "claiming", "lost", "sending", "handing", "calling"} \cup Answers]
  /\ rec \in [Threads -> Deliveries \cup {None}]
  /\ hold \in [Threads \cup Callers -> Nat \cup {None}]
  /\ fresh \in [Threads -> BOOLEAN] /\ lane \in [Threads -> {"hosted", "local", None}]
  /\ todo \subseteq DOMAIN order
  /\ asked \in [Deliveries -> Nat] /\ runs \in [Deliveries -> Nat] /\ queued \in [Deliveries -> Nat]
  /\ diverted \in [Deliveries -> Nat] /\ atRisk \in Nat /\ unreleased \in Nat
  /\ sends \in [Deliveries -> Nat]
  /\ {calls, previews, months, faults, crashes} \subseteq Nat

\* The work a delivery has been given away with: nobody else will do it.
Sending(w, d) == rec[w] = d /\ pc[w] \in {"sending"} \cup Answers

\* "One automatic GitHub dispatch attempt per repository and delivery ID"
\* (deliveries.py:44): requests, redeliveries, the replay loop and restarts together
\* send a delivery to GitHub at most once.
OneAttempt == \A d \in Deliveries : asked[d] <= 1

\* The claim is what makes it so: one thread has the attempt, the row says so, and a
\* row that moved past "ready" never comes back to it.
ClaimIsExclusive ==
  /\ \A v, w \in Threads, d \in Deliveries : Sending(v, d) /\ Sending(w, d) => v = w
  /\ \A w \in Threads, d \in Deliveries : Sending(w, d) => state[d] = "attempting"
  /\ \A d \in Deliveries : asked[d] > 0 => state[d] \notin {"absent", "ready"}

\* A push GitHub may be running is never handed to a device because GitHub refused it, and
\* a refused one is handed over once (refusal.py, should_fallback), whoever hands over and
\* however many requests carried the push.  A push queued on a device for want of an adapter
\* leaves no row, so it reaches the other lane as well, but only if GitHub sends it again.
HandedOverOnce ==
  \A d \in Deliveries :
    /\ queued[d] > 0 => queued[d] = 1 /\ runs[d] = 0 /\ state[d] = "rejected"
    /\ diverted[d] > 0 /\ (queued[d] > 0 \/ runs[d] > 0) => sends[d] > 1

\* A refused push that a device may run is queued there or about to be, until the
\* process or the queue fails under it.
RefusedIsHandedOver ==
  \A d \in DeviceOK : state[d] = "rejected" =>
    \/ queued[d] > 0
    \/ \E w \in Threads : rec[w] = d /\ pc[w] = "handing"
    \/ crashes + faults > 0

Idle == \A w \in Threads \cup Callers : pc[w] = "idle"

\* No more is charged than was spent: with nobody at work the metered ledger holds at most
\* the dispatches sent with a hold that GitHub did not refuse outright, the previews, and
\* the holds a failed release or a failed status post left behind (budget.py:176, "a
\* dispatch GitHub refused was never charged").  A restart leaves more.  It may hold less:
\* an id given back twice can be another dispatch's by then.
NoHoldStranded ==
  Idle /\ crashes = 0 => Cardinality(holds) <= atRisk + previews + unreleased

\* The rows older than d fill a replay pass, and each waits for a hold there is no room for.
Crowded(d) ==
  /\ ~room
  /\ \E i \in Ready : /\ order[i] = d
                      /\ \A k \in oldest(Limit) : k < i /\ rowlane[order[k]] = "hosted"

\* A ready row of a lane that costs nothing is sent, or refused, in the end, room or no
\* room; only a month that stays full behind a pass of metered rows keeps it waiting, for
\* a pass reads the oldest rows alone (deliveries.py, ready).
FreeLaneIsReplayed ==
  \A d \in Deliveries :
    state[d] = "ready" /\ rowlane[d] = "local" ~> (state[d] # "ready" \/ []Crowded(d))

\* Every ready row is, as long as the month has room for it.
ReadyIsReplayed == \A d \in Deliveries : state[d] = "ready" ~> state[d] # "ready" \/ ~room
=============================================================================
