-------------------------------- MODULE Quota -------------------------------
(***************************************************************************)
(* The hosted quota reading (quota.py, billing.py) and the route decision  *)
(* that asks for it (policy.py).                                           *)
(*                                                                         *)
(* A refresh thread and every request that meets a new billing month read  *)
(* GitHub on their own thread, with no lock held while they read; whoever  *)
(* stores last is what the others see.  The allowance endpoint is asked    *)
(* first and names no month; the usage report is asked when it fails,      *)
(* names the month it was asked for, and states no status.                 *)
(***************************************************************************)
EXTENDS Integers

CONSTANTS
  Loop, Requests,            \* the refresh thread; route requests of private repositories
  MaxAge, MonthLength,       \* in ticks
  ReadTime,                  \* external: what a whole read can take, by its timeouts
  UnknownLane, OverageLane,  \* the policy's answers to an unknown and to a spent quota
  Reasons,                   \* how many reasons a read can fail for, worst first
  MaxNow,                    \* bound: the clock
  None

ASSUME QuotaAssumption ==
  /\ {MaxAge, MonthLength, ReadTime} \subseteq Nat \ {0} /\ {MaxNow, Reasons} \subseteq Nat
  /\ ReadTime <= MaxAge          \* three requests of ten seconds; the age is a minute or more
  /\ Loop \notin Requests /\ {UnknownLane, OverageLane} \subseteq {"hosted", "local"}

Threads == {Loop} \cup Requests

VARIABLES
  now, cache, failing,       \* clock, last good reading, reason of the last failure
  org,                       \* the organization's id is known
  listening, stopped,        \* startup's read is over; shutdown has begun
  pc, began, asked, seen,    \* a thread: step, when its read began, when its decision was
                             \* asked for and the reading it found then
  first, month, got,         \* its read: the first failure, the month asked for, the reading
  answer,                    \* the decision, until time passes or the next is asked for
  replaced                   \* observation only: another thread stored during its read

source == <<cache, failing, org>>
life   == <<listening, stopped>>
read   == <<first, month, got>>
vars   == <<now, source, life, pc, began, asked, seen, read, answer, replaced>>

Init ==
  /\ now = 0 /\ cache = None /\ failing = 0 /\ org = FALSE
  /\ listening = FALSE /\ stopped = FALSE
  /\ pc = [t \in Threads |-> IF t = Loop THEN "allowance" ELSE "idle"]
  /\ began = [t \in Threads |-> 0] /\ asked = [t \in Threads |-> 0]
  /\ seen = [t \in Threads |-> None] /\ first = [t \in Threads |-> 0]
  /\ month = [t \in Threads |-> 0] /\ got = [t \in Threads |-> None]
  /\ answer = [t \in Requests |-> None]
  /\ replaced = [t \in Threads |-> FALSE]

-----------------------------------------------------------------------------
(* What a decision makes of a reading *)

utc_month(t) == t \div MonthLength

\* A reading that names no month is judged by its age alone.
period_ok(reading, at) == reading.period \in {None, utc_month(at)}

\* Mutant: a reading is as old as the last refresh that was tried.
young_always(reading, at) == reading # None

young(reading, at) == reading # None /\ at - reading.at <= MaxAge

\* The first local lane with an eligible runner, if the request's inventory has one.
first_local == {"local", "unavailable"}

\* Whether the hosted lane is open; an allowance may be too thin for the job.
hosted_quota_available(status) ==
  CASE status = "available" -> BOOLEAN
    [] status = "exhausted" -> {OverageLane = "hosted"}
    [] status = "unknown"   -> {UnknownLane = "hosted"}

\* The lane of a private repository's request that stated no quota of its own.
choose_lane(status) ==
  UNION {IF hosted THEN {"hosted"} ELSE first_local : hosted \in hosted_quota_available(status)}

Answered(t, at, reading, why) ==
  \E lane \in choose_lane(IF reading = None THEN "unknown" ELSE reading.status) :
    answer' = [answer EXCEPT ![t] =
      [reading |-> reading, why |-> why, asked |-> at, lane |-> lane]]

-----------------------------------------------------------------------------
(* QuotaSource.current, on the request's thread *)

Starts(t) ==
  /\ pc' = [pc EXCEPT ![t] = "allowance"]
  /\ began' = [began EXCEPT ![t] = now]
  /\ replaced' = [replaced EXCEPT ![t] = FALSE]

current(t) ==
  /\ listening /\ pc[t] = "idle"
  /\ \/ /\ young(cache, now) /\ period_ok(cache, now)
        /\ Answered(t, now, cache, "served")
        /\ UNCHANGED <<pc, began, asked, seen, replaced>>
     \/ /\ young(cache, now) /\ ~period_ok(cache, now)
        /\ Starts(t) /\ seen' = [seen EXCEPT ![t] = cache]
        /\ asked' = [asked EXCEPT ![t] = now]
        /\ answer' = [answer EXCEPT ![t] = None]
     \/ /\ ~young(cache, now)
        /\ Answered(t, now, None, IF failing # 0 THEN "failing"
                                  ELSE IF cache # None THEN "stale" ELSE "no reading")
        /\ UNCHANGED <<pc, began, asked, seen, replaced>>
  /\ UNCHANGED <<now, source, life, read>>

\* Mutant: the reading taken before the read is looked at again after it.
refreshed_seen(t) == seen[t]

refreshed(t) == cache

\* The request looks again after its own read, by the month it was asked in.
serve(t) ==
  /\ pc[t] = "serve"
  /\ IF refreshed(t) # None /\ period_ok(refreshed(t), asked[t])
     THEN Answered(t, asked[t], refreshed(t), "served")
     ELSE Answered(t, asked[t], None, "new month")
  /\ pc' = [pc EXCEPT ![t] = "idle"]
  /\ began' = [began EXCEPT ![t] = 0] /\ asked' = [asked EXCEPT ![t] = 0]
  /\ seen' = [seen EXCEPT ![t] = None] /\ got' = [got EXCEPT ![t] = None]
  /\ replaced' = [replaced EXCEPT ![t] = FALSE]
  /\ UNCHANGED <<now, source, life, first, month>>

-----------------------------------------------------------------------------
(* QuotaSource.refresh and BillingClient.read, on whichever thread *)

\* Where a thread goes once its read is over; startup listens after its first.
Over(t) ==
  /\ pc' = [pc EXCEPT ![t] = IF t = Loop THEN "wait" ELSE "serve"]
  /\ listening' = (listening \/ t = Loop)
  /\ began' = IF t = Loop THEN [began EXCEPT ![t] = 0] ELSE began
  /\ first' = [first EXCEPT ![t] = 0] /\ month' = [month EXCEPT ![t] = 0]

Failed(t, reason) ==
  /\ Over(t) /\ failing' = reason
  /\ UNCHANGED <<now, cache, stopped, asked, seen, got, answer, replaced>>

Got(t, reading) ==
  /\ got' = [got EXCEPT ![t] = reading] /\ pc' = [pc EXCEPT ![t] = "store"]
  /\ UNCHANGED <<now, source, life, began, asked, seen, first, month, answer, replaced>>

\* The reasons a request to GitHub can fail for, by its status or its body.
get_json == 1..Reasons

\* The allowance is read; when it cannot be, the usage report is next.
actions_billing(t) ==
  /\ pc[t] = "allowance"
  /\ \/ \E status \in {"available", "exhausted"} :
          Got(t, [status |-> status, period |-> None, at |-> now])
     \/ /\ \E f \in get_json : first' = [first EXCEPT ![t] = f]
        /\ pc' = [pc EXCEPT ![t] = "organization"]
        /\ UNCHANGED <<now, source, life, began, asked, seen, month, got, answer,
                       replaced>>

\* Of two failures the one that says what to fix first.
worst_failure(f, g) == IF f <= g THEN f ELSE g

\* The report is addressed by the organization's id, asked for once, and by the month.
organization_id(t) ==
  /\ pc[t] = "organization"
  /\ \/ /\ org' = TRUE
        /\ month' = [month EXCEPT ![t] = utc_month(now)]
        /\ pc' = [pc EXCEPT ![t] = "report"]
        /\ UNCHANGED <<now, cache, failing, life, began, asked, seen, first, got,
                       answer, replaced>>
     \/ /\ ~org /\ org' = org
        /\ \E g \in get_json : Failed(t, worst_failure(first[t], g))

usage_report(t) ==
  /\ pc[t] = "report"
  /\ \/ Got(t, [status |-> "unknown", period |-> month[t], at |-> now])
     \/ /\ org' = org
        /\ \E g \in get_json : Failed(t, worst_failure(first[t], g))

\* The last to store wins, whenever its reading was taken.
store(t) ==
  /\ pc[t] = "store" /\ Over(t)
  /\ cache' = got[t] /\ failing' = 0
  /\ replaced' = [u \in Threads |-> replaced[u] \/ (u # t /\ u \in Requests /\ pc[u] # "idle")]
  /\ got' = IF t = Loop THEN [got EXCEPT ![t] = None] ELSE got
  /\ UNCHANGED <<now, org, stopped, asked, seen, answer>>

\* The refresh thread wakes, unless it was told to stop; a read under way is not cut.
Wake ==
  /\ pc[Loop] = "wait" /\ ~stopped /\ Starts(Loop)
  /\ UNCHANGED <<now, source, life, asked, seen, read, answer>>

stop ==
  /\ listening /\ ~stopped /\ stopped' = TRUE
  /\ UNCHANGED <<now, source, listening, pc, began, asked, seen, read, answer,
                 replaced>>

\* External: time passes, but a read ends within its timeouts.
Tick ==
  /\ now < MaxNow /\ now' = now + 1
  /\ answer' = [t \in Requests |-> None]
  /\ \A t \in Threads : pc[t] \in {"idle", "wait"} \/ now - began[t] < ReadTime
  /\ UNCHANGED <<source, life, pc, began, asked, seen, read, replaced>>

Next ==
  \/ \E t \in Requests : current(t) \/ serve(t)
  \/ \E t \in Threads :
       actions_billing(t) \/ organization_id(t) \/ usage_report(t) \/ store(t)
  \/ Wake \/ stop \/ Tick

Spec == Init /\ [][Next]_vars

-----------------------------------------------------------------------------
(* Properties *)

\* A decision rests only on a reading that was within its age when the decision was asked
\* for, and whose month, when it names one, is the month of that moment.  The second look,
\* after a request's own read, tests no age: it holds there because what is stored by then
\* was read within one read's time, by whichever thread.
ServedIsFresh ==
  \A t \in Requests : answer[t] # None /\ answer[t].reading # None =>
    /\ answer[t].asked - answer[t].reading.at <= MaxAge
    /\ period_ok(answer[t].reading, answer[t].asked)

\* A request that met a new month and whose own read brought a reading of that month is
\* not told the quota is unknown, unless another thread stored its reading meanwhile.
ReadAfreshAtReset ==
  [][\A t \in Requests :
       /\ pc[t] = "serve" /\ got[t] # None /\ ~replaced[t]
       /\ period_ok(got[t], asked[t])
       => pc'[t] = "serve" \/ answer'[t].why # "new month"]_vars
=============================================================================
