------------------------------ MODULE QuotaProofs -----------------------------
(***************************************************************************)
(* Proofs about Quota for any number of requests, any age and month, and   *)
(* any time a read can take up to that age: a decision rests on a fresh    *)
(* reading of its month, and a request that reads afresh uses what it read. *)
(***************************************************************************)
EXTENDS Quota, TLAPS

\* What the argument needs of the types: the clocks, and functions of their threads.
Clocks ==
  /\ now \in Nat /\ asked \in [Threads -> Nat] /\ began \in [Threads -> Nat]
  /\ pc = [t \in Threads |-> pc[t]] /\ got = [t \in Threads |-> got[t]]
  /\ answer = [t \in Requests |-> answer[t]] /\ replaced = [t \in Threads |-> replaced[t]]

Reading(t) == pc[t] \notin {"idle", "wait"}

\* A read is over within its time, and what it brought was taken while it went on.
ReadsAreShort ==
  \A t \in Threads : Reading(t) =>
    /\ began[t] <= now /\ now - began[t] <= ReadTime
    /\ pc[t] = "store" => got[t].at \in Nat /\ began[t] <= got[t].at /\ got[t].at <= now

\* While a request reads for itself, whatever is stored was within its age when the
\* request was asked: the reading it found was, and one stored since is younger.
StoredIsYoung ==
  /\ cache # None => cache.at \in Nat
  /\ \A t \in Requests : Reading(t) =>
       /\ asked[t] <= now
       /\ cache # None => asked[t] - cache.at <= MaxAge

\* A request holds a reading only once its read brought one, and that is what is stored
\* until another thread stores.
OwnIsStored ==
  \A t \in Requests :
    /\ pc[t] \notin {"store", "serve"} => got[t] = None
    /\ pc[t] = "serve" /\ got[t] # None /\ ~replaced[t] => cache = got[t]

\* The inductive invariant.  ServedIsFresh needs the two facts about time because the
\* second look tests no age.
QInv == Clocks /\ ReadsAreShort /\ StoredIsYoung /\ OwnIsStored /\ ServedIsFresh

USE QuotaAssumption

LEMMA InitQ == Init => QInv
<1> SUFFICES ASSUME Init PROVE QInv
  OBVIOUS
<1>1. Clocks
  BY DEF Init, Clocks
<1>2. ReadsAreShort
  BY DEF Init, ReadsAreShort, Reading
<1>3. StoredIsYoung /\ OwnIsStored
  BY DEF Init, StoredIsYoung, OwnIsStored, Reading, Threads
<1>4. ServedIsFresh
  BY DEF Init, ServedIsFresh
<1> QED BY <1>1, <1>2, <1>3, <1>4 DEF QInv

\* A step that answers nobody, or answers from a reading that passes the two tests.
LEMMA AnswerStep ==
  ASSUME QInv, Clocks, NEW t \in Requests, NEW at, NEW reading, NEW why,
         Answered(t, at, reading, why),
         reading # None => at - reading.at <= MaxAge /\ period_ok(reading, at)
  PROVE  /\ ServedIsFresh' /\ answer' = [u \in Requests |-> answer'[u]]
         /\ answer'[t].why = why
<1>1. PICK lane : answer' = [answer EXCEPT ![t] =
        [reading |-> reading, why |-> why, asked |-> at, lane |-> lane]]
  BY DEF Answered
<1>2. /\ answer'[t] = [reading |-> reading, why |-> why, asked |-> at, lane |-> lane]
      /\ \A u \in Requests \ {t} : answer'[u] = answer[u]
  BY <1>1 DEF Clocks
<1>3. answer' = [u \in Requests |-> answer'[u]]
  BY <1>1 DEF Clocks
<1>4. ASSUME NEW u \in Requests, answer'[u] # None, answer'[u].reading # None
      PROVE  /\ answer'[u].asked - answer'[u].reading.at <= MaxAge
             /\ period_ok(answer'[u].reading, answer'[u].asked)
  <2>1. CASE u = t
    BY <2>1, <1>2, <1>4
  <2>2. CASE u # t
    BY <2>2, <1>2, <1>4 DEF QInv, ServedIsFresh
  <2> QED BY <2>1, <2>2
<1>5. ServedIsFresh'
  BY <1>4 DEF ServedIsFresh, period_ok, utc_month
<1> QED BY <1>2, <1>3, <1>5

\* current
LEMMA CurrentStep == ASSUME QInv, NEW t \in Requests, current(t) PROVE QInv'
<1> USE DEF QInv
<1>1. t \in Threads /\ pc[t] = "idle" /\ UNCHANGED <<now, cache, got>>
  BY DEF current, Threads, source, read
<1>2. ASSUME Starts(t), young(cache, now), asked' = [asked EXCEPT ![t] = now],
             answer' = [answer EXCEPT ![t] = None]
      PROVE  QInv'
  <2>1. Clocks'
    BY <1>1, <1>2 DEF Starts, Clocks
  <2>2. /\ pc'[t] = "allowance" /\ began'[t] = now /\ asked'[t] = now
        /\ \A u \in Threads \ {t} : /\ pc'[u] = pc[u] /\ began'[u] = began[u]
                                    /\ asked'[u] = asked[u] /\ replaced'[u] = replaced[u]
    BY <1>1, <1>2 DEF Starts, Clocks
  <2>3. ReadsAreShort'
    BY <1>1, <2>1, <2>2 DEF ReadsAreShort, Reading, Clocks
  <2>4. StoredIsYoung'
    <3>1. cache # None => cache.at \in Nat /\ now - cache.at <= MaxAge
      BY <1>2 DEF StoredIsYoung, young
    <3>2. \A u \in Requests \ {t} : u \in Threads \ {t}
      BY DEF Threads
    <3> QED BY <1>1, <2>1, <2>2, <3>1, <3>2 DEF StoredIsYoung, Reading, Clocks
  <2>5. OwnIsStored'
    BY <1>1, <2>2 DEF OwnIsStored, Threads
  <2>6. ServedIsFresh'
    BY <1>2 DEF ServedIsFresh, Clocks
  <2> QED BY <2>1, <2>3, <2>4, <2>5, <2>6
<1>3. ASSUME UNCHANGED <<pc, began, asked, seen, replaced>>, NEW reading, NEW why,
             Answered(t, now, reading, why),
             reading # None => young(reading, now) /\ period_ok(reading, now)
      PROVE  QInv'
  <2>1. ServedIsFresh' /\ answer' = [u \in Requests |-> answer'[u]]
    BY <1>3, AnswerStep DEF young
  <2> QED BY <1>1, <1>3, <2>1 DEF Clocks, ReadsAreShort, StoredIsYoung, OwnIsStored, Reading
<1> QED BY <1>2, <1>3 DEF current

\* serve: the second look, which tests the month and no age.
LEMMA ServeStep ==
  ASSUME QInv, NEW t \in Requests, serve(t)
  PROVE  /\ QInv'
         /\ got[t] # None /\ ~replaced[t] /\ period_ok(got[t], asked[t])
            => answer'[t].why # "new month"
<1> USE DEF QInv
<1>1. t \in Threads /\ pc[t] = "serve" /\ UNCHANGED <<now, cache>>
  BY DEF serve, Threads, source
<1>2. /\ pc'[t] = "idle" /\ got'[t] = None
      /\ \A u \in Threads \ {t} : /\ pc'[u] = pc[u] /\ began'[u] = began[u]
                                  /\ asked'[u] = asked[u] /\ replaced'[u] = replaced[u]
                                  /\ got'[u] = got[u]
  BY <1>1 DEF serve, Clocks
<1>3. ASSUME NEW reading, NEW why, Answered(t, asked[t], reading, why),
             reading # None => reading = cache /\ period_ok(cache, asked[t])
      PROVE  QInv' /\ answer'[t].why = why
  <2>1. reading # None => asked[t] - reading.at <= MaxAge
    BY <1>1, <1>3 DEF StoredIsYoung, Reading
  <2>2. /\ ServedIsFresh' /\ answer' = [u \in Requests |-> answer'[u]]
        /\ answer'[t].why = why
    BY <1>3, <2>1, AnswerStep
  <2>3. Clocks'
    BY <1>1, <2>2 DEF serve, Clocks
  <2>4. ReadsAreShort'
    BY <1>1, <1>2, <2>3 DEF ReadsAreShort, Reading, Clocks
  <2>5. StoredIsYoung'
    BY <1>1, <1>2, <2>3 DEF StoredIsYoung, Reading, Clocks, Threads
  <2>6. OwnIsStored'
    BY <1>1, <1>2 DEF OwnIsStored, Threads
  <2> QED BY <2>2, <2>3, <2>4, <2>5, <2>6
<1>4. CASE cache # None /\ period_ok(cache, asked[t])
  <2>1. Answered(t, asked[t], cache, "served")
    BY <1>4 DEF serve, refreshed
  <2>2. QInv' /\ answer'[t].why = "served"
    BY <1>3, <1>4, <2>1
  <2> QED BY <2>2
<1>5. CASE ~(cache # None /\ period_ok(cache, asked[t]))
  <2>1. Answered(t, asked[t], None, "new month")
    BY <1>5 DEF serve, refreshed
  <2>2. ~(got[t] # None /\ ~replaced[t] /\ period_ok(got[t], asked[t]))
    BY <1>1, <1>5 DEF OwnIsStored
  <2> QED BY <1>3, <2>1, <2>2
<1> QED BY <1>4, <1>5

\* A step of a read that stores nothing: the thread goes on, with a reading taken now or
\* with none, and the others keep what they have.
LEMMA ReadStep ==
  ASSUME QInv, Clocks', NEW t \in Threads,
         pc[t] \in {"allowance", "organization", "report"},
         pc'[t] \in {"organization", "report", "store", "wait", "serve"},
         pc'[t] = "store" => got'[t].at = now,
         pc'[t] # "store" => got'[t] = got[t],
         pc'[t] # "wait" => began'[t] = began[t],
         \A u \in Threads \ {t} : pc'[u] = pc[u] /\ began'[u] = began[u] /\ got'[u] = got[u],
         UNCHANGED <<now, cache, asked, answer, replaced>>
  PROVE  QInv'
<1> USE DEF QInv
<1>3. ReadsAreShort'
  BY DEF ReadsAreShort, Reading, Clocks
<1>4. StoredIsYoung'
  BY DEF StoredIsYoung, Reading, Clocks, Threads
<1>5. OwnIsStored'
  <2> SUFFICES ASSUME NEW u \in Requests
               PROVE  /\ pc'[u] \notin {"store", "serve"} => got'[u] = None
                      /\ pc'[u] = "serve" /\ got'[u] # None /\ ~replaced'[u] => cache' = got'[u]
    BY DEF OwnIsStored
  <2>1. CASE u = t
    BY <2>1 DEF OwnIsStored
  <2>2. CASE u # t
    BY <2>2 DEF OwnIsStored, Threads
  <2> QED BY <2>1, <2>2
<1>6. ServedIsFresh'
  BY DEF ServedIsFresh
<1> QED BY <1>3, <1>4, <1>5, <1>6

LEMMA BillingStep ==
  ASSUME QInv, NEW t \in Threads,
         actions_billing(t) \/ organization_id(t) \/ usage_report(t)
  PROVE  QInv'
<1> USE DEF source, life, read
<1>0. Clocks
  BY DEF QInv
<1>1. ASSUME NEW reason, Failed(t, reason), pc[t] \in {"organization", "report"}
      PROVE  QInv'
  <2>1. Clocks' /\ pc'[t] = IF t = Loop THEN "wait" ELSE "serve"
    BY <1>0, <1>1 DEF Failed, Over, Clocks
  <2>2. /\ t # Loop => began' = began
        /\ \A u \in Threads \ {t} : pc'[u] = pc[u] /\ began'[u] = began[u]
    BY <1>0, <1>1 DEF Failed, Over, Clocks
  <2>3. UNCHANGED <<now, cache, asked, answer, replaced, got>>
    BY <1>1 DEF Failed
  <2> QED BY <1>1, <2>1, <2>2, <2>3, ReadStep
<1>2. ASSUME NEW reading, Got(t, reading), reading.at = now,
             pc[t] \in {"allowance", "report"}
      PROVE  QInv'
  <2>1. Clocks' /\ pc'[t] = "store" /\ got'[t] = reading
    BY <1>0, <1>2 DEF Got, Clocks
  <2>2. \A u \in Threads \ {t} : pc'[u] = pc[u] /\ got'[u] = got[u]
    BY <1>0, <1>2 DEF Got, Clocks
  <2>3. UNCHANGED <<now, cache, asked, answer, replaced, began>>
    BY <1>2 DEF Got
  <2> QED BY <1>2, <2>1, <2>2, <2>3, ReadStep
<1>3. ASSUME NEW place \in {"organization", "report"}, pc' = [pc EXCEPT ![t] = place],
             pc[t] \in {"allowance", "organization"},
             UNCHANGED <<now, cache, asked, answer, replaced, began, got>>
      PROVE  QInv'
  <2>1. Clocks' /\ pc'[t] = place /\ \A u \in Threads \ {t} : pc'[u] = pc[u]
    BY <1>0, <1>3 DEF Clocks
  <2> QED BY <1>3, <2>1, ReadStep
<1>4. CASE actions_billing(t)
  BY <1>2, <1>3, <1>4 DEF actions_billing
<1>5. CASE organization_id(t)
  BY <1>1, <1>3, <1>5 DEF organization_id
<1>6. CASE usage_report(t)
  BY <1>1, <1>2, <1>6 DEF usage_report
<1> QED BY <1>4, <1>5, <1>6

\* store: what is stored was taken within one read's time.
LEMMA StoreStep == ASSUME QInv, NEW t \in Threads, store(t) PROVE QInv'
<1> USE DEF QInv
<1> DEFINE place == IF t = Loop THEN "wait" ELSE "serve"
<1>1. /\ pc[t] = "store" /\ cache' = got[t] /\ UNCHANGED <<now, asked, answer>>
      /\ pc' = [pc EXCEPT ![t] = place]
      /\ began' = IF t = Loop THEN [began EXCEPT ![t] = 0] ELSE began
      /\ got' = IF t = Loop THEN [got EXCEPT ![t] = None] ELSE got
      /\ replaced' = [u \in Threads |->
                        replaced[u] \/ (u # t /\ u \in Requests /\ pc[u] # "idle")]
  BY DEF store, Over
<1>2. Clocks'
  BY <1>1 DEF Clocks
<1>3. /\ pc'[t] = place
      /\ t # Loop => began'[t] = began[t] /\ got'[t] = got[t]
      /\ \A u \in Threads \ {t} : /\ pc'[u] = pc[u] /\ began'[u] = began[u]
                                  /\ got'[u] = got[u]
                                  /\ u \in Requests /\ pc[u] # "idle" => replaced'[u]
  BY <1>1 DEF Clocks
<1>4. ReadsAreShort'
  BY <1>1, <1>2, <1>3 DEF ReadsAreShort, Reading, Clocks
<1>5. cache'.at \in Nat /\ now - cache'.at <= MaxAge
  BY <1>1 DEF ReadsAreShort, Reading, Clocks
<1>6. StoredIsYoung'
  BY <1>1, <1>2, <1>3, <1>5 DEF StoredIsYoung, Reading, Clocks, Threads
<1>7. OwnIsStored'
  BY <1>1, <1>3 DEF OwnIsStored, Threads
<1>8. ServedIsFresh'
  BY <1>1 DEF ServedIsFresh
<1> QED BY <1>2, <1>4, <1>6, <1>7, <1>8

\* The refresh thread wakes; the broker stops; time passes.
LEMMA OtherStep == ASSUME QInv, Wake \/ stop \/ Tick PROVE QInv'
<1> USE DEF QInv, source, life, read
<1>1. CASE Wake
  <2>1. Loop \in Threads /\ Loop \notin Requests /\ UNCHANGED <<now, cache, got, asked, answer>>
    BY <1>1 DEF Wake, Threads
  <2>2. Clocks'
    BY <1>1, <2>1 DEF Wake, Starts, Clocks
  <2>3. /\ pc'[Loop] = "allowance" /\ began'[Loop] = now
        /\ \A u \in Threads \ {Loop} : /\ pc'[u] = pc[u] /\ began'[u] = began[u]
                                       /\ replaced'[u] = replaced[u]
    BY <1>1, <2>1 DEF Wake, Starts, Clocks
  <2>4. ReadsAreShort'
    BY <2>1, <2>2, <2>3 DEF ReadsAreShort, Reading, Clocks
  <2>5. StoredIsYoung'
    BY <2>1, <2>3 DEF StoredIsYoung, Reading, Threads
  <2>6. OwnIsStored'
    BY <2>1, <2>3 DEF OwnIsStored, Threads
  <2>7. ServedIsFresh'
    BY <2>1 DEF ServedIsFresh
  <2> QED BY <2>2, <2>4, <2>5, <2>6, <2>7
<1>2. CASE stop
  BY <1>2 DEF stop, Clocks, ReadsAreShort, StoredIsYoung, OwnIsStored, ServedIsFresh, Reading
<1>3. CASE Tick
  <2>1. now' = now + 1 /\ UNCHANGED <<cache, pc, began, asked, got, replaced>>
    BY <1>3 DEF Tick
  <2>2. Clocks'
    BY <1>3, <2>1 DEF Tick, Clocks
  <2>3. ReadsAreShort'
    BY <1>3, <2>1 DEF Tick, ReadsAreShort, Reading, Clocks
  <2>4. StoredIsYoung' /\ OwnIsStored'
    BY <2>1 DEF StoredIsYoung, OwnIsStored, Reading, Clocks, Threads
  <2>5. ServedIsFresh'
    BY <1>3 DEF Tick, ServedIsFresh
  <2> QED BY <2>2, <2>3, <2>4, <2>5
<1> QED BY <1>1, <1>2, <1>3

LEMMA NextQ == QInv /\ [Next]_vars => QInv'
<1> SUFFICES ASSUME QInv, [Next]_vars PROVE QInv'
  OBVIOUS
<1>1. CASE UNCHANGED vars
  BY <1>1 DEF vars, source, read, QInv, Clocks, ReadsAreShort, StoredIsYoung, OwnIsStored,
              ServedIsFresh, Reading
<1> QED BY <1>1, CurrentStep, ServeStep, BillingStep, StoreStep, OtherStep DEF Next

\* The inductive invariant of the quota source and its readers (quota.py, refresh and
\* current).
THEOREM QInvHolds == Spec => []QInv
BY InitQ, NextQ, PTL DEF Spec

\* quota.py current: a decision rests on a reading within its age and of its month, on
\* the second look too, which tests no age.
THEOREM ServedIsFreshHolds == Spec => []ServedIsFresh
<1>1. QInv => ServedIsFresh
  BY DEF QInv
<1> QED BY <1>1, QInvHolds, PTL

\* quota.py current: the first request of a month that got a reading of that month is
\* answered from it, unless another thread stored meanwhile.
THEOREM ReadAfreshAtResetHolds == Spec => ReadAfreshAtReset
<1> DEFINE Uses == \A t \in Requests :
             /\ pc[t] = "serve" /\ got[t] # None /\ ~replaced[t]
             /\ period_ok(got[t], asked[t])
             => pc'[t] = "serve" \/ answer'[t].why # "new month"
<1>1. QInv /\ [Next]_vars => [Uses]_vars
  <2> SUFFICES ASSUME QInv, Next, NEW t \in Requests, pc[t] = "serve", got[t] # None,
                      ~replaced[t], period_ok(got[t], asked[t]), ~serve(t)
               PROVE  pc'[t] = "serve"
    BY ServeStep
  <2> USE DEF QInv, Clocks, Threads
  <2>1. ASSUME NEW u \in Requests, current(u) \/ serve(u) PROVE pc'[t] = pc[t]
    BY <2>1 DEF current, Starts, serve
  <2>2. ASSUME NEW u \in Threads, actions_billing(u) \/ organization_id(u) \/ usage_report(u)
        PROVE  pc'[t] = pc[t]
    BY <2>2 DEF actions_billing, organization_id, usage_report, Got, Failed, Over
  <2>3. ASSUME NEW u \in Threads, store(u) PROVE pc'[t] = pc[t]
    BY <2>3 DEF store, Over
  <2>4. ASSUME Wake \/ stop \/ Tick PROVE pc'[t] = pc[t]
    BY <2>4 DEF Wake, Starts, stop, Tick
  <2> QED BY <2>1, <2>2, <2>3, <2>4 DEF Next
<1>2. QED BY <1>1, QInvHolds, PTL DEF Spec, ReadAfreshAtReset
===============================================================================
