--------------------------- MODULE JobQueueProofs ---------------------------
(***************************************************************************)
(* Proofs about JobQueue for every set of runs, devices, slots and labels  *)
(* and every lease length, grace, backoff and limit.                       *)
(***************************************************************************)
EXTENDS JobQueue, FiniteSetTheorems, TLAPS

\* The inductive invariant.  No conjunct is inductive alone: that attempts stay in
\* their type needs AttemptsSpent (only a run with an attempt left is claimable),
\* which needs the attempt a running row is on, which needs that rows and leases
\* move together (LeaseIsAuthority).
Inv == TypeOK /\ LeaseIsAuthority /\ AttemptsSpent /\ AgentKnowsItsAttempt

\* The backoff is an integer, whatever the attempt.
LEMMA BackoffInt ==
  ASSUME NEW a \in Nat
  PROVE  backoff_seconds(a) \in Int
<1> DEFINE k == IF a > 1 THEN a - 1 ELSE 0
<1>1. k \in Nat
  OBVIOUS
<1>2. 2 ^ k \in Int
  BY <1>1
<1>3. BaseBackoff * 2 ^ k \in Int
  BY <1>2, ConstantsAssumption
<1> QED
  BY <1>3, ConstantsAssumption DEF backoff_seconds

\* Releasing running rows, by a reclaim or by a device error, keeps the part of the
\* invariant that speaks of rows.
LEMMA ReleaseKeepsRows ==
  ASSUME Inv, NEW S \in SUBSET Jobs, \A j \in S : status[j] = "running", release(S)
  PROVE  /\ status' \in [Jobs -> {"absent", "pending", "running", "success", "failure", "dead"}]
         /\ device' \in [Jobs -> Devices \cup {None}]
         /\ lease' \in [Jobs -> Int \cup {None}]
         /\ attempts' \in [Jobs -> 0 .. MaxAttempts]
         /\ wait' \in [Jobs -> Int]
         /\ LeaseIsAuthority' /\ AttemptsSpent'
<1>1. \A j \in Jobs : attempts[j] \in Nat
  BY ConstantsAssumption DEF Inv, TypeOK
<1>2. \A j \in Jobs : backoff_seconds(attempts[j]) \in Int
  BY <1>1, BackoffInt
<1>3. wait' \in [Jobs -> Int]
  BY <1>2 DEF release, Inv, TypeOK
<1>4. /\ status' \in [Jobs -> {"absent", "pending", "running", "success", "failure", "dead"}]
      /\ device' \in [Jobs -> Devices \cup {None}]
      /\ lease' \in [Jobs -> Int \cup {None}]
      /\ attempts' \in [Jobs -> 0 .. MaxAttempts]
  BY DEF release, Inv, TypeOK
<1>5. LeaseIsAuthority'
  BY DEF release, Inv, TypeOK, LeaseIsAuthority
<1>6. AttemptsSpent'
  BY ConstantsAssumption DEF release, parked, Inv, TypeOK, AttemptsSpent
<1> QED
  BY <1>3, <1>4, <1>5, <1>6

\* What a reclaim transaction does to the invariant.
LEMMA ExpireKeepsInv ==
  ASSUME Inv, expire
  PROVE  /\ status' \in [Jobs -> {"absent", "pending", "running", "success", "failure", "dead"}]
         /\ device' \in [Jobs -> Devices \cup {None}]
         /\ lease' \in [Jobs -> Int \cup {None}]
         /\ attempts' = attempts
         /\ wait' \in [Jobs -> Int]
         /\ LeaseIsAuthority' /\ AttemptsSpent'
         /\ reclaims' \in Nat /\ reclaimsLive' \in Nat
<1>1. Spent \in SUBSET Jobs /\ \A j \in Spent : status[j] = "running"
  BY DEF Spent
<1>2. release(Spent) /\ attempts' = attempts
  BY DEF expire, release
<1>3. IsFiniteSet(Spent) /\ IsFiniteSet({j \in Spent : device[j] \in Present})
  BY <1>1, ConstantsAssumption, FS_Subset
<1>4. Cardinality(Spent) \in Nat /\ Cardinality({j \in Spent : device[j] \in Present}) \in Nat
  BY <1>3, FS_CardinalityType
<1>5. reclaims' \in Nat /\ reclaimsLive' \in Nat
  BY <1>4 DEF expire, Inv, TypeOK
<1> QED
  BY <1>1, <1>2, <1>5, ReleaseKeepsRows

LEMMA InvInductive ==
  ASSUME Inv, [Next]_vars
  PROVE  Inv'
<1> USE ConstantsAssumption
<1>1. ASSUME NEW j \in Jobs, enqueue(j) PROVE Inv'
  <2>1. IsFiniteSet(Enqueued)
    BY FS_Subset DEF Enqueued
  <2>2. Cardinality(Enqueued) \in Nat
    BY <2>1, FS_CardinalityType
  <2>3. TypeOK'
    BY <1>1, <2>2 DEF enqueue, Inv, TypeOK, counters, agent, Reports
  <2>4. LeaseIsAuthority' /\ AttemptsSpent'
    BY <1>1 DEF enqueue, Inv, TypeOK, LeaseIsAuthority, AttemptsSpent
  <2>5. AgentKnowsItsAttempt'
    BY <1>1 DEF enqueue, Inv, AgentKnowsItsAttempt, agent
  <2> QED BY <2>3, <2>4, <2>5 DEF Inv
<1>2. ASSUME NEW d \in Devices, record_heartbeat(d) PROVE Inv'
  <2>1. TypeOK'
    BY <1>2 DEF record_heartbeat, Inv, TypeOK, rows, counters, agent, Reports
  <2>2. LeaseIsAuthority' /\ AttemptsSpent' /\ AgentKnowsItsAttempt'
    BY <1>2 DEF record_heartbeat, Inv, LeaseIsAuthority, AttemptsSpent,
                AgentKnowsItsAttempt, rows, agent
  <2> QED BY <2>1, <2>2 DEF Inv
<1>3. ASSUME NEW d \in Devices, AgentCrash(d) PROVE Inv'
  <2>1. TypeOK'
    BY <1>3 DEF AgentCrash, Inv, TypeOK, rows, counters, Reports
  <2>2. LeaseIsAuthority' /\ AttemptsSpent'
    BY <1>3 DEF AgentCrash, Inv, LeaseIsAuthority, AttemptsSpent, rows
  <2>3. AgentKnowsItsAttempt'
    BY <1>3 DEF AgentCrash, Inv, TypeOK, AgentKnowsItsAttempt, rows
  <2> QED BY <2>1, <2>2, <2>3 DEF Inv
<1>4. CASE reclaim_tick
  <2>1. TypeOK'
    BY <1>4, ExpireKeepsInv DEF reclaim_tick, Inv, TypeOK, agent, Reports
  <2>2. LeaseIsAuthority' /\ AttemptsSpent'
    BY <1>4, ExpireKeepsInv DEF reclaim_tick
  <2>3. AgentKnowsItsAttempt'
    BY <1>4, ExpireKeepsInv DEF reclaim_tick, Inv, AgentKnowsItsAttempt, agent
  <2> QED BY <2>1, <2>2, <2>3 DEF Inv
<1>5. CASE Tick
  <2>1. TypeOK'
    BY <1>5 DEF Tick, Inv, TypeOK, counters, agent, Reports
  <2>2. LeaseIsAuthority'
    BY <1>5 DEF Tick, Inv, TypeOK, LeaseIsAuthority
  <2>3. AttemptsSpent' /\ AgentKnowsItsAttempt'
    BY <1>5 DEF Tick, Inv, AttemptsSpent, AgentKnowsItsAttempt, agent
  <2> QED BY <2>1, <2>2, <2>3 DEF Inv
<1>6. ASSUME NEW s \in Slots, ClaimReleases(s) PROVE Inv'
  <2>1. TypeOK'
    BY <1>6, ExpireKeepsInv DEF ClaimReleases, Inv, TypeOK, Reports
  <2>2. LeaseIsAuthority' /\ AttemptsSpent'
    BY <1>6, ExpireKeepsInv DEF ClaimReleases
  <2>3. AgentKnowsItsAttempt'
    BY <1>6, ExpireKeepsInv DEF ClaimReleases, Inv, TypeOK, AgentKnowsItsAttempt
  <2> QED BY <2>1, <2>2, <2>3 DEF Inv
<1>7. ASSUME NEW s \in Slots, ClaimNothing(s) PROVE Inv'
  <2>1. TypeOK'
    BY <1>7 DEF ClaimNothing, Inv, TypeOK, rows, counters, Reports
  <2>2. LeaseIsAuthority' /\ AttemptsSpent'
    BY <1>7 DEF ClaimNothing, Inv, LeaseIsAuthority, AttemptsSpent, rows
  <2>3. AgentKnowsItsAttempt'
    BY <1>7 DEF ClaimNothing, Inv, TypeOK, AgentKnowsItsAttempt, rows
  <2> QED BY <2>1, <2>2, <2>3 DEF Inv
<1>8. ASSUME NEW s \in Slots, NEW j \in Jobs, NEW b \in BOOLEAN, Claim(s, j, b) PROVE Inv'
  <2>1. status[j] = "pending" /\ attempts[j] \in 0 .. MaxAttempts - 1
    BY <1>8 DEF Claim, pick_job, eligible, Inv, TypeOK, AttemptsSpent
  <2>2. DeviceOf[s] \in Devices
    OBVIOUS
  <2>3. TypeOK'
    BY <1>8, <2>1, <2>2 DEF Claim, Inv, TypeOK, counters, Reports
  <2>4. LeaseIsAuthority' /\ AttemptsSpent'
    BY <1>8, <2>1, <2>2 DEF Claim, Inv, TypeOK, LeaseIsAuthority, AttemptsSpent
  <2>5. AgentKnowsItsAttempt'
    BY <1>8, <2>1 DEF Claim, Inv, TypeOK, AgentKnowsItsAttempt, Reports
  <2> QED BY <2>3, <2>4, <2>5 DEF Inv
<1>9. ASSUME NEW s \in Slots, Renew(s) PROVE Inv'
  <2>1. held[s] \in Jobs
    BY <1>9 DEF Renew, Working, Inv, AgentKnowsItsAttempt
  <2>2. TypeOK'
    BY <1>9, <2>1 DEF Renew, Inv, TypeOK, counters, Reports
  <2>3. LeaseIsAuthority' /\ AttemptsSpent'
    BY <1>9, <2>1 DEF Renew, holds_lease, Inv, TypeOK, LeaseIsAuthority, AttemptsSpent
  <2>4. AgentKnowsItsAttempt'
    BY <1>9, <2>1 DEF Renew, Working, Inv, TypeOK, AgentKnowsItsAttempt
  <2> QED BY <2>2, <2>3, <2>4 DEF Inv
<1>10. ASSUME NEW s \in Slots, RenewalsFail(s) PROVE Inv'
  <2>1. TypeOK'
    BY <1>10 DEF RenewalsFail, Inv, TypeOK, rows, counters, Reports
  <2>2. LeaseIsAuthority' /\ AttemptsSpent'
    BY <1>10 DEF RenewalsFail, Inv, LeaseIsAuthority, AttemptsSpent, rows
  <2>3. AgentKnowsItsAttempt'
    BY <1>10 DEF RenewalsFail, Working, Inv, TypeOK, AgentKnowsItsAttempt, rows
  <2> QED BY <2>1, <2>2, <2>3 DEF Inv
<1>11. ASSUME NEW s \in Slots, Abandon(s) \/ ReportTimesOut(s) PROVE Inv'
  <2>1. TypeOK'
    BY <1>11 DEF Abandon, ReportTimesOut, free, Inv, TypeOK, rows, counters, Reports
  <2>2. LeaseIsAuthority' /\ AttemptsSpent'
    BY <1>11 DEF Abandon, ReportTimesOut, Inv, LeaseIsAuthority, AttemptsSpent, rows
  <2>3. AgentKnowsItsAttempt'
    BY <1>11 DEF Abandon, ReportTimesOut, free, Inv, TypeOK, AgentKnowsItsAttempt, rows
  <2> QED BY <2>1, <2>2, <2>3 DEF Inv
<1>12. ASSUME NEW s \in Slots, NEW o \in Outcomes, SendReport(s, o) PROVE Inv'
  <2>1. held[s] \in Jobs /\ try[s] \in 1 .. attempts[held[s]] /\ try[s] \in 1 .. MaxAttempts
    BY <1>12 DEF SendReport, Inv, TypeOK, AgentKnowsItsAttempt
  <2>2. [job |-> held[s], try |-> try[s], outcome |-> o] \in Reports
    BY <2>1 DEF Reports
  <2>3. TypeOK'
    BY <1>12, <2>2 DEF SendReport, Inv, TypeOK, rows, counters
  <2>4. LeaseIsAuthority' /\ AttemptsSpent'
    BY <1>12 DEF SendReport, Inv, LeaseIsAuthority, AttemptsSpent, rows
  <2>5. AgentKnowsItsAttempt'
    BY <1>12, <2>1 DEF SendReport, Inv, TypeOK, AgentKnowsItsAttempt, rows
  <2> QED BY <2>3, <2>4, <2>5 DEF Inv
<1>13. ASSUME NEW s \in Slots, ReportLost(s) PROVE Inv'
  <2>1. TypeOK'
    BY <1>13 DEF ReportLost, free, Inv, TypeOK, rows, counters, agent
  <2>2. LeaseIsAuthority' /\ AttemptsSpent'
    BY <1>13 DEF ReportLost, Inv, LeaseIsAuthority, AttemptsSpent, rows
  <2>3. AgentKnowsItsAttempt'
    BY <1>13 DEF ReportLost, free, Inv, TypeOK, AgentKnowsItsAttempt, rows, agent
  <2> QED BY <2>1, <2>2, <2>3 DEF Inv
<1>14. ASSUME NEW s \in Slots, Report(s) PROVE Inv'
  <2> DEFINE j == mail[s].job
  <2>1. mail[s] \in Reports /\ j \in Jobs
    BY <1>14 DEF Report, Inv, TypeOK, Reports
  <2>2. /\ mail' \in [Slots -> Reports \cup {None}]
        /\ pc' \in [Slots -> {"idle", "asking", "running", "reporting", "lost"}]
        /\ held' \in [Slots -> Jobs \cup {None}]
        /\ try' \in [Slots -> 0 .. MaxAttempts]
    BY <1>14 DEF Report, free, Inv, TypeOK, agent
  <2>3. attempts' = attempts
    BY <1>14 DEF Report, settle, release, rows
  <2>4. AgentKnowsItsAttempt'
    BY <1>14, <2>3 DEF Report, free, Inv, TypeOK, AgentKnowsItsAttempt, agent
  <2>5. CASE ~holds_lease(j, DeviceOf[s])
    <3>1. TypeOK'
      BY <1>14, <2>2, <2>5 DEF Report, Inv, TypeOK, rows, counters
    <3>2. LeaseIsAuthority' /\ AttemptsSpent'
      BY <1>14, <2>5 DEF Report, Inv, LeaseIsAuthority, AttemptsSpent, rows
    <3> QED BY <3>1, <3>2, <2>4 DEF Inv
  <2>6. CASE holds_lease(j, DeviceOf[s]) /\ mail[s].outcome = "error"
    <3>1. release({j}) /\ errors' = [errors EXCEPT ![j] = @ + 1]
      BY <1>14, <2>6 DEF Report, settle
    <3>2. {j} \in SUBSET Jobs /\ \A i \in {j} : status[i] = "running"
      BY <2>1, <2>6 DEF holds_lease
    <3>3. TypeOK'
      BY <1>14, <2>1, <2>2, <3>1, <3>2, ReleaseKeepsRows DEF Report, Inv, TypeOK, counters
    <3> QED BY <3>1, <3>2, <3>3, <2>4, ReleaseKeepsRows DEF Inv
  <2>7. CASE holds_lease(j, DeviceOf[s]) /\ mail[s].outcome # "error"
    <3>1. mail[s].outcome \in {"success", "failure"}
      BY <2>1, <2>7 DEF Reports
    <3>2. TypeOK'
      BY <1>14, <2>1, <2>2, <2>7, <3>1 DEF Report, settle, Inv, TypeOK, counters
    <3>3. LeaseIsAuthority' /\ AttemptsSpent'
      BY <1>14, <2>1, <2>7, <3>1
      DEF Report, settle, holds_lease, Inv, TypeOK, LeaseIsAuthority, AttemptsSpent
    <3> QED BY <3>2, <3>3, <2>4 DEF Inv
  <2> QED BY <2>5, <2>6, <2>7
<1>15. CASE UNCHANGED vars
  BY <1>15 DEF vars, rows, counters, agent, Inv, TypeOK, LeaseIsAuthority, AttemptsSpent,
               AgentKnowsItsAttempt, Reports
<1> QED
  BY <1>1, <1>2, <1>3, <1>4, <1>5, <1>6, <1>7, <1>8, <1>9, <1>10, <1>11, <1>12, <1>13, <1>14, <1>15
  DEF Next, SlotStep

LEMMA InvInit == Init => Inv
  BY ConstantsAssumption
  DEF Init, Inv, TypeOK, LeaseIsAuthority, AttemptsSpent, AgentKnowsItsAttempt

\* Type correctness, that rows and leases move together, that the attempt cap holds
\* and that no slot is ahead of the queue, in every reachable state.
THEOREM InvHolds == Spec => []Inv
<1>1. Inv /\ [Next]_vars => Inv'
  BY InvInductive
<1> QED
  BY InvInit, <1>1, PTL DEF Spec

\* Whatever claims, lapsed leases, late reports and crashes come together, a run
\* waiting in the queue has an attempt left and only a run out of them is parked.
THEOREM AttemptsSpentHolds == Spec => []AttemptsSpent
<1>1. Inv => AttemptsSpent
  BY DEF Inv
<1> QED
  BY InvHolds, <1>1, PTL

\* Every column of the queue and every register of a slot keeps its type.
THEOREM TypeOKHolds == Spec => []TypeOK
<1>1. Inv => TypeOK
  BY DEF Inv
<1> QED
  BY InvHolds, <1>1, PTL

-----------------------------------------------------------------------------
(* The account of the attempts *)

\* Raising one count adds one pair.
LEMMA EachRaised ==
  ASSUME NEW f \in [Jobs -> Nat], NEW j \in Jobs, IsFiniteSet(each(f))
  PROVE  /\ IsFiniteSet(each([f EXCEPT ![j] = @ + 1]))
         /\ Cardinality(each([f EXCEPT ![j] = @ + 1])) = Cardinality(each(f)) + 1
<1> DEFINE g == [f EXCEPT ![j] = @ + 1]
           new == <<j, f[j] + 1>>
<1>1. f[j] \in Nat /\ g[j] = f[j] + 1 /\ \A i \in Jobs \ {j} : g[i] = f[i]
  OBVIOUS
<1>2. 1 .. g[j] = (1 .. f[j]) \cup {f[j] + 1}
  BY <1>1
<1>3. new \notin each(f)
  <2> SUFFICES ASSUME NEW i \in Jobs, new \in {i} \X (1 .. f[i]) PROVE FALSE
    BY DEF each
  <2>1. i = j /\ f[j] + 1 \in 1 .. f[j]
    OBVIOUS
  <2> QED BY <1>1, <2>1
<1>4. each(g) = each(f) \cup {new}
  <2> HIDE DEF g
  <2>1. ASSUME NEW p \in each(g) PROVE p \in each(f) \cup {new}
    <3>1. PICK i \in Jobs : p \in {i} \X (1 .. g[i])
      BY <2>1 DEF each
    <3>2. CASE i = j
      <4>1. p \in {j} \X ((1 .. f[j]) \cup {f[j] + 1})
        BY <1>2, <3>1, <3>2
      <4>2. p \in {j} \X (1 .. f[j]) \/ p = new
        BY <4>1
      <4> QED BY <4>2 DEF each
    <3>3. CASE i # j
      BY <1>1, <3>1, <3>3 DEF each
    <3> QED BY <3>2, <3>3
  <2>2. ASSUME NEW p \in each(f) PROVE p \in each(g)
    <3>1. PICK i \in Jobs : p \in {i} \X (1 .. f[i])
      BY <2>2 DEF each
    <3>2. p \in {i} \X (1 .. g[i])
      BY <1>1, <1>2, <3>1
    <3> QED BY <3>2 DEF each
  <2>3. new \in each(g)
    <3>1. new \in {j} \X (1 .. g[j])
      BY <1>1, <1>2
    <3> QED BY <3>1 DEF each
  <2> QED BY <2>1, <2>2, <2>3
<1>5. /\ IsFiniteSet(each(f) \cup {new})
      /\ Cardinality(each(f) \cup {new}) = Cardinality(each(f)) + 1
  <2> HIDE DEF new
  <2> QED BY <1>3, FS_AddElement
<1> QED BY <1>4, <1>5

\* The account, and that there is something to count.
Accounted == EveryAttemptAccounted /\ IsFiniteSet(each(attempts)) /\ IsFiniteSet(each(errors))

\* What the account is made of are numbers.
LEMMA CountsAreNat ==
  ASSUME Inv, Accounted
  PROVE  /\ Cardinality(each(attempts)) \in Nat /\ Cardinality(each(errors)) \in Nat
         /\ IsFiniteSet(Answered) /\ Cardinality(Answered) \in Nat
         /\ reclaims \in Nat /\ reclaimsLive \in Nat
         /\ attempts \in [Jobs -> Nat] /\ errors \in [Jobs -> Nat]
<1>1. IsFiniteSet(Answered)
  BY ConstantsAssumption, FS_Subset DEF Answered
<1>2. Cardinality(Answered) \in Nat
  BY <1>1, FS_CardinalityType
<1>3. Cardinality(each(attempts)) \in Nat /\ Cardinality(each(errors)) \in Nat
  BY FS_CardinalityType DEF Accounted
<1>4. /\ reclaims \in Nat /\ reclaimsLive \in Nat
      /\ attempts \in [Jobs -> Nat] /\ errors \in [Jobs -> Nat]
  BY ConstantsAssumption DEF Inv, TypeOK
<1> QED BY <1>1, <1>2, <1>3, <1>4

\* A reclaim takes the runs it counts out of the answered ones.
LEMMA ExpireIsAccounted ==
  ASSUME Inv, Accounted, expire, errors' = errors
  PROVE  Accounted'
<1> DEFINE live == {j \in Spent : device[j] \in Present}
<1>1. attempts' = attempts
  BY DEF expire, release
<1>2. Spent \subseteq Answered /\ live \subseteq Spent
  BY DEF Spent, Answered
<1>3. Answered' = Answered \ Spent
  BY DEF expire, release, Answered, Spent, Inv, TypeOK
<1>4. IsFiniteSet(Answered)
  BY CountsAreNat
<1>5. IsFiniteSet(Spent)
  BY <1>2, <1>4, FS_Subset
<1>6. /\ Cardinality(Answered \ Spent) = Cardinality(Answered) - Cardinality(Answered \cap Spent)
      /\ Answered \cap Spent = Spent
  BY <1>2, <1>4, FS_Difference
<1>7. IsFiniteSet(live) /\ Cardinality(live) <= Cardinality(Spent)
  BY <1>2, <1>5, FS_Subset
<1>8. Cardinality(live) \in Nat /\ Cardinality(Spent) \in Nat
  BY <1>5, <1>7, FS_CardinalityType
<1>9. Cardinality(Answered') = Cardinality(Answered) - Cardinality(Spent)
  BY <1>3, <1>6
<1>10. reclaims' = reclaims + Cardinality(Spent) /\ reclaimsLive' = reclaimsLive + Cardinality(live)
  BY DEF expire
<1> HIDE DEF live
<1>11. reclaimsLive' <= reclaims'
  BY <1>7, <1>8, <1>10, CountsAreNat DEF Accounted, EveryAttemptAccounted
<1>12. Cardinality(each(attempts)) = reclaims' + Cardinality(each(errors)) + Cardinality(Answered')
  BY <1>8, <1>9, <1>10, CountsAreNat DEF Accounted, EveryAttemptAccounted
<1> QED BY <1>1, <1>11, <1>12 DEF Accounted, EveryAttemptAccounted

\* A step that starts nothing and ends nothing leaves the account as it is.
LEMMA AccountLeft ==
  ASSUME Accounted, UNCHANGED <<attempts, errors, reclaims, reclaimsLive>>, Answered' = Answered
  PROVE  Accounted'
BY DEF Accounted, EveryAttemptAccounted

LEMMA AccountedInductive ==
  ASSUME Inv, Accounted, [Next]_vars
  PROVE  Accounted'
<1>1. ASSUME NEW j \in Jobs, enqueue(j) PROVE Accounted'
  <2>1. Answered' = Answered
    BY <1>1 DEF enqueue, Answered, Inv, TypeOK
  <2> QED BY <1>1, <2>1, AccountLeft DEF enqueue, counters
<1>2. CASE reclaim_tick \/ \E s \in Slots : ClaimReleases(s)
  BY <1>2, ExpireIsAccounted DEF reclaim_tick, ClaimReleases
<1>3. ASSUME NEW s \in Slots, NEW j \in Jobs, NEW b \in BOOLEAN, Claim(s, j, b) PROVE Accounted'
  <2>1. status[j] = "pending"
    BY <1>3 DEF Claim, pick_job, eligible
  <2>2. j \notin Answered /\ Answered' = Answered \cup {j}
    BY <1>3, <2>1 DEF Claim, Answered, Inv, TypeOK
  <2>3. Cardinality(Answered') = Cardinality(Answered) + 1
    BY <2>2, CountsAreNat, FS_AddElement
  <2>4. attempts' = [attempts EXCEPT ![j] = @ + 1]
    BY <1>3 DEF Claim
  <2>5. /\ IsFiniteSet(each(attempts'))
        /\ Cardinality(each(attempts')) = Cardinality(each(attempts)) + 1
    BY <2>4, CountsAreNat, EachRaised DEF Accounted
  <2>6. UNCHANGED <<reclaims, reclaimsLive, errors>>
    BY <1>3 DEF Claim, counters
  <2>7. Cardinality(each(attempts')) = reclaims + Cardinality(each(errors)) + Cardinality(Answered')
    BY <2>3, <2>5, CountsAreNat DEF Accounted, EveryAttemptAccounted
  <2> QED BY <2>5, <2>6, <2>7 DEF Accounted, EveryAttemptAccounted, each
<1>4. ASSUME NEW s \in Slots, Report(s) PROVE Accounted'
  <2> DEFINE j == mail[s].job
  <2>1. mail[s] \in Reports /\ j \in Jobs
    BY <1>4 DEF Report, Inv, TypeOK, Reports
  <2>2. UNCHANGED <<attempts, reclaims, reclaimsLive>>
    BY <1>4 DEF Report, settle, release, rows, counters
  <2>3. CASE ~holds_lease(j, DeviceOf[s])
    BY <1>4, <2>2, <2>3, AccountLeft DEF Report, rows, Answered
  <2>4. CASE holds_lease(j, DeviceOf[s]) /\ mail[s].outcome = "error"
    <3>1. release({j}) /\ errors' = [errors EXCEPT ![j] = @ + 1]
      BY <1>4, <2>4 DEF Report, settle
    <3>2. status[j] = "running"
      BY <2>4 DEF holds_lease
    <3> HIDE DEF j
    <3>3. j \in Answered /\ Answered' = Answered \ {j}
      BY <2>1, <3>1, <3>2 DEF release, Answered, Inv, TypeOK
    <3>4. Cardinality(Answered') = Cardinality(Answered) - 1
      BY <3>3, CountsAreNat, FS_RemoveElement
    <3>5. /\ IsFiniteSet(each(errors'))
          /\ Cardinality(each(errors')) = Cardinality(each(errors)) + 1
      BY <2>1, <3>1, CountsAreNat, EachRaised DEF Accounted
    <3>6. Cardinality(each(attempts)) = reclaims + Cardinality(each(errors')) + Cardinality(Answered')
      BY <3>4, <3>5, CountsAreNat DEF Accounted, EveryAttemptAccounted
    <3> QED BY <2>2, <3>5, <3>6 DEF Accounted, EveryAttemptAccounted, each
  <2>5. CASE holds_lease(j, DeviceOf[s]) /\ mail[s].outcome # "error"
    <3>1. mail[s].outcome \in {"success", "failure"}
      BY <2>1, <2>5, ConstantsAssumption DEF Reports
    <3>2. status' = [status EXCEPT ![j] = mail[s].outcome] /\ errors' = errors /\ status[j] = "running"
      BY <1>4, <2>5 DEF Report, settle, holds_lease
    <3>3. Answered' = Answered
      BY <2>1, <3>1, <3>2 DEF Answered, Inv, TypeOK
    <3> QED BY <2>2, <3>2, <3>3, AccountLeft
  <2> QED BY <2>3, <2>4, <2>5
<1>5. ASSUME UNCHANGED <<status, attempts, errors, counters>> PROVE Accounted'
  BY <1>5, AccountLeft DEF Answered, counters
<1>6. ASSUME NEW s \in Slots,
             \/ ClaimNothing(s) \/ Renew(s) \/ RenewalsFail(s) \/ Abandon(s)
             \/ ReportTimesOut(s) \/ ReportLost(s)
             \/ \E o \in Outcomes : SendReport(s, o)
      PROVE  Accounted'
  BY <1>5, <1>6 DEF ClaimNothing, Renew, RenewalsFail, Abandon, ReportTimesOut, ReportLost,
     SendReport, rows
<1>7. ASSUME NEW d \in Devices, record_heartbeat(d) \/ AgentCrash(d) PROVE Accounted'
  BY <1>5, <1>7 DEF record_heartbeat, AgentCrash, rows
<1>8. CASE Tick \/ UNCHANGED vars
  BY <1>5, <1>8 DEF Tick, vars, rows
<1> QED
  BY <1>1, <1>2, <1>3, <1>4, <1>6, <1>7, <1>8 DEF Next, SlotStep

LEMMA AccountedInit == Init => Accounted
<1> SUFFICES ASSUME Init PROVE Accounted
  OBVIOUS
<1>1. 1 .. 0 = {}
  OBVIOUS
<1>2. each(attempts) = {} /\ each(errors) = {}
  BY <1>1 DEF Init, each
<1>3. Answered = {}
  BY DEF Init, Answered
<1> QED BY <1>2, <1>3, FS_EmptySet DEF Init, Accounted, EveryAttemptAccounted

\* Every attempt is one lapsed lease a reclaim counted, one accepted device error, one
\* verdict or one run still out, and no attempt is two of them (jobs.py:266,
\* lease_reclaim.py expire, verdicts.py settle), for any number of runs and devices.
THEOREM EveryAttemptAccountedHolds == Spec => []EveryAttemptAccounted
<1>1. Inv /\ Accounted /\ [Next]_vars => Accounted'
  BY AccountedInductive
<1>2. Accounted => EveryAttemptAccounted
  BY DEF Accounted
<1> QED
  BY AccountedInit, <1>1, <1>2, InvHolds, PTL DEF Spec

-----------------------------------------------------------------------------
(* The repository limit *)

\* Only a claim makes a run running, and it makes one run.
LEMMA StepShrinksRunning ==
  ASSUME Inv, [Next]_vars
  PROVE  \/ \A j \in Jobs : status'[j] = "running" => status[j] = "running"
         \/ \E s \in Slots, i \in Jobs :
              /\ i \in eligible(DeviceOf[s])
              /\ \A j \in Jobs : status'[j] = "running" => status[j] = "running" \/ j = i
<1> DEFINE Shrinks == \A j \in Jobs : status'[j] = "running" => status[j] = "running"
<1> DEFINE Claims == \E s \in Slots, i \in Jobs :
              /\ i \in eligible(DeviceOf[s])
              /\ \A j \in Jobs : status'[j] = "running" => status[j] = "running" \/ j = i
<1>1. ASSUME NEW S, release(S) PROVE Shrinks
  BY <1>1 DEF release, Inv, TypeOK
<1>2. ASSUME NEW j \in Jobs, enqueue(j) PROVE Shrinks
  BY <1>2 DEF enqueue, Inv, TypeOK
<1>3. ASSUME NEW d \in Devices, record_heartbeat(d) \/ AgentCrash(d) PROVE Shrinks
  BY <1>3 DEF record_heartbeat, AgentCrash, rows
<1>4. CASE reclaim_tick
  BY <1>1, <1>4 DEF reclaim_tick, expire
<1>5. CASE Tick \/ UNCHANGED vars
  BY <1>5 DEF Tick, vars, rows
<1>6. ASSUME NEW s \in Slots, ClaimReleases(s) PROVE Shrinks
  BY <1>1, <1>6 DEF ClaimReleases, expire
<1>7. ASSUME NEW s \in Slots,
             \/ ClaimNothing(s) \/ Renew(s) \/ RenewalsFail(s) \/ Abandon(s)
             \/ ReportTimesOut(s) \/ ReportLost(s)
             \/ \E o \in Outcomes : SendReport(s, o)
      PROVE  Shrinks
  BY <1>7 DEF ClaimNothing, Renew, RenewalsFail, Abandon, ReportTimesOut, ReportLost,
              SendReport, rows
<1>8. ASSUME NEW s \in Slots, Report(s) PROVE Shrinks
  <2>1. CASE ~holds_lease(mail[s].job, DeviceOf[s])
    BY <1>8, <2>1 DEF Report, rows
  <2>2. CASE holds_lease(mail[s].job, DeviceOf[s]) /\ mail[s].outcome = "error"
    BY <1>1, <1>8, <2>2 DEF Report, settle
  <2>3. CASE holds_lease(mail[s].job, DeviceOf[s]) /\ mail[s].outcome # "error"
    <3>1. status' = [status EXCEPT ![mail[s].job] = mail[s].outcome]
      BY <1>8, <2>3 DEF Report, settle
    <3>2. mail[s].outcome # "running"
      BY <1>8, ConstantsAssumption DEF Report, Inv, TypeOK, Reports
    <3> QED BY <3>1, <3>2 DEF Inv, TypeOK
  <2> QED BY <2>1, <2>2, <2>3
<1>9. ASSUME NEW s \in Slots, NEW i \in Jobs, NEW b \in BOOLEAN, Claim(s, i, b) PROVE Claims
  <2>1. i \in eligible(DeviceOf[s])
    BY <1>9 DEF Claim, pick_job
  <2>2. \A j \in Jobs : status'[j] = "running" => status[j] = "running" \/ j = i
    BY <1>9 DEF Claim, Inv, TypeOK
  <2> QED BY <2>1, <2>2
<1> QED
  BY <1>2, <1>3, <1>4, <1>5, <1>6, <1>7, <1>8, <1>9 DEF Next, SlotStep

\* No interleaving of claims lets one repository hold more leases than its limit.
THEOREM RepositoryCapHolds == Spec => []RepositoryCap
<1>1. Init => RepositoryCap
  <2> SUFFICES ASSUME Init, NEW r \in Repositories
               PROVE  Cardinality(Running(r)) <= MaxRepositoryRunning
    BY DEF RepositoryCap
  <2>1. Running(r) = {}
    BY DEF Init, Running
  <2> QED
    BY <2>1, FS_EmptySet, ConstantsAssumption
<1>2. Inv /\ RepositoryCap /\ [Next]_vars => RepositoryCap'
  <2> SUFFICES ASSUME Inv, RepositoryCap, [Next]_vars, NEW r \in Repositories
               PROVE  Cardinality(Running(r)') <= MaxRepositoryRunning
    BY DEF RepositoryCap
  <2>1. IsFiniteSet(Running(r)) /\ Cardinality(Running(r)) \in Nat
    BY ConstantsAssumption, FS_Subset, FS_CardinalityType DEF Running
  <2>2. Cardinality(Running(r)) <= MaxRepositoryRunning
    BY DEF RepositoryCap
  <2>3. CASE \A j \in Jobs : status'[j] = "running" => status[j] = "running"
    <3>1. Running(r)' \subseteq Running(r)
      BY <2>3 DEF Running
    <3>2. Cardinality(Running(r)') \in Nat /\ Cardinality(Running(r)') <= Cardinality(Running(r))
      BY <2>1, <3>1, FS_Subset, FS_CardinalityType
    <3> QED BY <2>1, <2>2, <3>2, ConstantsAssumption
  <2>4. ASSUME NEW s \in Slots, NEW i \in Jobs, i \in eligible(DeviceOf[s]),
               \A j \in Jobs : status'[j] = "running" => status[j] = "running" \/ j = i
        PROVE  Cardinality(Running(r)') <= MaxRepositoryRunning
    <3>1. CASE RepositoryOf[i] = r
      <4>1. Cardinality(Running(r)) < MaxRepositoryRunning
        BY <2>4, <3>1 DEF eligible
      <4>2. Running(r)' \subseteq Running(r) \cup {i}
        BY <2>4 DEF Running
      <4>3. i \notin Running(r)
        BY <2>4 DEF eligible, Running
      <4>4. /\ IsFiniteSet(Running(r) \cup {i})
            /\ Cardinality(Running(r) \cup {i}) = Cardinality(Running(r)) + 1
        BY <2>1, <4>3, FS_AddElement
      <4>5. /\ Cardinality(Running(r)') \in Nat
            /\ Cardinality(Running(r)') <= Cardinality(Running(r) \cup {i})
        BY <4>2, <4>4, FS_Subset, FS_CardinalityType
      <4> QED BY <2>1, <4>1, <4>4, <4>5, ConstantsAssumption
    <3>2. CASE RepositoryOf[i] # r
      <4>1. Running(r)' \subseteq Running(r)
        BY <2>4, <3>2 DEF Running
      <4>2. Cardinality(Running(r)') \in Nat /\ Cardinality(Running(r)') <= Cardinality(Running(r))
        BY <2>1, <4>1, FS_Subset, FS_CardinalityType
      <4> QED BY <2>1, <2>2, <4>2, ConstantsAssumption
    <3> QED BY <3>1, <3>2
  <2> QED
    BY <2>3, <2>4, StepShrinksRunning
<1> QED
  BY <1>1, <1>2, InvHolds, PTL DEF Spec

-----------------------------------------------------------------------------
(* The lifecycle *)

\* A released run was running, and loses its attempt as RunLifecycle says.
LEMMA ReleaseLoses ==
  ASSUME Inv, NEW S \in SUBSET Jobs, \A j \in S : status[j] = "running", release(S)
  PROVE  \A j \in Jobs : Lifecycle!Lose(j) \/ Lifecycle!Stay(j)
  BY ConstantsAssumption
  DEF release, parked, Inv, TypeOK, Lifecycle!Lose, Lifecycle!Stay

\* Every step of the queue is a step of RunLifecycle or leaves the runs alone.
LEMMA StepImplementsLifecycle ==
  ASSUME Inv, [Next]_vars
  PROVE  [Lifecycle!Next]_<<status, attempts>>
<1> DEFINE Goal == [Lifecycle!Next]_<<status, attempts>>
<1> USE ConstantsAssumption
<1>1. ASSUME NEW S \in SUBSET Jobs, \A j \in S : status[j] = "running", release(S) PROVE Goal
  BY <1>1, ReleaseLoses DEF Lifecycle!Next
<1>2. ASSUME NEW j \in Jobs, enqueue(j) PROVE Goal
  <2>1. Lifecycle!Submit(j) /\ \A k \in Jobs \ {j} : Lifecycle!Stay(k)
    BY <1>2 DEF enqueue, Inv, TypeOK, Lifecycle!Submit, Lifecycle!Stay
  <2> QED BY <2>1 DEF Lifecycle!Next
<1>3. expire => Goal
  <2> SUFFICES ASSUME expire PROVE Goal
    OBVIOUS
  <2>1. Spent \in SUBSET Jobs /\ (\A j \in Spent : status[j] = "running") /\ release(Spent)
    BY DEF Spent, expire
  <2> QED BY <2>1, <1>1
<1>4. ASSUME NEW s \in Slots, NEW j \in Jobs, NEW b \in BOOLEAN, Claim(s, j, b) PROVE Goal
  <2>1. status[j] = "pending" /\ attempts[j] < MaxAttempts
    BY <1>4 DEF Claim, pick_job, eligible, Inv, AttemptsSpent
  <2>2. Lifecycle!Start(j) /\ \A k \in Jobs \ {j} : Lifecycle!Stay(k)
    BY <1>4, <2>1 DEF Claim, Inv, TypeOK, Lifecycle!Start, Lifecycle!Stay
  <2> QED BY <2>2 DEF Lifecycle!Next
<1>5. ASSUME NEW s \in Slots, Report(s) PROVE Goal
  <2> DEFINE j == mail[s].job
  <2>1. mail[s] \in Reports /\ j \in Jobs
    BY <1>5 DEF Report, Inv, TypeOK, Reports
  <2>2. CASE ~holds_lease(j, DeviceOf[s])
    BY <1>5, <2>2 DEF Report, rows
  <2>3. CASE holds_lease(j, DeviceOf[s]) /\ mail[s].outcome = "error"
    <3>1. {j} \in SUBSET Jobs /\ (\A i \in {j} : status[i] = "running") /\ release({j})
      BY <1>5, <2>1, <2>3 DEF Report, settle, holds_lease
    <3> QED BY <3>1, <1>1
  <2>4. CASE holds_lease(j, DeviceOf[s]) /\ mail[s].outcome # "error"
    <3>1. mail[s].outcome \in Lifecycle!Verdicts
      BY <2>1, <2>4 DEF Reports, Lifecycle!Verdicts
    <3>2. status[j] = "running" /\ status' = [status EXCEPT ![j] = mail[s].outcome]
                                /\ attempts' = attempts
      BY <1>5, <2>4 DEF Report, settle, holds_lease
    <3>3. Lifecycle!Conclude(j) /\ \A k \in Jobs \ {j} : Lifecycle!Stay(k)
      BY <2>1, <3>1, <3>2 DEF Inv, TypeOK, Lifecycle!Conclude, Lifecycle!Stay
    <3> QED BY <3>3, <2>1 DEF Lifecycle!Next
  <2> QED BY <2>2, <2>3, <2>4
<1>6. ASSUME NEW s \in Slots,
             \/ ClaimNothing(s) \/ Renew(s) \/ RenewalsFail(s) \/ Abandon(s)
             \/ ReportTimesOut(s) \/ ReportLost(s)
             \/ \E o \in Outcomes : SendReport(s, o)
      PROVE  Goal
  BY <1>6 DEF ClaimNothing, Renew, RenewalsFail, Abandon, ReportTimesOut, ReportLost,
              SendReport, rows
<1>7. ASSUME NEW d \in Devices, record_heartbeat(d) \/ AgentCrash(d) PROVE Goal
  BY <1>7 DEF record_heartbeat, AgentCrash, rows
<1>8. CASE Tick \/ UNCHANGED vars
  BY <1>8 DEF Tick, vars, rows
<1>9. CASE reclaim_tick
  BY <1>3, <1>9 DEF reclaim_tick
<1>10. ASSUME NEW s \in Slots, ClaimReleases(s) PROVE Goal
  BY <1>3, <1>10 DEF ClaimReleases
<1> QED
  BY <1>2, <1>4, <1>5, <1>6, <1>7, <1>8, <1>9, <1>10 DEF Next, SlotStep

\* The queue with its leases, clocks, requests and crashes implements RunLifecycle:
\* a run is submitted once, started at most MaxAttempts times, and a verdict or a
\* parking is never undone.
THEOREM LifecycleImplemented == Spec => ImplementsLifecycle
<1>1. Init => Lifecycle!Init
  BY DEF Init, Lifecycle!Init
<1>2. Inv /\ [Next]_vars => [Lifecycle!Next]_<<status, attempts>>
  BY StepImplementsLifecycle
<1> QED
  BY <1>1, <1>2, InvHolds, PTL DEF Spec, ImplementsLifecycle, Lifecycle!Spec

-----------------------------------------------------------------------------
(* Reports and leases *)

\* A lease in its term, or in the grace of a device that is present, is taken away
\* by no reclaim and no claim: only its own device's report ends it.
THEOREM LateHolderKeepsRunHolds == Spec => LateHolderKeepsRun
<1>1. Inv /\ [Next]_vars => TakesOnlySpentLeases
  <2> SUFFICES ASSUME Inv, [Next]_vars, NEW j \in Jobs,
                      status[j] = "running", status'[j] \in {"pending", "dead"},
                      lease[j] >= 0 \/ (lease[j] >= -Grace /\ silence[device[j]] <= Grace)
               PROVE  \E s \in Slots : handled(s) /\ mail[s].job = j /\ DeviceOf[s] = device[j]
    BY DEF TakesOnlySpentLeases
  <2>1. j \notin Spent
    BY ConstantsAssumption DEF Spent, spent_lease, Present, Inv, TypeOK, LeaseIsAuthority
  <2>2. ~expire
    BY <2>1 DEF expire, release
  <2>3. status' # status
    OBVIOUS
  <2>4. ASSUME NEW i \in Jobs, enqueue(i) PROVE FALSE
    BY <2>4 DEF enqueue, Inv, TypeOK
  <2>5. ASSUME NEW s \in Slots, NEW i \in Jobs, NEW b \in BOOLEAN, Claim(s, i, b) PROVE FALSE
    BY <2>5 DEF Claim, Inv, TypeOK
  <2>6. PICK s \in Slots : Report(s)
    BY <2>2, <2>3, <2>4, <2>5
    DEF Next, SlotStep, ClaimNothing, Renew, RenewalsFail, Abandon, ReportTimesOut,
        ReportLost, SendReport, record_heartbeat, AgentCrash, Tick, reclaim_tick,
        ClaimReleases, vars, rows
  <2>7. handled(s)
    BY <2>6 DEF handled, Report, Inv, TypeOK
  <2>8. holds_lease(mail[s].job, DeviceOf[s])
    BY <2>3, <2>6 DEF Report, rows
  <2>9. mail[s].job = j
    BY <2>6, <2>8 DEF Report, settle, release, Inv, TypeOK
  <2> QED
    BY <2>7, <2>8, <2>9 DEF holds_lease
<1> QED
  BY <1>1, InvHolds, PTL DEF Spec, LateHolderKeepsRun

\* A report of a device that does not hold the run changes no run, however late it
\* is handled.
THEOREM ForeignAttemptRefusedHolds == Spec => ForeignAttemptRefused
<1>1. Inv /\ [Next]_vars => RefusesForeignReports
  <2> SUFFICES ASSUME Inv, [Next]_vars, NEW s \in Slots, mail[s] # None, mail'[s] = None,
                      device[mail[s].job] # DeviceOf[s]
               PROVE  status' = status
    BY DEF RefusesForeignReports, handled
  <2>1. mail' # mail
    OBVIOUS
  <2>2. ASSUME NEW t \in Slots, NEW o \in Outcomes, SendReport(t, o) PROVE FALSE
    BY <2>2, ConstantsAssumption DEF SendReport, Inv, TypeOK
  <2>3. PICK t \in Slots : ReportLost(t) \/ Report(t)
    BY <2>1, <2>2
    DEF Next, SlotStep, enqueue, ClaimNothing, Renew, RenewalsFail, Abandon, ReportTimesOut,
        Claim, record_heartbeat, AgentCrash, Tick, reclaim_tick, ClaimReleases, vars
  <2>4. t = s
    BY <2>3 DEF ReportLost, Report, Inv, TypeOK
  <2> QED
    BY <2>3, <2>4 DEF ReportLost, Report, holds_lease, rows
<1> QED
  BY <1>1, InvHolds, PTL DEF Spec, ForeignAttemptRefused
=============================================================================
