------------------------ MODULE VerdictLedgerProofs -------------------------
(***************************************************************************)
(* Proofs about VerdictLedger for every set of runs, devices, claim and    *)
(* report requests, and every bound on refusals, deliveries and restarts.  *)
(***************************************************************************)
EXTENDS VerdictLedger, TLAPS

Final == {"success", "failure"}

\* No number in hand, and none that was posted, is ahead of the row's.
NumbersBehindRow ==
  /\ \A j \in Jobs : posted[j] <= seq[j]
  /\ \A w \in Drains : \A i \in batch[w] : i.seq <= seq[i.job]
  /\ \A w \in Drains : dpc[w] \in {"posting", "checking"} =>
       item[w] \in Items /\ item[w].seq <= seq[item[w].job]

\* What is owed or in hand for a run that passed or failed says so, if it is current.
OwedVerdictsFaithful ==
  /\ \A j \in Jobs : status[j] \in Final /\ owed[j] # None => owed[j] = status[j]
  /\ \A w \in Drains : \A i \in batch[w] :
       status[i.job] \in Final /\ i.seq = seq[i.job] => i.state = status[i.job]
  /\ \A w \in Drains : dpc[w] \in {"posting", "checking"} =>
       (status[item[w].job] \in Final /\ item[w].seq = seq[item[w].job]
          => item[w].state = status[item[w].job])

\* A request that settled a run has its verdict still to post.
ReportsFaithful ==
  /\ \A r \in Reporters : rpc[r] # "idle" =>
       rjob[r] \in Jobs /\ rout[r] \in {"success", "failure", "error"}
  /\ \A r \in Reporters : rpc[r] = "settled" =>
       /\ posted[rjob[r]] < seq[rjob[r]]
       /\ rout[r] = "error" => status[rjob[r]] \notin Final
       /\ rout[r] # "error" => status[rjob[r]] = rout[r]

\* The inductive invariant.  That the last verdict posted of a settled run is its own
\* depends on every verdict under way: those still current say the same (Faithful),
\* those that are not can only be behind (NumbersBehindRow), and the lock keeps the
\* number still between the check and the post (PostsUnderLock).
LInv == /\ TypeOK /\ PostsUnderLock /\ NumbersBehindRow
        /\ OwedVerdictsFaithful /\ ReportsFaithful /\ SettledRunsToldTheirVerdict

\* Every action keeps the invariant: one step per action, one leaf per conjunct.
LEMMA LInvInductive ==
  ASSUME LInv, [Next]_vars
  PROVE  LInv'
<1> USE LedgerAssumption DEF Final
<1>1. ASSUME NEW j \in Jobs, Enqueue(j) PROVE LInv'
  <2>1. TypeOK'
    BY <1>1 DEF Enqueue, drains, reports, seen, LInv, TypeOK
  <2>2. PostsUnderLock'
    BY <1>1 DEF Enqueue, drains, reports, seen, LInv, PostsUnderLock
  <2>3. NumbersBehindRow'
    BY <1>1 DEF Enqueue, drains, reports, seen, LInv, NumbersBehindRow
  <2>4. OwedVerdictsFaithful'
    BY <1>1 DEF Enqueue, drains, reports, seen, LInv, OwedVerdictsFaithful
  <2>5. ReportsFaithful'
    BY <1>1 DEF Enqueue, drains, reports, seen, LInv, ReportsFaithful
  <2>6. SettledRunsToldTheirVerdict'
    BY <1>1 DEF Enqueue, drains, reports, seen, LInv, SettledRunsToldTheirVerdict
  <2> QED BY <2>1, <2>2, <2>3, <2>4, <2>5, <2>6 DEF LInv
<1>2. ASSUME NEW j \in Jobs, NEW o \in Outcome, PostQueued(j, o) PROVE LInv'
  <2>1. TypeOK'
    BY <1>2 DEF PostQueued, may_fail, rows, drains, reports, LInv, TypeOK, States, Items
  <2>2. PostsUnderLock'
    BY <1>2 DEF PostQueued, may_fail, rows, drains, reports, LInv, PostsUnderLock
  <2>3. NumbersBehindRow'
    BY <1>2 DEF PostQueued, may_fail, rows, drains, reports, LInv, NumbersBehindRow
  <2>4. OwedVerdictsFaithful'
    BY <1>2 DEF PostQueued, may_fail, rows, drains, reports, LInv, OwedVerdictsFaithful
  <2>5. ReportsFaithful'
    BY <1>2 DEF PostQueued, may_fail, rows, drains, reports, LInv, ReportsFaithful
  <2>6. SettledRunsToldTheirVerdict'
    BY <1>2 DEF PostQueued, may_fail, rows, drains, reports, LInv,
       SettledRunsToldTheirVerdict
  <2> QED BY <2>1, <2>2, <2>3, <2>4, <2>5, <2>6 DEF LInv
<1>3. ASSUME NEW j \in Jobs, NEW d \in Devices, Claim(j, d) PROVE LInv'
  <2>1. TypeOK'
    BY <1>3 DEF Claim, drains, reports, seen, LInv, TypeOK
  <2>2. PostsUnderLock'
    BY <1>3 DEF Claim, drains, reports, seen, LInv, PostsUnderLock
  <2>3. NumbersBehindRow'
    BY <1>3 DEF Claim, drains, reports, seen, LInv, NumbersBehindRow
  <2>4. OwedVerdictsFaithful'
    BY <1>3 DEF Claim, drains, reports, seen, LInv, OwedVerdictsFaithful
  <2>5. ReportsFaithful'
    BY <1>3 DEF Claim, drains, reports, seen, LInv, ReportsFaithful
  <2>6. SettledRunsToldTheirVerdict'
    BY <1>3 DEF Claim, drains, reports, seen, LInv, SettledRunsToldTheirVerdict
  <2> QED BY <2>1, <2>2, <2>3, <2>4, <2>5, <2>6 DEF LInv
<1>4. ASSUME NEW w \in Drains, NEW S \in SUBSET Jobs, ReleaseExpired(w, S) PROVE LInv'
  <2>1. TypeOK'
    BY <1>4 DEF ReleaseExpired, lost_description, parked, reports, seen, LInv, TypeOK,
       States, Items
  <2>2. PostsUnderLock'
    BY <1>4 DEF ReleaseExpired, lost_description, parked, reports, seen, LInv,
       PostsUnderLock
  <2>3. NumbersBehindRow'
    BY <1>4 DEF ReleaseExpired, lost_description, parked, reports, seen, LInv,
       NumbersBehindRow, TypeOK, Items
  <2>4. OwedVerdictsFaithful'
    BY <1>4 DEF ReleaseExpired, lost_description, parked, reports, seen, LInv,
       OwedVerdictsFaithful, TypeOK, PostsUnderLock, NumbersBehindRow, ReportsFaithful,
       Items, States
  <2>5. ReportsFaithful'
    BY <1>4 DEF ReleaseExpired, lost_description, parked, reports, seen, LInv,
       ReportsFaithful, TypeOK
  <2>6. SettledRunsToldTheirVerdict'
    BY <1>4 DEF ReleaseExpired, lost_description, parked, reports, seen, LInv,
       SettledRunsToldTheirVerdict
  <2> QED BY <2>1, <2>2, <2>3, <2>4, <2>5, <2>6 DEF LInv
<1>5. ASSUME NEW w \in Drains, TakeOwed(w) PROVE LInv'
  <2>1. TypeOK'
    BY <1>5 DEF TakeOwed, Owing, reports, seen, LInv, TypeOK, States, Items
  <2>2. PostsUnderLock'
    BY <1>5 DEF TakeOwed, Owing, reports, seen, LInv, PostsUnderLock
  <2>3. NumbersBehindRow'
    BY <1>5 DEF TakeOwed, Owing, reports, seen, LInv, NumbersBehindRow, TypeOK
  <2>4. OwedVerdictsFaithful'
    BY <1>5 DEF TakeOwed, Owing, reports, seen, LInv, OwedVerdictsFaithful
  <2>5. ReportsFaithful'
    BY <1>5 DEF TakeOwed, Owing, reports, seen, LInv, ReportsFaithful
  <2>6. SettledRunsToldTheirVerdict'
    BY <1>5 DEF TakeOwed, Owing, reports, seen, LInv, SettledRunsToldTheirVerdict, TypeOK,
       PostsUnderLock, ReportsFaithful, Items
  <2> QED BY <2>1, <2>2, <2>3, <2>4, <2>5, <2>6 DEF LInv
<1>6. ASSUME NEW w \in Drains, NEW i \in batch[w], PostBegins(w, i) PROVE LInv'
  <2>1. TypeOK'
    BY <1>6 DEF PostBegins, rows, reports, seen, LInv, TypeOK
  <2>2. PostsUnderLock'
    BY <1>6 DEF PostBegins, rows, reports, seen, LInv, PostsUnderLock, TypeOK
  <2>3. NumbersBehindRow'
    BY <1>6 DEF PostBegins, rows, reports, seen, LInv, NumbersBehindRow, TypeOK
  <2>4. OwedVerdictsFaithful'
    BY <1>6 DEF PostBegins, rows, reports, seen, LInv, OwedVerdictsFaithful, TypeOK
  <2>5. ReportsFaithful'
    BY <1>6 DEF PostBegins, rows, reports, seen, LInv, ReportsFaithful
  <2>6. SettledRunsToldTheirVerdict'
    BY <1>6 DEF PostBegins, rows, reports, seen, LInv, SettledRunsToldTheirVerdict
  <2> QED BY <2>1, <2>2, <2>3, <2>4, <2>5, <2>6 DEF LInv
<1>7. ASSUME NEW w \in Drains, NEW o \in Outcome, PostEnds(w, o) PROVE LInv'
  <2>1. TypeOK'
    <3>1. item[w] \in Items
      BY <1>7 DEF PostEnds, LInv, NumbersBehindRow
    <3>2. item[w].job \in Jobs /\ item[w].state \in States /\ item[w].seq \in Nat
      BY <3>1 DEF Items
    <3>3. /\ commit' \in [Jobs -> States \cup {None}] /\ posted' \in [Jobs -> Nat]
          /\ told' \in [Jobs -> States \cup {None}] /\ dropped' \in [Jobs -> Nat]
      BY <1>7, <3>2 DEF PostEnds, shows, seen, LInv, TypeOK
    <3>4. owed' \in [Jobs -> States \cup {None}]
      BY <1>7, <3>2 DEF PostEnds, restore_status, LInv, TypeOK
    <3>5. refusals' \in Nat
      BY <1>7 DEF PostEnds, may_fail, LInv, TypeOK
    <3>6. dpc' \in [Drains -> {"idle", "released", "draining", "posting", "checking"}]
      BY <1>7 DEF PostEnds, LInv, TypeOK
    <3> QED BY <1>7, <3>3, <3>4, <3>5, <3>6 DEF PostEnds, LInv, TypeOK, reports
  <2>2. PostsUnderLock'
    BY <1>7 DEF PostEnds, may_fail, shows, restore_status, lands, answered, reports, seen,
       LInv, PostsUnderLock, TypeOK
  <2>3. NumbersBehindRow'
    BY <1>7 DEF PostEnds, may_fail, shows, restore_status, lands, answered, reports, seen,
       LInv, NumbersBehindRow, TypeOK
  <2>4. OwedVerdictsFaithful'
    BY <1>7 DEF PostEnds, may_fail, shows, restore_status, lands, answered, reports, seen,
       LInv, OwedVerdictsFaithful, TypeOK
  <2>5. ReportsFaithful'
    BY <1>7 DEF PostEnds, may_fail, shows, restore_status, lands, answered, reports, seen,
       LInv, ReportsFaithful, TypeOK, PostsUnderLock, Items
  <2>6. SettledRunsToldTheirVerdict'
    BY <1>7 DEF PostEnds, may_fail, shows, restore_status, lands, answered, reports, seen,
       LInv, SettledRunsToldTheirVerdict, TypeOK, PostsUnderLock, NumbersBehindRow,
       OwedVerdictsFaithful, ReportsFaithful, Items, States
  <2> QED BY <2>1, <2>2, <2>3, <2>4, <2>5, <2>6 DEF LInv
<1>8. ASSUME NEW w \in Drains, NEW o \in Outcome, CheckEnds(w, o) PROVE LInv'
  <2>1. TypeOK'
    BY <1>8 DEF CheckEnds, may_fail, restore_status, answered, reports, seen, LInv, TypeOK,
       NumbersBehindRow, Drains, States, Items
  <2>2. PostsUnderLock'
    BY <1>8 DEF CheckEnds, may_fail, restore_status, answered, reports, seen, LInv,
       PostsUnderLock
  <2>3. NumbersBehindRow'
    BY <1>8 DEF CheckEnds, may_fail, restore_status, answered, reports, seen, LInv,
       NumbersBehindRow
  <2>4. OwedVerdictsFaithful'
    BY <1>8 DEF CheckEnds, may_fail, restore_status, answered, reports, seen, LInv,
       OwedVerdictsFaithful, TypeOK
  <2>5. ReportsFaithful'
    BY <1>8 DEF CheckEnds, may_fail, restore_status, answered, reports, seen, LInv,
       ReportsFaithful
  <2>6. SettledRunsToldTheirVerdict'
    BY <1>8 DEF CheckEnds, may_fail, restore_status, answered, reports, seen, LInv,
       SettledRunsToldTheirVerdict
  <2> QED BY <2>1, <2>2, <2>3, <2>4, <2>5, <2>6 DEF LInv
<1>9. ASSUME NEW w \in Drains, DrainEnds(w) PROVE LInv'
  <2>1. TypeOK'
    BY <1>9 DEF DrainEnds, rows, reports, seen, LInv, TypeOK
  <2>2. PostsUnderLock'
    BY <1>9 DEF DrainEnds, rows, reports, seen, LInv, PostsUnderLock
  <2>3. NumbersBehindRow'
    BY <1>9 DEF DrainEnds, rows, reports, seen, LInv, NumbersBehindRow
  <2>4. OwedVerdictsFaithful'
    BY <1>9 DEF DrainEnds, rows, reports, seen, LInv, OwedVerdictsFaithful
  <2>5. ReportsFaithful'
    BY <1>9 DEF DrainEnds, rows, reports, seen, LInv, ReportsFaithful
  <2>6. SettledRunsToldTheirVerdict'
    BY <1>9 DEF DrainEnds, rows, reports, seen, LInv, SettledRunsToldTheirVerdict
  <2> QED BY <2>1, <2>2, <2>3, <2>4, <2>5, <2>6 DEF LInv
<1>10. ASSUME NEW r \in Reporters, NEW j \in Jobs, NEW d \in Devices,
             NEW out \in {"success", "failure", "error"}, ReportReads(r, j, d, out)
      PROVE  LInv'
  <2>1. TypeOK'
    BY <1>10 DEF ReportReads, rows, drains, seen, LInv, TypeOK
  <2>2. PostsUnderLock'
    BY <1>10 DEF ReportReads, rows, drains, seen, LInv, PostsUnderLock
  <2>3. NumbersBehindRow'
    BY <1>10 DEF ReportReads, rows, drains, seen, LInv, NumbersBehindRow
  <2>4. OwedVerdictsFaithful'
    BY <1>10 DEF ReportReads, rows, drains, seen, LInv, OwedVerdictsFaithful
  <2>5. ReportsFaithful'
    BY <1>10 DEF ReportReads, rows, drains, seen, LInv, ReportsFaithful, TypeOK
  <2>6. SettledRunsToldTheirVerdict'
    BY <1>10 DEF ReportReads, rows, drains, seen, LInv, SettledRunsToldTheirVerdict
  <2> QED BY <2>1, <2>2, <2>3, <2>4, <2>5, <2>6 DEF LInv
<1>11. ASSUME NEW r \in Reporters, ReportSettles(r) PROVE LInv'
  <2>1. TypeOK'
    BY <1>11 DEF ReportSettles, parked, drains, seen, LInv, TypeOK, ReportsFaithful, Drains,
       States, Items
  <2>2. PostsUnderLock'
    BY <1>11 DEF ReportSettles, parked, drains, seen, LInv, PostsUnderLock, TypeOK,
       ReportsFaithful, Items
  <2>3. NumbersBehindRow'
    BY <1>11 DEF ReportSettles, parked, drains, seen, LInv, NumbersBehindRow, TypeOK, Items
  <2>4. OwedVerdictsFaithful'
    BY <1>11 DEF ReportSettles, parked, drains, seen, LInv, OwedVerdictsFaithful, TypeOK,
       PostsUnderLock, NumbersBehindRow, ReportsFaithful, Items, States
  <2>5. ReportsFaithful'
    BY <1>11 DEF ReportSettles, parked, drains, seen, LInv, ReportsFaithful, TypeOK,
       PostsUnderLock, NumbersBehindRow, Items, States
  <2>6. SettledRunsToldTheirVerdict'
    BY <1>11 DEF ReportSettles, parked, drains, seen, LInv, SettledRunsToldTheirVerdict,
       TypeOK, PostsUnderLock, NumbersBehindRow, OwedVerdictsFaithful, ReportsFaithful,
       Items, States
  <2> QED BY <2>1, <2>2, <2>3, <2>4, <2>5, <2>6 DEF LInv
<1>12. ASSUME NEW r \in Reporters, ReportRefused(r) PROVE LInv'
  <2>1. TypeOK'
    BY <1>12 DEF ReportRefused, forget, rows, drains, seen, LInv, TypeOK
  <2>2. PostsUnderLock'
    BY <1>12 DEF ReportRefused, forget, rows, drains, seen, LInv, PostsUnderLock
  <2>3. NumbersBehindRow'
    BY <1>12 DEF ReportRefused, forget, rows, drains, seen, LInv, NumbersBehindRow
  <2>4. OwedVerdictsFaithful'
    BY <1>12 DEF ReportRefused, forget, rows, drains, seen, LInv, OwedVerdictsFaithful
  <2>5. ReportsFaithful'
    BY <1>12 DEF ReportRefused, forget, rows, drains, seen, LInv, ReportsFaithful, TypeOK
  <2>6. SettledRunsToldTheirVerdict'
    BY <1>12 DEF ReportRefused, forget, rows, drains, seen, LInv,
       SettledRunsToldTheirVerdict
  <2> QED BY <2>1, <2>2, <2>3, <2>4, <2>5, <2>6 DEF LInv
<1>13. ASSUME NEW r \in Reporters, NEW o \in Outcome, ReportPosts(r, o) PROVE LInv'
  <2>1. TypeOK'
    <3>1. rjob[r] \in Jobs /\ rout[r] \in {"success", "failure", "error"}
      BY <1>13 DEF ReportPosts, LInv, ReportsFaithful
    <3>2. description(r) \in States
      BY <3>1 DEF description, lost_description, States
    <3>3. /\ commit' \in [Jobs -> States \cup {None}] /\ posted' \in [Jobs -> Nat]
          /\ told' \in [Jobs -> States \cup {None}] /\ dropped' \in [Jobs -> Nat]
      BY <1>13, <3>1, <3>2 DEF ReportPosts, shows, seen, LInv, TypeOK
    <3>4. owed' \in [Jobs -> States \cup {None}] /\ seq' \in [Jobs -> Nat]
      BY <1>13, <3>1, <3>2 DEF ReportPosts, LInv, TypeOK
    <3>5. refusals' \in Nat
      BY <1>13 DEF ReportPosts, may_fail, LInv, TypeOK
    <3>6. /\ rpc' \in [Reporters -> {"idle", "read", "settled"}]
          /\ rjob' \in [Reporters -> Jobs \cup {None}]
          /\ rdev' \in [Reporters -> Devices \cup {None}]
          /\ rseen' \in [Reporters -> Nat]
          /\ rout' \in [Reporters -> {"success", "failure", "error", None}]
      BY <1>13 DEF ReportPosts, forget, LInv, TypeOK
    <3> QED BY <1>13, <3>3, <3>4, <3>5, <3>6 DEF ReportPosts, LInv, TypeOK, drains
  <2>2. PostsUnderLock'
    BY <1>13 DEF ReportPosts, may_fail, shows, lands, answered, forget, description,
       lost_description, parked, drains, seen, LInv, PostsUnderLock, TypeOK
  <2>3. NumbersBehindRow'
    <3>1. rjob[r] \in Jobs /\ posted[rjob[r]] < seq[rjob[r]]
      BY <1>13 DEF ReportPosts, LInv, ReportsFaithful
    <3>2. \A j \in Jobs : /\ posted'[j] = posted[j] \/ posted'[j] = seq[j]
                          /\ seq[j] <= seq'[j] /\ seq'[j] \in Nat
      BY <1>13, <3>1 DEF ReportPosts, shows, seen, LInv, TypeOK
    <3>3. \A j \in Jobs : posted'[j] <= seq'[j]
      BY <3>2 DEF LInv, TypeOK, NumbersBehindRow
    <3>4. batch' = batch /\ item' = item /\ dpc' = dpc
      BY <1>13 DEF ReportPosts, drains
    <3>5. \A v \in Drains : \A i \in batch[v] : i.job \in Jobs /\ i.seq \in Nat
      BY DEF LInv, TypeOK, Items
    <3> QED BY <3>2, <3>3, <3>4, <3>5 DEF LInv, TypeOK, NumbersBehindRow, Items
  <2>4. OwedVerdictsFaithful'
    <3>1. rjob[r] \in Jobs /\ (status[rjob[r]] \in Final => description(r) = status[rjob[r]])
      BY <1>13 DEF ReportPosts, description, LInv, ReportsFaithful
    <3>2. status' = status /\ batch' = batch /\ item' = item /\ dpc' = dpc
      BY <1>13 DEF ReportPosts, drains
    <3>3. CASE owed' = owed /\ seq' = seq
      BY <3>2, <3>3 DEF LInv, OwedVerdictsFaithful
    <3>4. CASE /\ owed' = [owed EXCEPT ![rjob[r]] = description(r)]
               /\ seq' = [seq EXCEPT ![rjob[r]] = @ + 1]
      <4>1. \A k \in Jobs : status[k] \in Final /\ owed'[k] # None => owed'[k] = status[k]
        BY <3>1, <3>4 DEF LInv, TypeOK, OwedVerdictsFaithful
      <4>2. \A k \in Jobs, n \in Nat : n <= seq[k] /\ n = seq'[k] => n = seq[k]
        BY <3>1, <3>4 DEF LInv, TypeOK
      <4> QED
        BY <3>2, <4>1, <4>2 DEF LInv, TypeOK, OwedVerdictsFaithful, NumbersBehindRow, Items
    <3> QED BY <1>13, <3>3, <3>4 DEF ReportPosts
  <2>5. ReportsFaithful'
    BY <1>13 DEF ReportPosts, may_fail, shows, lands, answered, forget, description,
       lost_description, parked, drains, seen, LInv, ReportsFaithful, TypeOK,
       PostsUnderLock, Items
  <2>6. SettledRunsToldTheirVerdict'
    BY <1>13 DEF ReportPosts, may_fail, shows, lands, answered, forget, description,
       lost_description, parked, drains, seen, LInv, SettledRunsToldTheirVerdict, TypeOK,
       PostsUnderLock, ReportsFaithful, Items
  <2> QED BY <2>1, <2>2, <2>3, <2>4, <2>5, <2>6 DEF LInv
<1>14. CASE Crash
  <2>1. TypeOK'
    BY <1>14 DEF Crash, rows, LInv, TypeOK
  <2>2. PostsUnderLock'
    BY <1>14 DEF Crash, rows, LInv, PostsUnderLock
  <2>3. NumbersBehindRow'
    BY <1>14 DEF Crash, rows, LInv, NumbersBehindRow
  <2>4. OwedVerdictsFaithful'
    BY <1>14 DEF Crash, rows, LInv, OwedVerdictsFaithful
  <2>5. ReportsFaithful'
    BY <1>14 DEF Crash, rows, LInv, ReportsFaithful
  <2>6. SettledRunsToldTheirVerdict'
    BY <1>14 DEF Crash, rows, LInv, SettledRunsToldTheirVerdict
  <2> QED BY <2>1, <2>2, <2>3, <2>4, <2>5, <2>6 DEF LInv
<1>15. ASSUME NEW r \in Reporters, NEW landed \in BOOLEAN, ReportRaises(r, landed) PROVE LInv'
  <2>0. /\ rjob[r] \in Jobs /\ description(r) \in States
        /\ status[rjob[r]] \in Final => description(r) = status[rjob[r]]
    BY <1>15 DEF ReportRaises, description, lost_description, LInv, ReportsFaithful, States
  <2>1. TypeOK'
    <3>1. commit' \in [Jobs -> States \cup {None}] /\ told' \in [Jobs -> States \cup {None}]
      BY <1>15, <2>0 DEF ReportRaises, shows, LInv, TypeOK
    <3>2. posted' \in [Jobs -> Nat] /\ dropped' \in [Jobs -> Nat]
      BY <1>15, <2>0 DEF ReportRaises, shows, LInv, TypeOK
    <3>3. /\ rpc' \in [Reporters -> {"idle", "read", "settled"}]
          /\ rjob' \in [Reporters -> Jobs \cup {None}]
          /\ rdev' \in [Reporters -> Devices \cup {None}]
          /\ rseen' \in [Reporters -> Nat]
          /\ rout' \in [Reporters -> {"success", "failure", "error", None}]
      BY <1>15 DEF ReportRaises, forget, LInv, TypeOK
    <3> QED BY <1>15, <3>1, <3>2, <3>3 DEF ReportRaises, LInv, TypeOK, drains, rows
  <2>2. PostsUnderLock'
    BY <1>15 DEF ReportRaises, forget, rows, drains, LInv, PostsUnderLock, TypeOK
  <2>3. NumbersBehindRow'
    <3>1. \A j \in Jobs : posted'[j] = posted[j] \/ posted'[j] = seq[j]
      BY <1>15, <2>0 DEF ReportRaises, shows, LInv, TypeOK
    <3> QED BY <1>15, <3>1 DEF ReportRaises, rows, drains, LInv, TypeOK, NumbersBehindRow
  <2>4. OwedVerdictsFaithful'
    BY <1>15 DEF ReportRaises, rows, drains, LInv, OwedVerdictsFaithful
  <2>5. ReportsFaithful'
    BY <1>15 DEF ReportRaises, forget, shows, rows, LInv, ReportsFaithful, TypeOK, PostsUnderLock
  <2>6. SettledRunsToldTheirVerdict'
    BY <1>15, <2>0 DEF ReportRaises, shows, rows, LInv, SettledRunsToldTheirVerdict, TypeOK
  <2> QED BY <2>1, <2>2, <2>3, <2>4, <2>5, <2>6 DEF LInv
<1>16. ASSUME NEW w \in Drains, RestoreFails(w) PROVE LInv'
  <2>0. item[w].job \in Jobs /\ item[w].seq \in Nat
    BY <1>16 DEF RestoreFails, LInv, PostsUnderLock, Items
  <2>1. TypeOK'
    BY <1>16, <2>0 DEF RestoreFails, rows, reports, LInv, TypeOK
  <2>2. PostsUnderLock'
    BY <1>16 DEF RestoreFails, rows, reports, LInv, PostsUnderLock, TypeOK
  <2>3. NumbersBehindRow'
    BY <1>16 DEF RestoreFails, rows, LInv, NumbersBehindRow, TypeOK
  <2>4. OwedVerdictsFaithful'
    BY <1>16 DEF RestoreFails, rows, LInv, OwedVerdictsFaithful, TypeOK
  <2>5. ReportsFaithful'
    BY <1>16 DEF RestoreFails, rows, reports, LInv, ReportsFaithful
  <2>6. SettledRunsToldTheirVerdict'
    BY <1>16 DEF RestoreFails, rows, LInv, SettledRunsToldTheirVerdict
  <2> QED BY <2>1, <2>2, <2>3, <2>4, <2>5, <2>6 DEF LInv
<1>17. CASE UNCHANGED vars
  BY <1>17 DEF vars, rows, drains, reports, seen, LInv, TypeOK, PostsUnderLock, NumbersBehindRow,
               OwedVerdictsFaithful, ReportsFaithful, SettledRunsToldTheirVerdict, Items
<1> QED
  BY <1>1, <1>2, <1>3, <1>4, <1>5, <1>6, <1>7, <1>8, <1>9, <1>10, <1>11, <1>12, <1>13, <1>14, <1>15,
     <1>16, <1>17
     DEF Next, DrainStep, ReportStep

-----------------------------------------------------------------------------
(* Order and fidelity of what is posted *)

\* An empty queue, with nothing in hand, satisfies the invariant.
LEMMA LInvInit == Init => LInv
  BY LedgerAssumption DEF Init, LInv, TypeOK, PostsUnderLock, NumbersBehindRow,
     OwedVerdictsFaithful, ReportsFaithful, SettledRunsToldTheirVerdict, States, Drains, Final

\* The invariant holds in every state the ledger reaches, type correctness with it:
\* whatever the number of drains, reports, refusals and restarts.
THEOREM LInvHolds == Spec => []LInv
<1> QED BY LInvInit, LInvInductive, PTL DEF Spec

\* Rows, drains and reports keep their types (jobs.py, status_ledger.py).
THEOREM TypeOKHolds == Spec => []TypeOK
<1>1. LInv => TypeOK
  BY DEF LInv
<1> QED BY <1>1, LInvHolds, PTL

\* Nothing moves a run's number between the check and the post: whoever posts a
\* verdict holds status_lock and posts the latest (jobs.py status_lock, post_if_current).
THEOREM PostsUnderLockHolds == Spec => []PostsUnderLock
<1>1. LInv => PostsUnderLock
  BY DEF LInv
<1> QED BY <1>1, LInvHolds, PTL

\* A run that passed or failed was last told so: no drain of an earlier loss posts on
\* top of it (lease_reclaim.py post_if_current, verdicts.py settle).
THEOREM SettledRunsToldTheirVerdictHolds == Spec => []SettledRunsToldTheirVerdict
<1>1. LInv => SettledRunsToldTheirVerdict
  BY DEF LInv
<1> QED BY <1>1, LInvHolds, PTL

\* Only the three post actions show a verdict, and each shows the run's latest.
LEMMA StepPostsTheLatest ==
  ASSUME LInv, [Next]_vars
  PROVE  PostsTheLatest
<1> USE DEF PostsTheLatest
<1>1. ASSUME UNCHANGED posted PROVE PostsTheLatest
  BY <1>1
<1>2. ASSUME NEW w \in Drains, NEW o \in Outcome, PostEnds(w, o) PROVE PostsTheLatest
  BY <1>2 DEF PostEnds, shows, seen, LInv, TypeOK, PostsUnderLock, NumbersBehindRow, Items
<1>3. ASSUME NEW r \in Reporters, NEW o \in Outcome, ReportPosts(r, o) PROVE PostsTheLatest
  BY <1>3 DEF ReportPosts, shows, seen, LInv, TypeOK, PostsUnderLock, ReportsFaithful
<1>4. ASSUME NEW r \in Reporters, NEW landed \in BOOLEAN, ReportRaises(r, landed)
      PROVE  PostsTheLatest
  BY <1>4 DEF ReportRaises, shows, LInv, TypeOK, PostsUnderLock, ReportsFaithful
<1>5. \/ UNCHANGED posted
      \/ \E w \in Drains, o \in Outcome : PostEnds(w, o)
      \/ \E r \in Reporters, o \in Outcome : ReportPosts(r, o)
      \/ \E r \in Reporters, landed \in BOOLEAN : ReportRaises(r, landed)
  BY DEF Next, DrainStep, ReportStep, vars, seen, Enqueue, PostQueued, Claim, ReleaseExpired,
     TakeOwed, PostBegins, RestoreFails, CheckEnds, DrainEnds, ReportReads, ReportSettles, ReportRefused, Crash
<1> QED BY <1>1, <1>2, <1>3, <1>4, <1>5

\* The numbers a commit sees only rise, in every interleaving of drains and reports.
THEOREM PostedInOrderHolds == Spec => PostedInOrder
<1> QED BY LInvHolds, StepPostsTheLatest, PTL DEF Spec, PostedInOrder

-----------------------------------------------------------------------------
(* No verdict is lost *)

\* A drain that has not taken anything has nothing in hand.
IdleDrainsEmpty == \A w \in Drains : dpc[w] \in {"idle", "released"} => batch[w] = {}

KInv == IdleDrainsEmpty /\ NoVerdictLost

\* Each step hands a verdict on: row to batch, batch to post, post to commit or row; a
\* report that raises, a row that cannot be written and a process that dies drop the one
\* in hand.
LEMMA KInvInductive ==
  ASSUME LInv, KInv, [Next]_vars
  PROVE  KInv'
<1> USE LedgerAssumption DEF NoVerdictLost, BeingPosted, InHand
<1>1. IdleDrainsEmpty'
  <2>1. ASSUME NEW w \in Drains, DrainStep(w) PROVE IdleDrainsEmpty'
    BY <2>1 DEF DrainStep, ReleaseExpired, TakeOwed, PostBegins, PostEnds, RestoreFails,
       CheckEnds, DrainEnds,
       KInv, IdleDrainsEmpty, LInv, TypeOK
  <2>2. CASE Crash
    BY <2>2 DEF Crash, IdleDrainsEmpty
  <2>3. CASE UNCHANGED <<dpc, batch>>
    BY <2>3 DEF KInv, IdleDrainsEmpty
  <2>4. \/ \E w \in Drains : DrainStep(w)
        \/ Crash
        \/ UNCHANGED <<dpc, batch>>
    BY DEF Next, vars, drains, ReportStep, Enqueue, PostQueued, Claim,
       ReportReads, ReportSettles, ReportRefused, ReportPosts, ReportRaises
  <2> QED BY <2>1, <2>2, <2>3, <2>4
<1>2. NoVerdictLost'
  <2>0. NoVerdictLost
    BY DEF KInv
  <2>1. ASSUME NEW j \in Jobs, Enqueue(j) PROVE NoVerdictLost'
    BY <2>0, <2>1 DEF Enqueue, drains, reports, seen
  <2>2. ASSUME NEW j \in Jobs, NEW o \in Outcome, PostQueued(j, o) PROVE NoVerdictLost'
    BY <2>0, <2>2 DEF PostQueued, rows, drains, reports
  <2>3. ASSUME NEW j \in Jobs, NEW d \in Devices, Claim(j, d) PROVE NoVerdictLost'
    BY <2>0, <2>3 DEF Claim, drains, reports, seen
  <2>4. ASSUME NEW w \in Drains, NEW S \in SUBSET Jobs, ReleaseExpired(w, S) PROVE NoVerdictLost'
    <3>1. \A j \in Jobs : j \in S => owed'[j] # None
      BY <2>4 DEF ReleaseExpired, lost_description
    <3>2. ASSUME NEW j \in Jobs, j \notin S, NEW v \in Drains, InHand(v, j, seq[j])
          PROVE  InHand(v, j, seq[j])' /\ seq'[j] = seq[j]
      BY <2>4, <3>2 DEF ReleaseExpired, LInv, TypeOK
    <3>3. \A j \in Jobs : j \notin S => seq'[j] = seq[j] /\ owed'[j] = owed[j]
      BY <2>4 DEF ReleaseExpired
    <3> QED
      BY <2>0, <2>4, <3>1, <3>2, <3>3 DEF ReleaseExpired, reports, seen
  <2>5. ASSUME NEW w \in Drains, TakeOwed(w) PROVE NoVerdictLost'
    <3>1. ASSUME NEW j \in Jobs, owed[j] # None PROVE InHand(w, j, seq[j])'
      <4> DEFINE i == [job |-> j, state |-> owed[j], seq |-> seq[j]]
      <4>1. i \in {[job |-> k, state |-> owed[k], seq |-> seq[k]] : k \in Owing}
        BY <3>1 DEF Owing
      <4>2. i \in batch'[w] /\ seq' = seq
        BY <4>1, <2>5 DEF TakeOwed, LInv, TypeOK
      <4>3. i.job = j /\ i.seq = seq[j]
        OBVIOUS
      <4> QED
        BY <4>2, <4>3
    <3>2. ASSUME NEW j \in Jobs, NEW v \in Drains, InHand(v, j, seq[j])
          PROVE  InHand(v, j, seq[j])'
      BY <2>5, <3>2 DEF TakeOwed, KInv, IdleDrainsEmpty, LInv, TypeOK
    <3> QED
      BY <2>0, <2>5, <3>1, <3>2 DEF TakeOwed, reports, seen
  <2>6. ASSUME NEW w \in Drains, NEW i \in batch[w], PostBegins(w, i) PROVE NoVerdictLost'
    BY <2>0, <2>6 DEF PostBegins, rows, reports, seen, LInv, TypeOK
  <2>7. ASSUME NEW w \in Drains, NEW o \in Outcome, PostEnds(w, o) PROVE NoVerdictLost'
    BY <2>0, <2>7 DEF PostEnds, reports, seen, shows, lands, answered, restore_status, Outcome,
       LInv, TypeOK, PostsUnderLock, Items, States
  <2>8. ASSUME NEW w \in Drains, NEW o \in Outcome, CheckEnds(w, o) PROVE NoVerdictLost'
    BY <2>0, <2>8 DEF CheckEnds, reports, seen, restore_status,
       LInv, TypeOK, NumbersBehindRow, Items, States
  <2>9. ASSUME NEW w \in Drains, DrainEnds(w) PROVE NoVerdictLost'
    BY <2>0, <2>9 DEF DrainEnds, rows, reports, seen, LInv, TypeOK
  <2>10. ASSUME NEW r \in Reporters, NEW j \in Jobs, NEW d \in Devices,
                NEW out \in {"success", "failure", "error"}, ReportReads(r, j, d, out)
         PROVE  NoVerdictLost'
    BY <2>0, <2>10 DEF ReportReads, rows, drains, seen, LInv, TypeOK
  <2>11. ASSUME NEW r \in Reporters, ReportSettles(r) PROVE NoVerdictLost'
    BY <2>0, <2>11 DEF ReportSettles, drains, seen, LInv, TypeOK
  <2>12. ASSUME NEW r \in Reporters, ReportRefused(r) PROVE NoVerdictLost'
    BY <2>0, <2>12 DEF ReportRefused, forget, rows, drains, seen, LInv, TypeOK
  <2>13. ASSUME NEW r \in Reporters, NEW o \in Outcome, ReportPosts(r, o) PROVE NoVerdictLost'
    BY <2>0, <2>13 DEF ReportPosts, forget, drains, seen, shows, lands, answered, Outcome,
       description, lost_description, LInv, TypeOK, PostsUnderLock, ReportsFaithful
  <2>14. CASE Crash
    BY <2>0, <2>14 DEF Crash, rows, LInv, TypeOK
  <2>15. ASSUME NEW r \in Reporters, NEW landed \in BOOLEAN, ReportRaises(r, landed)
         PROVE  NoVerdictLost'
    BY <2>0, <2>15 DEF ReportRaises, forget, rows, drains, shows, LInv, TypeOK,
       PostsUnderLock, ReportsFaithful
  <2>16. ASSUME NEW w \in Drains, RestoreFails(w) PROVE NoVerdictLost'
    BY <2>0, <2>16 DEF RestoreFails, rows, reports, LInv, TypeOK, PostsUnderLock, Items
  <2>17. ASSUME UNCHANGED vars PROVE NoVerdictLost'
    BY <2>0, <2>17 DEF vars, rows, drains, reports, seen
  <2> QED
    BY <2>1, <2>2, <2>3, <2>4, <2>5, <2>6, <2>7, <2>8, <2>9, <2>10, <2>11, <2>12, <2>13,
       <2>14, <2>15, <2>16, <2>17
    DEF Next, DrainStep, ReportStep
<1> QED BY <1>1, <1>2 DEF KInv

\* A run's latest verdict is on the commit, owed, or in somebody's hands, unless it was
\* in the hands of a process that died, of a report whose post raised or of a drain that
\* could not put it back: refused and
\* unanswered requests, of whatever number, lose none (status_ledger.py, lease_reclaim.py
\* drain_owed, jobapi.py _report).
THEOREM NoVerdictLostHolds == Spec => []NoVerdictLost
<1>1. Init => KInv
  BY DEF Init, KInv, IdleDrainsEmpty, NoVerdictLost
<1>2. KInv => NoVerdictLost
  BY DEF KInv
<1> QED BY <1>1, <1>2, LInvHolds, KInvInductive, PTL DEF Spec

-----------------------------------------------------------------------------
(* The ledger and the life of a run *)

\* A run that waits has an attempt left.
AttemptLeft ==
  \A j \in Jobs : /\ status[j] = "absent" => attempts[j] = 0
                  /\ status[j] = "pending" => attempts[j] < MaxAttempts

\* A run goes back to the queue only with an attempt left.
LEMMA AttemptLeftInductive ==
  ASSUME LInv, AttemptLeft, [Next]_vars
  PROVE  AttemptLeft'
<1> USE LedgerAssumption DEF AttemptLeft
<1>1. ASSUME NEW j \in Jobs, Enqueue(j) PROVE AttemptLeft'
  BY <1>1 DEF Enqueue, LInv, TypeOK
<1>2. ASSUME NEW j \in Jobs, NEW d \in Devices, Claim(j, d) PROVE AttemptLeft'
  BY <1>2 DEF Claim, LInv, TypeOK
<1>3. ASSUME NEW w \in Drains, NEW S \in SUBSET Jobs, ReleaseExpired(w, S) PROVE AttemptLeft'
  BY <1>3 DEF ReleaseExpired, parked, LInv, TypeOK
<1>4. ASSUME NEW r \in Reporters, ReportSettles(r) PROVE AttemptLeft'
  BY <1>4 DEF ReportSettles, parked, LInv, TypeOK, ReportsFaithful
<1>5. CASE UNCHANGED <<status, attempts>>
  BY <1>5
<1> QED
  BY <1>1, <1>2, <1>3, <1>4, <1>5
  DEF Next, DrainStep, ReportStep, vars, rows, PostQueued, TakeOwed, PostBegins, PostEnds,
      RestoreFails, CheckEnds, DrainEnds, ReportReads, ReportRefused, ReportPosts,
      ReportRaises, Crash

\* The ledger, its reports and its reclaims in any order, implements RunLifecycle.
THEOREM LedgerImplementsLifecycle == Spec => ImplementsLifecycle
<1> DEFINE Goal == [Lifecycle!Next]_<<status, attempts>>
<1>1. Init => Lifecycle!Init /\ AttemptLeft
  BY LedgerAssumption DEF Init, Lifecycle!Init, AttemptLeft
<1>2. LInv /\ AttemptLeft /\ [Next]_vars => Goal
  <2> SUFFICES ASSUME LInv, AttemptLeft, [Next]_vars PROVE Goal
    OBVIOUS
  <2> USE LedgerAssumption DEF Lifecycle!Next, Lifecycle!Stay, LInv, TypeOK
  <2>1. ASSUME NEW j \in Jobs, Enqueue(j) PROVE Goal
    BY <2>1 DEF Enqueue, Lifecycle!Submit
  <2>2. ASSUME NEW j \in Jobs, NEW d \in Devices, Claim(j, d) PROVE Goal
    BY <2>2 DEF Claim, Lifecycle!Start, AttemptLeft
  <2>3. ASSUME NEW w \in Drains, NEW S \in SUBSET Jobs, ReleaseExpired(w, S) PROVE Goal
    BY <2>3 DEF ReleaseExpired, parked, Lifecycle!Lose
  <2>4. ASSUME NEW r \in Reporters, ReportSettles(r) PROVE Goal
    <3>1. CASE rout[r] = "error"
      BY <2>4, <3>1 DEF ReportSettles, parked, Lifecycle!Lose, ReportsFaithful
    <3>2. CASE rout[r] # "error"
      BY <2>4, <3>2 DEF ReportSettles, Lifecycle!Conclude, Lifecycle!Verdicts, ReportsFaithful
    <3> QED BY <3>1, <3>2
  <2>5. CASE UNCHANGED <<status, attempts>>
    BY <2>5
  <2> QED
    BY <2>1, <2>2, <2>3, <2>4, <2>5
    DEF Next, DrainStep, ReportStep, vars, rows, PostQueued, TakeOwed, PostBegins, PostEnds,
        RestoreFails, CheckEnds, DrainEnds, ReportReads, ReportRefused, ReportPosts,
      ReportRaises, Crash
<1> QED
  BY <1>1, <1>2, LInvHolds, AttemptLeftInductive, PTL DEF Spec, ImplementsLifecycle, Lifecycle!Spec
=============================================================================
