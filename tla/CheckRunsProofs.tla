--------------------------- MODULE CheckRunsProofs ----------------------------
(***************************************************************************)
(* Proofs about CheckRuns for any number of publishers, deliveries, faults *)
(* and removed checks, and any cap on attempts: a check ends only on its   *)
(* run's verdict, publishers that do not overlap leave one check and close *)
(* it, and a finished check is reopened only by one who found it open.     *)
(***************************************************************************)
EXTENDS CheckRuns, FiniteSetTheorems, TLAPS

Places == {"idle", "looking", "finding", "writing", "again", "refinding", "rewriting",
           "answered"}
Shown  == Conclusions \cup {"queued", "in_progress"}
Check  == [state : Shown, there : BOOLEAN]
Known  == {h \in OpenCheck : h.id <= Len(checks)} \cup {None}

\* The types.  An id that is remembered or held is one GitHub gave.
CheckTypes ==
  /\ job \in Row \cup {None} /\ owed \in BOOLEAN /\ overlapped \in BOOLEAN
  /\ missed \in BOOLEAN /\ skipped \in BOOLEAN /\ removals \in Nat
  /\ checks \in Seq(Check) /\ open \in Known
  /\ ppc \in [Publishers -> Places] /\ held \in [Publishers -> Known]
  /\ rec \in [Publishers -> Row \cup {None}] /\ kind = [p \in Publishers |-> kind[p]]
  /\ pseq = [p \in Publishers |-> pseq[p]]

\* Only a run that used its attempts is dead; only a run that is there owes a verdict.
RowIsSound == /\ job # None /\ job.status = "dead" => parked(job.attempts)
              /\ owed => job # None
              /\ job = None => checks = <<>>

\* A publisher's record is of a run that is there, and a record with a conclusion is the
\* row itself: a settled row does not change any more.
RecordsAgree ==
  \A p \in Publishers : ppc[p] # "idle" =>
    /\ job # None /\ rec[p] # None
    /\ conclusion_for(rec[p]) # "none" => rec[p] = job

\* What a publisher found stands behind what it is about to do.
HeldIsAnswered ==
  \A p \in Publishers :
    /\ ppc[p] = "answered" => held[p] # None
    /\ ppc[p] = "writing" /\ held[p] # None /\ held[p].done => conclusion_for(rec[p]) # "none"

\* Publishers that never overlapped: one at a time, which opens a check only where GitHub
\* has none.
OneByOne ==
  ~overlapped =>
    /\ \A p, q \in Publishers : ppc[p] # "idle" /\ ppc[q] # "idle" => p = q
    /\ \A p \in Publishers : ppc[p] \in {"writing", "rewriting"} /\ held[p] = None => Ids = {}
    /\ \A i, k \in Ids : i = k

\* They publish the settled row, owe it, or a report skipped it; and what was answered is what GitHub shows.
SettledIsTold ==
  /\ removals = 0 => \A i \in 1..Len(checks) : There(i)
  /\ ~overlapped => \A p \in Publishers :
       /\ ppc[p] # "idle" /\ job.status \in Settled /\ ~owed /\ ~skipped => rec[p] = job
       /\ ppc[p] = "answered" => checks[held[p].id].state = payload_for(rec[p])

CInv == /\ CheckTypes /\ RowIsSound /\ RecordsAgree /\ HeldIsAnswered /\ OneByOne
        /\ SettledIsTold /\ ClosedOnItsVerdict /\ SettledCheckCloses

USE CheckAssumption, SummaryAssumption

-----------------------------------------------------------------------------
(* What a record renders as *)

\* A rendered record is finished exactly when it has a conclusion, and then shows it.
LEMMA Renders ==
  ASSUME NEW j \in Row
  PROVE  /\ payload_for(j) \in Shown
         /\ Finished(payload_for(j)) <=> conclusion_for(j) # "none"
         /\ conclusion_for(j) # "none" => payload_for(j) = conclusion_for(j)
         /\ conclusion_for(j) # "none" => j.status \in Settled
         /\ j.status \in Settled /\ (j.status = "dead" => parked(j.attempts))
              => conclusion_for(j) # "none"
<1>1. conclusion_for(j) \in Conclusions \cup {"none"}
  BY DEF conclusion_for, Conclusions
<1>2. conclusion_for(j) # "none" => j.status \in Settled
  BY DEF conclusion_for, state_for, Settled
<1>3. j.status \in Settled /\ (j.status = "dead" => parked(j.attempts))
        => conclusion_for(j) # "none"
  BY DEF conclusion_for, state_for, Settled
<1>4. payload_for(j) = conclusion_for(j) \/ payload_for(j) \in {"queued", "in_progress"}
  BY DEF payload_for
<1>5. conclusion_for(j) # "none" <=> payload_for(j) = conclusion_for(j)
  BY <1>1 DEF payload_for, Conclusions
<1> QED BY <1>1, <1>2, <1>3, <1>4, <1>5 DEF Shown, Finished, Conclusions

\* A write puts the record on one check that is there, the one held or a new one.
LEMMA Applies ==
  ASSUME CInv, NEW p \in Publishers, ppc[p] \in {"writing", "rewriting"}, ~Gone(p),
         checks' = applied(p)
  PROVE  /\ checks' \in Seq(Check) /\ Len(checks) <= Len(checks')
         /\ \E w \in 1..Len(checks') :
              /\ IF held[p] = None THEN w = Len(checks) + 1
                                   ELSE w = held[p].id /\ w \in Ids
              /\ checks'[w].state = payload_for(rec[p]) /\ There(w)'
              /\ \A i \in 1..Len(checks') \ {w} : i \in 1..Len(checks) /\ checks'[i] = checks[i]
<1>1. rec[p] \in Row /\ checks \in Seq(Check) /\ held[p] \in Known
  BY DEF CInv, CheckTypes, RecordsAgree
<1>2. payload_for(rec[p]) \in Shown
  BY <1>1, Renders
<1>3. CASE held[p] = None
  <2>1. checks' = Append(checks, [state |-> payload_for(rec[p]), there |-> TRUE])
    BY <1>3 DEF applied
  <2> QED BY <1>1, <1>2, <1>3, <2>1 DEF There, Check
<1>4. CASE held[p] # None
  <2>1. /\ held[p].id \in 1..Len(checks) /\ There(held[p].id)
        /\ checks' = [checks EXCEPT ![held[p].id].state = payload_for(rec[p])]
    BY <1>1, <1>4 DEF applied, Gone, Known, OpenCheck
  <2>2. checks[held[p].id] \in Check
    BY <1>1, <2>1
  <2>3. checks' \in Seq(Check) /\ Len(checks') = Len(checks)
    <3>1. [checks[held[p].id] EXCEPT !.state = payload_for(rec[p])] \in Check
      BY <1>2, <2>2 DEF Check
    <3> QED BY <1>1, <2>1, <3>1
  <2>4. /\ checks'[held[p].id].state = payload_for(rec[p]) /\ checks'[held[p].id].there
        /\ \A i \in 1..Len(checks) \ {held[p].id} : checks'[i] = checks[i]
    BY <1>1, <2>1, <2>2 DEF There, Check
  <2> QED BY <1>4, <2>1, <2>3, <2>4 DEF There, Ids
<1> QED BY <1>3, <1>4

-----------------------------------------------------------------------------
(* The steps *)

LEMMA InitC == Init => CInv
<1> SUFFICES ASSUME Init PROVE CInv
  OBVIOUS
<1>1. CheckTypes
  <2>1. checks \in Seq(Check)
    BY DEF Init
  <2> QED BY <2>1 DEF Init, CheckTypes, Known, Places
<1>2. RowIsSound /\ RecordsAgree /\ HeldIsAnswered
  BY DEF Init, RowIsSound, RecordsAgree, HeldIsAnswered
<1>3. Ids = {} /\ Len(checks) = 0
  BY DEF Init, Ids
<1>4. OneByOne /\ SettledIsTold
  BY <1>3 DEF Init, OneByOne, SettledIsTold
<1>5. ClosedOnItsVerdict /\ SettledCheckCloses
  BY <1>3 DEF Init, ClosedOnItsVerdict, SettledCheckCloses
<1> QED BY <1>1, <1>2, <1>4, <1>5 DEF CInv

\* A step of one publisher under way.  It may write its record, and it ends without having
\* missed its write only when its request was answered or its record has no conclusion.
LEMMA PublisherKeeps ==
  ASSUME CInv, CheckTypes', NEW p \in Publishers, ppc[p] # "idle",
         UNCHANGED <<job, overlapped, removals, skipped>>, owed => owed',
         \A q \in Publishers \ {p} : ppc'[q] = ppc[q] /\ rec'[q] = rec[q] /\ held'[q] = held[q],
         ppc'[p] # "idle" => rec'[p] = rec[p],
         \/ checks' = checks
         \/ ppc[p] \in {"writing", "rewriting"} /\ ~Gone(p) /\ checks' = applied(p),
         ppc'[p] = "answered" =>
            held'[p] # None /\ checks'[held'[p].id].state = payload_for(rec[p]),
         ppc'[p] = "writing" /\ held'[p] # None /\ held'[p].done
            => conclusion_for(rec[p]) # "none",
         ppc'[p] \in {"writing", "rewriting"} /\ held'[p] = None => Ids = {} /\ checks' = checks,
         ppc'[p] = "idle" /\ ~missed' =>
            checks' = checks /\ (ppc[p] = "answered" \/ conclusion_for(rec[p]) = "none")
  PROVE  CInv'
<1> USE DEF CInv
<1>1. job # None /\ job \in Row /\ rec[p] \in Row
      /\ (conclusion_for(rec[p]) # "none" => rec[p] = job)
  BY DEF RecordsAgree, CheckTypes
<1>2. job.status \in Settled => conclusion_for(job) # "none"
  BY <1>1, Renders DEF RowIsSound
<1>3. RowIsSound'
  BY <1>1 DEF RowIsSound
<1>4. RecordsAgree'
  BY <1>1 DEF RecordsAgree
<1>5. HeldIsAnswered'
  BY DEF HeldIsAnswered
<1>6. CASE checks' = checks
  <2>1. Ids' = Ids /\ \A i \in 1..Len(checks) : There(i)' = There(i)
    BY <1>6 DEF Ids, There
  <2>2. OneByOne'
    BY <2>1 DEF OneByOne
  <2>3. SettledIsTold'
    BY <1>6, <2>1 DEF SettledIsTold, OneByOne
  <2>4. ClosedOnItsVerdict'
    BY <1>6 DEF ClosedOnItsVerdict
  <2>5. SettledCheckCloses'
    <3> SUFFICES ASSUME job.status \in Settled, ~owed', Busy' = {}, ~overlapped, ~missed',
                        ~skipped, removals = 0
                 PROVE  Ids # {} /\ \A id \in Ids : checks[id].state = conclusion_for(job)
      BY <1>6, <2>1 DEF SettledCheckCloses
    <3>1. ppc'[p] = "idle"
      BY DEF Busy
    <3>2. rec[p] = job
      BY DEF SettledIsTold, CheckTypes
    <3>3. ppc[p] = "answered" /\ checks[held[p].id].state = conclusion_for(job)
      BY <1>1, <1>2, <3>1, <3>2, Renders DEF SettledIsTold
    <3>4. held[p].id \in Ids
      BY <3>3 DEF SettledIsTold, HeldIsAnswered, CheckTypes, Known, OpenCheck, Ids
    <3> QED BY <3>3, <3>4 DEF OneByOne
  <2> QED BY <1>3, <1>4, <1>5, <2>2, <2>3, <2>4, <2>5
<1>7. CASE ppc[p] \in {"writing", "rewriting"} /\ ~Gone(p) /\ checks' = applied(p)
  <2>1. PICK w \in 1..Len(checks') :
          /\ IF held[p] = None THEN w = Len(checks) + 1 ELSE w = held[p].id /\ w \in Ids
          /\ checks'[w].state = payload_for(rec[p]) /\ There(w)'
          /\ \A i \in 1..Len(checks') \ {w} : i \in 1..Len(checks) /\ checks'[i] = checks[i]
    BY <1>7, Applies
  <2>2. Ids' \subseteq Ids \cup {w}
    BY <2>1 DEF Ids, There
  <2>3. OneByOne'
    <3> SUFFICES ASSUME ~overlapped
                 PROVE  /\ \A q, r \in Publishers : ppc'[q] # "idle" /\ ppc'[r] # "idle" => q = r
                        /\ \A q \in Publishers : ppc'[q] \in {"writing", "rewriting"}
                                                 /\ held'[q] = None => Ids' = {}
                        /\ \A i, k \in Ids' : i = k
      BY DEF OneByOne
    <3>1. \A q \in Publishers \ {p} : ppc[q] = "idle" /\ ppc'[q] = "idle"
      BY DEF OneByOne
    <3>2. Ids = {} \/ w \in Ids
      BY <1>7, <2>1 DEF OneByOne
    <3>3. \A i, k \in Ids' : i = k
      BY <2>2, <3>2 DEF OneByOne
    <3>4. ~(ppc'[p] \in {"writing", "rewriting"} /\ held'[p] = None)
      <4>1. SUFFICES ASSUME checks' = checks, Ids = {} PROVE FALSE
        OBVIOUS
      <4>2. w \in 1..Len(checks) /\ There(w)
        BY <2>1, <4>1 DEF There
      <4> QED BY <4>1, <4>2 DEF Ids
    <3> QED BY <3>1, <3>3, <3>4
  <2>4. SettledIsTold'
    <3>1. removals = 0 => \A i \in 1..Len(checks') : There(i)'
      BY <2>1 DEF SettledIsTold, There
    <3>2. ASSUME ~overlapped, NEW q \in Publishers
          PROVE  /\ ppc'[q] # "idle" /\ job.status \in Settled /\ ~owed' /\ ~skipped
                    => rec'[q] = job
                 /\ ppc'[q] = "answered" => checks'[held'[q].id].state = payload_for(rec'[q])
      BY <3>2 DEF SettledIsTold, OneByOne
    <3> QED BY <3>1, <3>2 DEF SettledIsTold
  <2>5. ClosedOnItsVerdict'
    <3>1. Finished(payload_for(rec[p])) => job.status \in Settled
                                           /\ payload_for(rec[p]) = conclusion_for(job)
      BY <1>1, Renders
    <3> QED BY <2>1, <3>1 DEF ClosedOnItsVerdict
  <2>6. SettledCheckCloses'
    <3>1. Busy' = {} /\ ~missed' => checks' = checks
      BY DEF Busy
    <3>2. CASE checks' = checks
      BY <1>6, <3>2
    <3>3. CASE checks' # checks
      BY <3>1, <3>3 DEF SettledCheckCloses
    <3> QED BY <3>2, <3>3
  <2> QED BY <1>3, <1>4, <1>5, <2>3, <2>4, <2>5, <2>6
<1> QED BY <1>6, <1>7

\* An id stays known as long as no check's number is taken back.
LEMMA StaysKnown ==
  ASSUME checks \in Seq(Check), checks' \in Seq(Check), Len(checks) <= Len(checks')
  PROVE  Known \subseteq Known'
BY DEF Known, OpenCheck

\* ends: the thread is free, and a verdict that is owed stays owed.
LEMMA Ends ==
  ASSUME CInv, NEW p \in Publishers, NEW wrote \in BOOLEAN, ends(p, wrote)
  PROVE  /\ ppc' \in [Publishers -> Places] /\ held' \in [Publishers -> Known]
         /\ rec' \in [Publishers -> Row \cup {None}] /\ kind' = [q \in Publishers |-> kind'[q]]
         /\ pseq' = [q \in Publishers |-> pseq'[q]]
         /\ ppc'[p] = "idle" /\ missed' = ~wrote /\ owed' \in BOOLEAN /\ (owed => owed')
         /\ \A q \in Publishers \ {p} : /\ ppc'[q] = ppc[q] /\ rec'[q] = rec[q]
                                        /\ held'[q] = held[q]
<1> USE DEF CInv, CheckTypes
<1>1. /\ ppc' \in [Publishers -> Places] /\ held' \in [Publishers -> Known]
      /\ rec' \in [Publishers -> Row \cup {None}]
  BY DEF ends, Known, Places
<1>2. kind' = [q \in Publishers |-> kind'[q]] /\ pseq' = [q \in Publishers |-> pseq'[q]]
  BY DEF ends
<1>3. /\ ppc'[p] = "idle"
      /\ \A q \in Publishers \ {p} : ppc'[q] = ppc[q] /\ rec'[q] = rec[q] /\ held'[q] = held[q]
  BY DEF ends
<1>4. missed' = ~wrote /\ owed' = (owed \/ (~wrote /\ kind[p] = "claim" /\ seq = pseq[p]))
  BY DEF ends
<1>5. owed' \in BOOLEAN /\ (owed => owed')
  BY <1>4, Zenon
<1> QED BY <1>1, <1>2, <1>3, <1>4, <1>5

\* decide: the publisher goes on to write what it holds, or a finished check is left alone.
LEMMA Decides ==
  ASSUME CInv, NEW p \in Publishers, NEW h \in Known, decide(p, h), NEW new \in Known,
         ppc[p] \in {"looking", "finding", "again", "refinding"}, h = None => Ids = {},
         open' = new, UNCHANGED <<job, checks, removals, overlapped, skipped>>
  PROVE  CInv'
<1>1. CASE has_later_truth(p, h) /\ ppc[p] \in {"looking", "finding"}
  <2>1. ends(p, TRUE) /\ conclusion_for(rec[p]) = "none"
    BY <1>1 DEF decide, has_later_truth
  <2>2. /\ CheckTypes' /\ ppc'[p] = "idle" /\ (owed => owed')
        /\ \A q \in Publishers \ {p} : ppc'[q] = ppc[q] /\ rec'[q] = rec[q] /\ held'[q] = held[q]
    BY <2>1, Ends DEF CInv, CheckTypes, Known
  <2> QED BY <2>1, <2>2, PublisherKeeps
<1>2. CASE ~(has_later_truth(p, h) /\ ppc[p] \in {"looking", "finding"})
  <2>1. /\ ppc' = [ppc EXCEPT ![p] = IF @ \in {"looking", "finding"}
                                     THEN "writing" ELSE "rewriting"]
        /\ held' = [held EXCEPT ![p] = h] /\ UNCHANGED <<kind, rec, pseq, missed, owed>>
    BY <1>2 DEF decide
  <2>2. /\ ppc'[p] = IF ppc[p] \in {"looking", "finding"} THEN "writing" ELSE "rewriting"
        /\ held'[p] = h
        /\ \A q \in Publishers \ {p} : ppc'[q] = ppc[q] /\ held'[q] = held[q]
    BY <2>1 DEF CInv, CheckTypes
  <2>3. CheckTypes'
    BY <2>1 DEF CInv, CheckTypes, Known, Places
  <2>4. ppc'[p] = "writing" /\ h # None /\ h.done => conclusion_for(rec[p]) # "none"
    BY <1>2, <2>2 DEF has_later_truth
  <2> QED BY <2>1, <2>2, <2>3, <2>4, PublisherKeeps
<1> QED BY <1>1, <1>2

\* A publisher that goes to another place, with its record and without a write.
LEMMA Moves ==
  ASSUME CInv, NEW p \in Publishers, ppc[p] # "idle",
         NEW place \in {"finding", "refinding", "again"}, ppc' = [ppc EXCEPT ![p] = place],
         NEW h \in Known, held' = [held EXCEPT ![p] = h], open' \in Known,
         UNCHANGED <<job, owed, missed, kind, rec, pseq, checks, removals, overlapped, skipped>>
  PROVE  CInv'
<1>1. ppc'[p] = place /\ \A q \in Publishers \ {p} : ppc'[q] = ppc[q] /\ held'[q] = held[q]
  BY DEF CInv, CheckTypes
<1>2. CheckTypes'
  BY DEF CInv, CheckTypes, Known, Places
<1> QED BY <1>1, <1>2, PublisherKeeps

\* A publisher that ends without having written what it meant to, as far as it knows.
LEMMA Misses ==
  ASSUME CInv, NEW p \in Publishers, ppc[p] # "idle", ends(p, FALSE),
         UNCHANGED <<job, open, removals, overlapped, skipped>>,
         \/ checks' = checks
         \/ ppc[p] \in {"writing", "rewriting"} /\ ~Gone(p) /\ checks' = applied(p)
  PROVE  CInv'
<1>1. /\ ppc'[p] = "idle" /\ (owed => owed') /\ missed'
      /\ \A q \in Publishers \ {p} : ppc'[q] = ppc[q] /\ rec'[q] = rec[q] /\ held'[q] = held[q]
  BY Ends
<1>2. checks' \in Seq(Check) /\ Known \subseteq Known'
  <2>1. checks \in Seq(Check)
    BY DEF CInv, CheckTypes
  <2>2. CASE checks' = checks
    BY <2>1, <2>2, StaysKnown
  <2>3. CASE ppc[p] \in {"writing", "rewriting"} /\ ~Gone(p) /\ checks' = applied(p)
    BY <2>1, <2>3, Applies, StaysKnown
  <2> QED BY <2>2, <2>3
<1>3. CheckTypes'
  BY <1>2, Ends DEF CInv, CheckTypes
<1> QED BY <1>1, <1>3, PublisherKeeps

LEMMA LookStep == ASSUME CInv, NEW p \in Publishers, Look(p) PROVE CInv'
<1>1. open \in Known /\ held[p] \in Known /\ held = [held EXCEPT ![p] = held[p]]
  BY DEF CInv, CheckTypes
<1>2. /\ ppc[p] \in {"looking", "again"}
      /\ UNCHANGED <<job, open, checks, removals, overlapped, skipped>>
  BY DEF Look
<1>3. CASE open # None
  <2>1. decide(p, open)
    BY <1>3 DEF Look
  <2> QED BY <1>1, <1>2, <1>3, <2>1, Decides
<1>4. CASE open = None
  <2>1. PICK place \in {"finding", "refinding"} : ppc' = [ppc EXCEPT ![p] = place]
    BY <1>2, <1>4 DEF Look
  <2>2. UNCHANGED <<kind, rec, pseq, held, missed, owed>>
    BY <1>4 DEF Look
  <2> QED BY <1>1, <1>2, <2>1, <2>2, Moves
<1> QED BY <1>3, <1>4

LEMMA FindStep == ASSUME CInv, NEW p \in Publishers, Find(p) PROVE CInv'
<1>1. /\ ppc[p] \in {"finding", "refinding"}
      /\ UNCHANGED <<job, checks, removals, overlapped, skipped>>
  BY DEF Find
<1>2. ASSUME NEW h \in find, decide(p, h), open' = IF h # None THEN h ELSE open
      PROVE  CInv'
  <2>1. h \in Known /\ (h = None => Ids = {})
    <3>1. CASE Ids = {}
      BY <3>1 DEF find, Known
    <3>2. CASE Ids # {}
      <4>1. PICK i \in Ids : h = [id |-> i, done |-> Finished(checks[i].state)]
        BY <3>2 DEF find
      <4>2. i \in Nat \ {0} /\ i <= Len(checks)
        BY DEF Ids, CInv, CheckTypes
      <4>3. h \in OpenCheck /\ h.id <= Len(checks)
        BY <4>1, <4>2 DEF OpenCheck, Finished
      <4> QED BY <4>3 DEF Known
    <3> QED BY <3>1, <3>2
  <2>2. open \in Known
    BY DEF CInv, CheckTypes
  <2> DEFINE new == IF h # None THEN h ELSE open
  <2>3. new \in Known /\ open' = new
    BY <1>2, <2>1, <2>2
  <2> HIDE DEF new
  <2> QED BY <1>1, <1>2, <2>1, <2>3, Decides
<1>3. ASSUME fails(p), open' = open PROVE CInv'
  BY <1>1, <1>3, Misses DEF fails
<1> QED BY <1>2, <1>3 DEF Find

LEMMA WriteStep == ASSUME CInv, NEW p \in Publishers, Write(p) PROVE CInv'
<1>1. /\ ppc[p] \in {"writing", "rewriting"} /\ ~Gone(p)
      /\ UNCHANGED <<job, open, removals, overlapped, skipped>>
  BY DEF Write
<1>2. ASSUME checks' = applied(p), ppc' = [ppc EXCEPT ![p] = "answered"],
             held' = [held EXCEPT ![p] = [id   |-> IF @ = None THEN Len(checks) + 1 ELSE @.id,
                                          done |-> conclusion_for(rec[p]) # "none"]],
             UNCHANGED <<kind, rec, pseq, missed, owed, faults>>
      PROVE  CInv'
  <2>1. /\ ppc'[p] = "answered"
        /\ held'[p] = [id   |-> IF held[p] = None THEN Len(checks) + 1 ELSE held[p].id,
                       done |-> conclusion_for(rec[p]) # "none"]
        /\ \A q \in Publishers \ {p} : ppc'[q] = ppc[q] /\ held'[q] = held[q]
    BY <1>2 DEF CInv, CheckTypes
  <2>2. PICK w \in 1..Len(checks') :
          /\ IF held[p] = None THEN w = Len(checks) + 1 ELSE w = held[p].id /\ w \in Ids
          /\ checks'[w].state = payload_for(rec[p]) /\ There(w)'
    BY <1>1, <1>2, Applies
  <2>3. checks' \in Seq(Check) /\ Known \subseteq Known'
    BY <1>1, <1>2, Applies, StaysKnown DEF CInv, CheckTypes
  <2>4. held'[p].id = w /\ held'[p] \in OpenCheck /\ held'[p] \in Known'
    BY <2>1, <2>2, <2>3 DEF OpenCheck, Known
  <2>5. CheckTypes'
    <3>1. held' \in [Publishers -> Known'] /\ open' \in Known'
      BY <1>1, <1>2, <2>3, <2>4 DEF CInv, CheckTypes
    <3> QED BY <1>1, <1>2, <2>3, <3>1 DEF CInv, CheckTypes, Places
  <2> QED BY <1>1, <1>2, <2>1, <2>2, <2>4, <2>5, PublisherKeeps
<1>3. ASSUME fails(p), checks' = applied(p) \/ checks' = checks PROVE CInv'
  BY <1>1, <1>3, Misses DEF fails
<1> QED BY <1>2, <1>3 DEF Write

LEMMA WriteGoneStep == ASSUME CInv, NEW p \in Publishers, WriteGone(p) PROVE CInv'
<1>1. /\ ppc[p] \in {"writing", "rewriting"}
      /\ UNCHANGED <<job, checks, removals, overlapped, skipped>> /\ None \in Known
  BY DEF WriteGone, Known
<1>2. CASE ppc[p] = "writing"
  <2>1. /\ ppc' = [ppc EXCEPT ![p] = "again"] /\ open' = None
        /\ held' = [held EXCEPT ![p] = None] /\ UNCHANGED <<kind, rec, pseq, missed, owed>>
    BY <1>2 DEF WriteGone
  <2> QED BY <1>1, <2>1, Moves
<1>3. CASE ppc[p] # "writing"
  <2>1. ends(p, FALSE) /\ open' = open
    BY <1>3 DEF WriteGone
  <2> QED BY <1>1, <2>1, Misses
<1> QED BY <1>2, <1>3

LEMMA RememberStep == ASSUME CInv, NEW p \in Publishers, Remember(p) PROVE CInv'
<1>1. /\ ppc[p] = "answered" /\ ends(p, TRUE) /\ open' = held[p]
      /\ UNCHANGED <<job, checks, removals, overlapped, skipped>>
  BY DEF Remember
<1>2. /\ ppc'[p] = "idle" /\ (owed => owed')
      /\ \A q \in Publishers \ {p} : ppc'[q] = ppc[q] /\ rec'[q] = rec[q] /\ held'[q] = held[q]
  BY <1>1, Ends
<1>3. CheckTypes'
  BY <1>1, Ends DEF CInv, CheckTypes, Known
<1> QED BY <1>1, <1>2, <1>3, PublisherKeeps

\* The row is inserted or its attempt ends, and a free thread takes the row as it is then.
LEMMA Publishes ==
  ASSUME CInv, NEW p \in Publishers, NEW k, NEW n, publish_check_run(p, k, job', n),
         job' \in Row, job'.status = "dead" => parked(job'.attempts), owed' \in BOOLEAN,
         job' = job \/ job = None \/ job.status = "running",
         UNCHANGED <<open, checks, removals, missed>>
  PROVE  CInv'
<1> USE DEF CInv
<1>1. /\ ppc[p] = "idle" /\ ppc'[p] = "looking" /\ rec'[p] = job' /\ held' = held
      /\ \A q \in Publishers \ {p} : ppc'[q] = ppc[q] /\ rec'[q] = rec[q]
  BY DEF publish_check_run, CheckTypes
<1>2. overlapped' \in BOOLEAN /\ (~overlapped' => ~overlapped /\ Busy = {})
  <2>1. overlapped' = (overlapped \/ Busy # {})
    BY DEF publish_check_run
  <2> QED BY <2>1, Zenon
<1>3. CheckTypes'
  <2>1. ppc' \in [Publishers -> Places] /\ rec' \in [Publishers -> Row \cup {None}]
    BY DEF publish_check_run, CheckTypes, Places
  <2>2. kind' = [q \in Publishers |-> kind'[q]] /\ pseq' = [q \in Publishers |-> pseq'[q]]
    BY DEF publish_check_run, CheckTypes
  <2>3. skipped' = FALSE
    BY DEF publish_check_run
  <2> QED BY <1>1, <1>2, <2>1, <2>2, <2>3 DEF CheckTypes, Known
<1>4. job' # None /\ (job # None /\ job.status \in Settled => job' = job)
  BY DEF Settled
<1>5. RowIsSound'
  BY <1>4 DEF RowIsSound
<1>6. RecordsAgree'
  <2> SUFFICES ASSUME NEW q \in Publishers, ppc'[q] # "idle"
               PROVE  /\ rec'[q] # None
                      /\ conclusion_for(rec'[q]) # "none" => rec'[q] = job'
    BY <1>4 DEF RecordsAgree
  <2>1. CASE q = p
    BY <1>1, <1>4, <2>1
  <2>2. CASE q # p
    <3>1. /\ rec'[q] = rec[q] /\ rec[q] \in Row /\ job # None
          /\ conclusion_for(rec[q]) # "none" => rec[q] = job
      BY <1>1, <2>2 DEF RecordsAgree, CheckTypes
    <3> QED BY <1>4, <3>1, Renders
  <2> QED BY <2>1, <2>2
<1>7. HeldIsAnswered'
  BY <1>1 DEF HeldIsAnswered
<1>8. Ids' = Ids /\ \A i \in 1..Len(checks) : There(i)' = There(i)
  BY DEF Ids, There
<1>9. ~overlapped' => \A q \in Publishers \ {p} : ppc'[q] = "idle"
  BY <1>1, <1>2 DEF Busy
<1>10. OneByOne'
  BY <1>1, <1>2, <1>8, <1>9 DEF OneByOne
<1>11. SettledIsTold'
  BY <1>1, <1>8, <1>9 DEF SettledIsTold
<1>12. ClosedOnItsVerdict'
  BY <1>4 DEF ClosedOnItsVerdict, RowIsSound
<1>13. SettledCheckCloses'
  BY <1>1 DEF SettledCheckCloses, Busy
<1> QED BY <1>3, <1>5, <1>6, <1>7, <1>10, <1>11, <1>12, <1>13

\* A lost attempt, and a report: what they leave in the row.
LEMMA Releases ==
  ASSUME job \in Row, NEW why \in {"lost", "device"}
  PROVE  /\ released(why) \in Row
         /\ released(why).status = "dead" => parked(released(why).attempts)
BY DEF released, Row, Settled

LEMMA Settles ==
  ASSUME job \in Row, NEW after \in settle
  PROVE  after \in Row /\ (after.status = "dead" => parked(after.attempts))
<1>1. CASE after = released("device")
  BY <1>1, Releases
<1>2. CASE after # released("device")
  <2>1. PICK code \in {0, 1, TimedOut} :
          after = [job EXCEPT !.status = IF code = 0 THEN "success" ELSE "failure",
                              !.exit = code, !.error = "none"]
    BY <1>2 DEF settle
  <2> QED BY <2>1 DEF Row, Settled
<1> QED BY <1>1, <1>2

LEMMA PublishingStep ==
  ASSUME CInv, NEW p \in Publishers,
         \/ enqueue_direct(p) \/ report(p)
         \/ \E k \in {"timer", "claim"} : drain_owed(p, k)
  PROVE  CInv'
<1>1. /\ job \in Row \cup {None} /\ owed \in BOOLEAN /\ (owed => job # None)
      /\ (job # None /\ job.status = "dead" => parked(job.attempts))
  BY DEF CInv, CheckTypes, RowIsSound
<1>2. Fresh \in Row /\ Fresh.status # "dead"
  BY DEF Fresh, Row
<1>3. CASE enqueue_direct(p)
  <2>1. /\ job' = IF job = None THEN Fresh ELSE job
        /\ publish_check_run(p, "enqueue", job', seq)
        /\ UNCHANGED <<owed, open, checks, removals, missed>>
    BY <1>3 DEF enqueue_direct
  <2>2. job' \in Row /\ (job'.status = "dead" => parked(job'.attempts))
    BY <1>1, <1>2, <2>1
  <2> QED BY <1>1, <2>1, <2>2, Publishes
<1>4. CASE report(p)
  <2>1. /\ job # None /\ job.status = "running" /\ UNCHANGED <<open, checks, removals, missed>>
        /\ owed' \in BOOLEAN
    BY <1>4 DEF report
  <2>2. PICK after \in settle : job' = after /\ publish_check_run(p, "report", after, seq + 1)
    BY <1>4 DEF report, reported
  <2>3. after \in Row /\ (after.status = "dead" => parked(after.attempts))
    BY <1>1, <2>1, Settles
  <2> QED BY <2>1, <2>2, <2>3, Publishes
<1>5. ASSUME NEW k \in {"timer", "claim"}, drain_owed(p, k) PROVE CInv'
  <2>1. /\ owed /\ owed' = FALSE /\ publish_check_run(p, k, job', seq)
        /\ UNCHANGED <<job, open, checks, removals, missed>>
    BY <1>5 DEF drain_owed
  <2> QED BY <1>1, <2>1, Publishes
<1> QED BY <1>3, <1>4, <1>5

\* The row goes on while nobody publishes it: a claim, or a lease that is spent, which
\* leaves its verdict owed.
LEMMA RowStep == ASSUME CInv, claim \/ release PROVE CInv'
<1> USE DEF CInv
<1>1. /\ job \in Row /\ job.status \in {"pending", "running"}
      /\ UNCHANGED <<open, ppc, kind, rec, pseq, held, checks, removals, overlapped, missed, skipped>>
  BY DEF claim, release, CheckTypes, publisher, seen
<1>2. /\ job' \in Row /\ owed' \in BOOLEAN /\ (job'.status = "dead" => parked(job'.attempts))
      /\ (job'.status \in Settled => owed')
  <2>1. CASE claim
    <3>1. job' = [job EXCEPT !.status = "running", !.attempts = @ + 1] /\ owed' = owed
      BY <2>1 DEF claim
    <3>2. job' \in Row /\ job'.status = "running"
      <4>1. job.attempts + 1 \in Nat
        BY <1>1 DEF Row
      <4>2. job' = [status |-> "running", attempts |-> job.attempts + 1, error |-> job.error,
                    exit |-> job.exit, steps |-> job.steps]
        BY <1>1, <3>1 DEF Row
      <4> QED BY <1>1, <4>1, <4>2 DEF Row
    <3> QED BY <3>1, <3>2 DEF CheckTypes, Settled
  <2>2. CASE release
    BY <1>1, <2>2, Releases DEF release
  <2> QED BY <2>1, <2>2
<1>3. job' # None /\ job.status \notin Settled /\ job # None
  BY <1>1, <1>2 DEF Settled
<1>4. CheckTypes' /\ RowIsSound' /\ HeldIsAnswered'
  BY <1>1, <1>2, <1>3 DEF CheckTypes, RowIsSound, HeldIsAnswered, Known
<1>5. RecordsAgree'
  BY <1>1, <1>3, Renders DEF RecordsAgree, CheckTypes
<1>6. OneByOne' /\ SettledIsTold'
  BY <1>1, <1>2 DEF OneByOne, SettledIsTold, Ids, There
<1>7. ClosedOnItsVerdict'
  BY <1>1, <1>3 DEF ClosedOnItsVerdict
<1>8. SettledCheckCloses'
  BY <1>2 DEF SettledCheckCloses
<1> QED BY <1>4, <1>5, <1>6, <1>7, <1>8

\* A report ends with the row settled and nobody told: publishers under way have records
\* without a conclusion.
LEMMA RaiseStep == ASSUME CInv, report_raises PROVE CInv'
<1> USE DEF CInv
<1>1. /\ job \in Row /\ job.status = "running" /\ owed' = FALSE /\ skipped' = TRUE
      /\ UNCHANGED <<open, ppc, kind, rec, pseq, held, checks, removals, overlapped, missed>>
  BY DEF report_raises, CheckTypes, publisher
<1>2. job' \in Row /\ (job'.status = "dead" => parked(job'.attempts))
  BY <1>1, Settles DEF report_raises
<1>3. job' # None /\ job.status \notin Settled /\ job # None
  BY <1>1, <1>2 DEF Settled
<1>4. CheckTypes' /\ RowIsSound' /\ HeldIsAnswered'
  BY <1>1, <1>2, <1>3 DEF CheckTypes, RowIsSound, HeldIsAnswered, Known
<1>5. RecordsAgree'
  BY <1>1, <1>3, Renders DEF RecordsAgree, CheckTypes
<1>6. OneByOne' /\ SettledIsTold'
  BY <1>1 DEF OneByOne, SettledIsTold, Ids, There
<1>7. ClosedOnItsVerdict' /\ SettledCheckCloses'
  BY <1>1, <1>3 DEF ClosedOnItsVerdict, SettledCheckCloses
<1> QED BY <1>4, <1>5, <1>6, <1>7

\* A check is removed on GitHub.
LEMMA RemoveStep == ASSUME CInv, NEW id \in 1..Len(checks), RemoveCheck(id) PROVE CInv'
<1> USE DEF CInv
<1>1. /\ UNCHANGED <<job, owed, open, ppc, kind, rec, pseq, held, overlapped, missed, skipped>>
      /\ removals' = removals + 1 /\ checks' = [checks EXCEPT ![id].there = FALSE]
  BY DEF RemoveCheck, row, publisher
<1>2. checks \in Seq(Check) /\ checks[id] \in Check
  BY DEF CheckTypes
<1>3. [checks[id] EXCEPT !.there = FALSE] \in Check
  BY <1>2 DEF Check
<1>4. checks' \in Seq(Check) /\ Len(checks') = Len(checks)
  BY <1>1, <1>2, <1>3
<1>5. /\ \A i \in 1..Len(checks) : checks'[i].state = checks[i].state
      /\ \A i \in 1..Len(checks) : There(i)' => There(i)
  BY <1>1, <1>2 DEF Check, There
<1>6. Ids' \subseteq Ids
  BY <1>4, <1>5 DEF Ids
<1>7. CheckTypes'
  BY <1>1, <1>4 DEF CheckTypes, Known
<1>8. RowIsSound' /\ RecordsAgree' /\ HeldIsAnswered'
  BY <1>1, <1>2, <1>4 DEF RowIsSound, RecordsAgree, HeldIsAnswered
<1>9. OneByOne'
  BY <1>1, <1>6 DEF OneByOne
<1>10. removals' # 0
  BY <1>1 DEF CheckTypes
<1>11. SettledIsTold'
  <2>1. \A p \in Publishers : ppc[p] = "answered" => held[p].id \in 1..Len(checks)
    BY DEF HeldIsAnswered, CheckTypes, Known, OpenCheck
  <2> QED BY <1>1, <1>5, <1>10, <2>1 DEF SettledIsTold
<1>12. ClosedOnItsVerdict' /\ SettledCheckCloses'
  BY <1>1, <1>4, <1>5, <1>10 DEF ClosedOnItsVerdict, SettledCheckCloses
<1> QED BY <1>7, <1>8, <1>9, <1>11, <1>12

\* The broker restarts: no publisher is left, and one that was under way missed its write.
LEMMA RestartStep == ASSUME CInv, Restart PROVE CInv'
<1> USE DEF CInv
<1>1. /\ UNCHANGED <<job, owed, checks, removals, overlapped, skipped>> /\ open' = None
      /\ ppc' = [p \in Publishers |-> "idle"] /\ held' = [p \in Publishers |-> None]
      /\ rec' = [p \in Publishers |-> None]
      /\ kind' = [p \in Publishers |-> None] /\ pseq' = [p \in Publishers |-> 0]
      /\ missed' = (missed \/ Busy # {})
  BY DEF Restart, row
<1>2. missed' \in BOOLEAN /\ (~missed' => ~missed /\ Busy = {})
  BY <1>1, Zenon
<1>3. CheckTypes'
  BY <1>1, <1>2 DEF CheckTypes, Known, Places
<1>4. RowIsSound' /\ RecordsAgree' /\ HeldIsAnswered'
  BY <1>1 DEF RowIsSound, RecordsAgree, HeldIsAnswered
<1>5. Ids' = Ids /\ \A i \in 1..Len(checks) : There(i)' = There(i)
  BY <1>1 DEF Ids, There
<1>6. OneByOne' /\ SettledIsTold'
  BY <1>1, <1>5 DEF OneByOne, SettledIsTold
<1>7. ClosedOnItsVerdict' /\ SettledCheckCloses'
  BY <1>1, <1>2, <1>5 DEF ClosedOnItsVerdict, SettledCheckCloses
<1> QED BY <1>3, <1>4, <1>6, <1>7

LEMMA NextC == CInv /\ [Next]_vars => CInv'
<1> SUFFICES ASSUME CInv, [Next]_vars PROVE CInv'
  OBVIOUS
<1>1. CASE UNCHANGED vars
  BY <1>1 DEF vars, row, publisher, seen, CInv, CheckTypes, Known, RowIsSound, RecordsAgree,
              HeldIsAnswered, OneByOne, SettledIsTold, ClosedOnItsVerdict, SettledCheckCloses,
              Ids, There, Busy
<1>2. CASE Next
  BY <1>2, RowStep, RaiseStep, RestartStep, PublishingStep, RemoveStep, LookStep, FindStep, WriteStep,
     WriteGoneStep, RememberStep DEF Next, PublisherStep
<1> QED BY <1>1, <1>2

-----------------------------------------------------------------------------
(* The theorems *)

\* The inductive invariant of the publishers, the row and GitHub's checks (check_runs.py).
THEOREM CInvHolds == Spec => []CInv
BY InitC, NextC, PTL DEF Spec

\* check_summary.py: a check that is finished shows the conclusion of its run's row, with
\* any number of publishers, restarts and lost answers.
THEOREM ClosedOnItsVerdictHolds == Spec => []ClosedOnItsVerdict
<1>1. CInv => ClosedOnItsVerdict
  BY DEF CInv
<1> QED BY <1>1, CInvHolds, PTL

\* check_runs.py publish: a run that ended, whose last publisher was not refused and whose
\* report came to publish it, has its check closed on its verdict.
THEOREM SettledCheckClosesHolds == Spec => []SettledCheckCloses
<1>1. CInv => SettledCheckCloses
  BY DEF CInv
<1> QED BY <1>1, CInvHolds, PTL

\* check_runs.py find: publishers that do not overlap leave at most one check of a run.
THEOREM OneCheckPerRunHolds == Spec => []OneCheckPerRun
<1>1. ASSUME CInv PROVE OneCheckPerRun
  <2>1. CASE Ids = {}
    BY <2>1, FS_EmptySet DEF OneCheckPerRun
  <2>2. CASE Ids # {} /\ ~overlapped
    <3>1. PICK i : Ids = {i}
      BY <1>1, <2>2 DEF CInv, OneByOne
    <3>2. Cardinality({i}) = 1
      BY FS_Singleton
    <3> QED BY <3>1, <3>2 DEF OneCheckPerRun
  <2> QED BY <2>1, <2>2 DEF OneCheckPerRun
<1> QED BY <1>1, CInvHolds, PTL

\* check_runs.py publish: a finished check goes back to pending only through a publisher
\* that found it unfinished, or on the second try after a 404.
THEOREM ReopenedOnlyUnseenHolds == Spec => ReopenedOnlyUnseen
<1> DEFINE Reopened(id) == Finished(checks[id].state) /\ ~Finished(checks'[id].state)
           Blind(p, id) == \/ ppc[p] = "rewriting"
                           \/ ppc[p] = "writing" /\ held[p] = [id |-> id, done |-> FALSE]
<1>1. ASSUME CInv, [Next]_vars
      PROVE  [\A id \in 1..Len(checks) : Reopened(id) => \E p \in Publishers : Blind(p, id)]_vars
  <2> SUFFICES ASSUME Next, NEW id \in 1..Len(checks), Reopened(id)
               PROVE  \E p \in Publishers : Blind(p, id)
    BY <1>1
  <2>1. CASE checks' = checks
    BY <2>1
  <2>2. ASSUME NEW k \in 1..Len(checks), RemoveCheck(k) PROVE FALSE
    <3>1. checks' = [checks EXCEPT ![k].there = FALSE] /\ checks \in Seq(Check)
      BY <1>1, <2>2 DEF RemoveCheck, CInv, CheckTypes
    <3>2. checks[k] \in Check
      BY <3>1
    <3>3. checks'[id].state = checks[id].state
      BY <3>1, <3>2 DEF Check
    <3> QED BY <3>3
  <2>3. ASSUME NEW p \in Publishers, Write(p), checks' = applied(p) PROVE Blind(p, id)
    <3>1. ppc[p] \in {"writing", "rewriting"} /\ ~Gone(p)
      BY <2>3 DEF Write
    <3>2. PICK w \in 1..Len(checks') :
            /\ IF held[p] = None THEN w = Len(checks) + 1 ELSE w = held[p].id /\ w \in Ids
            /\ checks'[w].state = payload_for(rec[p]) /\ There(w)'
            /\ \A i \in 1..Len(checks') \ {w} : i \in 1..Len(checks) /\ checks'[i] = checks[i]
      BY <1>1, <2>3, <3>1, Applies
    <3>3. Len(checks) \in Nat /\ Len(checks') \in Nat /\ Len(checks) <= Len(checks')
      BY <1>1, <2>3, <3>1, Applies DEF CInv, CheckTypes
    <3>4. id = w /\ held[p] # None /\ held[p].id = id
      BY <3>2, <3>3
    <3>5. rec[p] \in Row /\ conclusion_for(rec[p]) = "none"
      BY <1>1, <3>1, <3>2, <3>4, Renders DEF CInv, RecordsAgree, CheckTypes
    <3>6. CASE ppc[p] = "writing"
      <4>1. held[p] \in OpenCheck /\ ~held[p].done
        BY <1>1, <3>4, <3>5, <3>6 DEF CInv, CheckTypes, Known, HeldIsAnswered
      <4>2. held[p] = [id |-> id, done |-> FALSE]
        BY <3>4, <4>1 DEF OpenCheck
      <4> QED BY <3>6, <4>2
    <3> QED BY <3>1, <3>6
  <2>4. ASSUME NEW p \in Publishers, PublisherStep(p), ~Write(p) PROVE checks' = checks
    BY <2>4 DEF PublisherStep, Look, Find, WriteGone, Remember
  <2>5. ASSUME NEW p \in Publishers, Write(p) PROVE checks' = checks \/ checks' = applied(p)
    BY <2>5 DEF Write
  <2>6. ASSUME NEW p \in Publishers, \/ enqueue_direct(p) \/ report(p)
                                     \/ \E k \in {"timer", "claim"} : drain_owed(p, k)
        PROVE  checks' = checks
    BY <2>6 DEF enqueue_direct, report, drain_owed
  <2>7. ASSUME claim \/ release \/ report_raises \/ Restart PROVE checks' = checks
    BY <2>7 DEF claim, release, report_raises, Restart
  <2> QED BY <2>1, <2>2, <2>3, <2>4, <2>5, <2>6, <2>7 DEF Next
<1>2. QED BY <1>1, CInvHolds, PTL DEF Spec, ReopenedOnlyUnseen
===============================================================================
