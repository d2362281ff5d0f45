---------------------------- MODULE ArtifactsProofs ---------------------------
(***************************************************************************)
(* Proofs about Artifacts for any runs, attempts, devices, readers, sizes, *)
(* quotas and faults: a row has its own bytes or none, an archive that was *)
(* answered 201 stands, a settled run's archive is its verdict's, as long  *)
(* as nothing leaked every file has a row and both quotas hold, and no     *)
(* archive that is served is ever replaced by another.                     *)
(***************************************************************************)
EXTENDS Artifacts, FiniteSetTheorems, WellFoundedInduction, TLAPS

Works    == {"none", "running", "sent", "over"}
Requests == {"none", "reading", "created", "existing", "confirming", "dropping", "over"}

StoreTypes ==
  /\ holder \in [Jobs -> Devices \cup {None}] /\ attempts \in [Jobs -> Nat]
  /\ settled \in [Jobs -> Nat] /\ drops \in [Jobs -> SUBSET Nat]
  /\ dev \in [Uploads -> Devices \cup {None}] /\ work \in [Uploads -> Works]
  /\ req \in [Uploads -> Requests]
  /\ row \in [Jobs -> Row \cup {None}] /\ file \in [Jobs -> Nat]
  /\ rpc = [r \in Readers |-> rpc[r]] /\ rjob = [r \in Readers |-> rjob[r]]
  /\ rrow = [r \in Readers |-> rrow[r]]
  /\ acked \subseteq Uploads /\ leaked \in BOOLEAN

TimesBounded == \E b \in Nat : \A j \in Jobs : row[j] # None => row[j].at <= b

\* The queue: attempts are begun one after the other, the lease is the last one's device's,
\* and an attempt whose discard is outstanding neither holds the run nor settled it.
QueueIsSound ==
  /\ \A j \in Jobs :
       /\ attempts[j] <= Tries[j]
       /\ settled[j] # 0 => holder[j] = None /\ settled[j] <= attempts[j]
       /\ \A n \in drops[j] : n <= attempts[j]
       /\ attempts[j] \in drops[j] => holder[j] = None /\ settled[j] = 0
  /\ \A u \in Uploads :
       /\ u[2] > attempts[u[1]] => work[u] = "none" /\ dev[u] = None
       /\ work[u] \in {"running", "sent"} => dev[u] # None
       /\ u[2] <= attempts[u[1]] /\ settled[u[1]] = 0 => dev[u] # None
       /\ work[u] \in {"none", "running"} => req[u] = "none"
       /\ req[u] \in {"reading", "created", "confirming"} => dev[u] # None
       /\ u \in acked => req[u] = "over"

Published == {"created", "confirming", "dropping", "over"}

\* A row is of an attempt whose put has committed, and so is what a reader took; a file a
\* reader missed does not come back.  A row whose time is up counts as taken.
RowsArePublished ==
  /\ \A j \in Jobs : row[j] # None =>
       /\ row[j].n <= Tries[j] /\ req[<<j, row[j].n>>] \in Published
       /\ row[j].old => j \in taken
  /\ \A r \in Readers : rpc[r] # "idle" =>
       /\ rjob[r] \in Jobs /\ rrow[r] \in 1..Tries[rjob[r]]
       /\ req[<<rjob[r], rrow[r]>>] \in Published
       /\ rpc[r] = "dropping" => file[rjob[r]] # rrow[r]

\* An archive that an attempt published and has not begun to drop.
Put(u) == req[u] \in {"created", "confirming"} \/ u \in acked

\* It stands from its commit on, as long as the attempt is current.
PublishedStands ==
  \A u \in Uploads : Put(u) /\ Current(u) /\ u[1] \notin taken
                      => compare(u[1], u[2]) /\ file[u[1]] = u[2]

\* A row that no upload is about to recheck or drop is of the device that has the run or
\* settled it, or a discard is still to come.
RowIsAccountedFor ==
  \A j \in Jobs :
    /\ row[j] # None /\ j \notin undropped /\ drops[j] = {}
    /\ req[<<j, row[j].n>>] \in {"confirming", "over"}
    => \/ holder[j] # None /\ holder[j] = dev[<<j, row[j].n>>]
       \/ settled[j] # 0 /\ dev[<<j, settled[j]>>] = dev[<<j, row[j].n>>]

\* The part of DiskIsAccounted that the quotas rest on: every file has a row.
FilesHaveRows == ~leaked => \A j \in Jobs : file[j] # 0 => row[j] # None

\* The file behind a row whose time is not up is the one that was published with it, or
\* missing, and never another attempt's.
NeverAnothersBytes == \A j \in Jobs : Live(j) => file[j] \in {0, row[j].n}

AInv == /\ StoreTypes /\ TimesBounded /\ QueueIsSound /\ RowsArePublished /\ PublishedStands
        /\ RowIsAccountedFor /\ NeverAnothersBytes /\ FilesHaveRows

USE ArtifactAssumption

-----------------------------------------------------------------------------
(* Uploads and publication times *)

LEMMA UploadOf ==
  /\ \A u \in Uploads : u[1] \in Jobs /\ u[2] \in 1..Tries[u[1]] /\ u = <<u[1], u[2]>>
  /\ \A j \in Jobs : \A n \in 1..Tries[j] : <<j, n>> \in Uploads
BY DEF Uploads

\* A set of naturals with an upper bound has a maximum.
LEMMA MaxOfBounded ==
  ASSUME NEW S \in SUBSET Nat, 0 \in S, NEW b \in Nat, \A x \in S : x <= b
  PROVE  Max(S) \in S /\ \A y \in S : Max(S) >= y
<1> DEFINE Less == {p \in Nat \X Nat : p[1] < p[2]}
           Bounds == {x \in Nat : \A y \in S : y <= x}
<1>1. PICK m \in Bounds : \A x \in Bounds : ~(x < m)
  <2>1. Bounds # {} /\ Bounds \subseteq Nat
    OBVIOUS
  <2>2. IsWellFoundedOn(Less, Nat)
    BY NatLessThanWellFounded DEF OpToRel
  <2>3. \E m \in Bounds : \A x \in Bounds : ~(<<x, m>> \in Less)
    <3> HIDE DEF Bounds, Less
    <3> QED BY <2>1, <2>2, WFMin
  <2> QED BY <2>1, <2>3
<1>2. m \in S
  <2> SUFFICES ASSUME m \notin S PROVE FALSE
    OBVIOUS
  <2>1. m \in Nat /\ m # 0 /\ \A y \in S : y <= m /\ y # m
    OBVIOUS
  <2>2. m - 1 \in Bounds
    BY <2>1
  <2> QED BY <1>1, <2>1, <2>2
<1>3. \E x \in S : \A y \in S : x >= y
  BY <1>2
<1> QED BY <1>3 DEF Max

\* A new row's time is a number, and later than those of the rows that stand.
LEMMA NowAt ==
  ASSUME NEW rows \in [Jobs -> Row \cup {None}], NEW b \in Nat,
         \A j \in Jobs : rows[j] # None => rows[j].at <= b
  PROVE  /\ now_at(rows) \in Nat
         /\ \A j \in Jobs : rows[j] # None => rows[j].at <= now_at(rows)
<1> DEFINE S == {0} \cup {rows[j].at : j \in {k \in Jobs : Kept(rows, k)}}
<1>1. S \in SUBSET Nat /\ 0 \in S /\ \A x \in S : x <= b
  <2>1. \A j \in Jobs : rows[j] # None => rows[j].at \in Nat
    BY DEF Row
  <2> QED BY <2>1 DEF Kept
<1>2. \A j \in Jobs : rows[j] # None => rows[j].at \in S
  BY DEF Kept
<1>3. now_at(rows) = 1 + Max(S)
  BY DEF now_at
<1> HIDE DEF S
<1>4. Max(S) \in S /\ \A y \in S : Max(S) >= y
  BY <1>1, MaxOfBounded
<1>5. PICK m \in Nat : m = Max(S) /\ \A y \in S : m >= y
  BY <1>1, <1>4
<1>6. ASSUME NEW j \in Jobs, rows[j] # None PROVE rows[j].at <= 1 + m
  <2>1. rows[j].at \in Nat /\ m >= rows[j].at
    BY <1>1, <1>2, <1>5, <1>6
  <2> QED BY <2>1
<1>7. now_at(rows) = 1 + m
  BY <1>3, <1>5
<1> QED BY <1>6, <1>7

LEMMA RowOf ==
  ASSUME StoreTypes, RowsArePublished
  PROVE  \A j \in Jobs : row[j] # None => row[j] \in Row /\ row[j].n \in 1..Tries[j]
<1> SUFFICES ASSUME NEW j \in Jobs, row[j] # None PROVE row[j] \in Row /\ row[j].n \in 1..Tries[j]
  OBVIOUS
<1>1. row[j] \in Row
  BY DEF StoreTypes
<1>2. row[j].n \in Nat \ {0} /\ row[j].n <= Tries[j] /\ Tries[j] \in Nat
  BY <1>1 DEF Row, RowsArePublished
<1> QED BY <1>1, <1>2

-----------------------------------------------------------------------------
(* The initial states *)

LEMMA InitA == Init => AInv
<1> SUFFICES ASSUME Init PROVE AInv
  OBVIOUS
<1>1. /\ holder = [j \in Jobs |-> None] /\ drops = [j \in Jobs |-> {}]
      /\ attempts = [j \in Jobs |-> IF j \in Stored THEN 1 ELSE 0] /\ settled = attempts
      /\ dev = [u \in Uploads |-> None]
      /\ work = [u \in Uploads |-> IF u[1] \in Stored THEN "over" ELSE "none"] /\ req = work
      /\ row = [j \in Jobs |-> IF j \in Stored THEN [n |-> 1, at |-> 1, old |-> FALSE] ELSE None]
      /\ file = attempts
      /\ rpc = [r \in Readers |-> "idle"]
      /\ rjob = [r \in Readers |-> None] /\ rrow = [r \in Readers |-> None]
      /\ acked = {u \in Uploads : u[1] \in Stored} /\ leaked = FALSE
  BY DEF Init
<1>2. /\ \A j \in Stored : j \in Jobs /\ Tries[j] = 1
      /\ \A u \in Uploads : u[1] \in Jobs /\ u[2] \in 1..Tries[u[1]]
      /\ \A j \in Stored : <<j, 1>> \in Uploads
  BY UploadOf
<1>3. [n |-> 1, at |-> 1, old |-> FALSE] \in Row
  BY DEF Row
<1>4. StoreTypes
  BY <1>1, <1>3 DEF StoreTypes, Works, Requests
<1>10. TimesBounded
  <2>1. \A j \in Jobs : row[j] # None => row[j].at <= 1
    BY <1>1
  <2> QED BY <2>1 DEF TimesBounded
<1>5. QueueIsSound
  BY <1>1, <1>2 DEF QueueIsSound
<1>6. RowsArePublished
  BY <1>1, <1>2 DEF RowsArePublished, Published
<1>7. PublishedStands
  <2> SUFFICES ASSUME NEW u \in Uploads, u[1] \in Stored
               PROVE  compare(u[1], u[2]) /\ file[u[1]] = u[2]
    BY <1>1 DEF PublishedStands, Put
  <2>1. u[2] = 1 /\ u[1] \in Jobs
    BY <1>2
  <2>2. row[u[1]] = [n |-> 1, at |-> 1, old |-> FALSE] /\ file[u[1]] = 1
    BY <1>1, <2>1
  <2>3. row[u[1]] # None
    BY <1>3, <2>2
  <2>4. row[u[1]].n = 1
    BY <2>2
  <2> QED BY <2>1, <2>2, <2>3, <2>4 DEF compare
<1>8. RowIsAccountedFor
  BY <1>1, <1>2 DEF RowIsAccountedFor
<1>9. NeverAnothersBytes /\ FilesHaveRows
  BY <1>1, <1>3 DEF NeverAnothersBytes, FilesHaveRows, Live
<1> QED BY <1>4, <1>5, <1>6, <1>7, <1>8, <1>9, <1>10 DEF AInv

-----------------------------------------------------------------------------
(* Steps that take from the store *)

\* What such a step does to a run: nothing; its row and its file go; or, while it has no
\* row that counts, a file is moved to its path or removed from it.
Untouched(j) == row'[j] = row[j] /\ file'[j] = file[j]
Dropped(j)   == row[j] # None /\ row'[j] = None /\ file'[j] = 0
Moved(j)     == /\ row'[j] = row[j] /\ (row[j] = None \/ row[j].old)
                /\ \/ file'[j] = 0
                   \/ /\ file'[j] \in 1..Tries[j] /\ req[<<j, file'[j]>>] = "reading"
                      /\ leaked' \/ row[j] # None

\* What it does to the discards outstanding: one that goes dropped the row, or was lost.
Discards(j) ==
  /\ drops'[j] \subseteq drops[j]
  /\ drops'[j] # drops[j] => row'[j] = None \/ j \in undropped'

\* What it does to an upload's request: nothing, or it is over.
Finishes(u) ==
  /\ req[u] # "none" /\ req'[u] = "over"
  /\ req[u] \in {"created", "dropping"} => ~compare(u[1], u[2])' \/ u[1] \in undropped'

\* And to a reader: it stops, took a row that stands, or missed its file.
ReaderGoesOn(r) ==
  \/ rpc'[r] = "idle"
  \/ rpc'[r] = rpc[r] /\ rjob'[r] = rjob[r] /\ rrow'[r] = rrow[r]
  \/ /\ rpc'[r] = "holding" /\ rjob'[r] \in Jobs
     /\ row[rjob'[r]] # None /\ rrow'[r] = row[rjob'[r]].n
  \/ /\ rpc[r] = "holding" /\ rjob'[r] = rjob[r] /\ rrow'[r] = rrow[r] /\ file[rjob[r]] = 0

LEMMA StoreStep ==
  ASSUME AInv, StoreTypes',
         UNCHANGED <<holder, attempts, settled, dev, work>>,
         taken \subseteq taken', undropped \subseteq undropped', leaked => leaked',
         \A j \in Jobs : Untouched(j) \/ Dropped(j) \/ Moved(j),
         \A u \in Uploads : Put(u) /\ Current(u) /\ Dropped(u[1]) => u[1] \in taken',
         \A j \in Jobs : Discards(j),
         \A u \in Uploads : req'[u] = req[u] \/ Finishes(u),
         acked \subseteq acked',
         \A u \in acked' \ acked : req[u] = "confirming" /\ req'[u] = "over",
         \A r \in Readers : ReaderGoesOn(r)
  PROVE  AInv'
<1> USE DEF AInv
<1>1. /\ \A u \in Uploads : u[1] \in Jobs /\ u[2] \in Nat /\ u[2] # 0
      /\ \A u \in Uploads : u[2] \in 1..Tries[u[1]] /\ u = <<u[1], u[2]>>
      /\ \A j \in Jobs : \A n \in 1..Tries[j] : <<j, n>> \in Uploads
  BY UploadOf
<1>2. \A j \in Jobs : row'[j] # None => row'[j] = row[j]
  BY DEF Untouched, Dropped, Moved
<1>3. \A u \in Uploads : req[u] \in Published => req'[u] \in Published
  BY DEF Finishes, Published
<1>4. TimesBounded'
  BY <1>2 DEF TimesBounded
<1>5. QueueIsSound'
  <2>1. \A j \in Jobs :
          /\ attempts'[j] <= Tries[j]
          /\ settled'[j] # 0 => holder'[j] = None /\ settled'[j] <= attempts'[j]
          /\ \A n \in drops'[j] : n <= attempts'[j]
          /\ attempts'[j] \in drops'[j] => holder'[j] = None /\ settled'[j] = 0
    BY DEF QueueIsSound, Discards
  <2>2. \A u \in Uploads :
          /\ u[2] > attempts'[u[1]] => work'[u] = "none" /\ dev'[u] = None
          /\ work'[u] \in {"running", "sent"} => dev'[u] # None
          /\ u[2] <= attempts'[u[1]] /\ settled'[u[1]] = 0 => dev'[u] # None
          /\ work'[u] \in {"none", "running"} => req'[u] = "none"
          /\ req'[u] \in {"reading", "created", "confirming"} => dev'[u] # None
    BY DEF QueueIsSound, Finishes
  <2>3. \A u \in Uploads : u \in acked' => req'[u] = "over"
    BY DEF QueueIsSound, Finishes
  <2> QED BY <2>1, <2>2, <2>3 DEF QueueIsSound
<1>6. RowsArePublished'
  <2>1. ASSUME NEW j \in Jobs, row'[j] # None
        PROVE  /\ row'[j].n <= Tries[j] /\ req'[<<j, row'[j].n>>] \in Published
               /\ row'[j].old => j \in taken'
    <3>1. row'[j] = row[j] /\ row[j].n \in 1..Tries[j] /\ req[<<j, row[j].n>>] \in Published
          /\ (row[j].old => j \in taken)
      BY <1>2, <2>1 DEF RowsArePublished, StoreTypes, Row
    <3> QED BY <1>1, <1>3, <3>1
  <2>2. ASSUME NEW r \in Readers, rpc'[r] # "idle"
        PROVE  /\ rjob'[r] \in Jobs /\ rrow'[r] \in 1..Tries[rjob'[r]]
               /\ req'[<<rjob'[r], rrow'[r]>>] \in Published
               /\ rpc'[r] = "dropping" => file'[rjob'[r]] # rrow'[r]
    <3>1. /\ rjob'[r] \in Jobs /\ rrow'[r] \in 1..Tries[rjob'[r]]
          /\ req[<<rjob'[r], rrow'[r]>>] \in Published
          /\ rpc'[r] = "dropping" => file[rjob'[r]] # rrow'[r]
      <4>1. CASE rpc'[r] = rpc[r] /\ rjob'[r] = rjob[r] /\ rrow'[r] = rrow[r]
        BY <2>2, <4>1 DEF RowsArePublished
      <4>2. CASE /\ rpc'[r] = "holding" /\ rjob'[r] \in Jobs
                 /\ row[rjob'[r]] # None /\ rrow'[r] = row[rjob'[r]].n
        BY <4>2 DEF RowsArePublished, StoreTypes, Row
      <4>3. CASE /\ rpc[r] = "holding" /\ rjob'[r] = rjob[r] /\ rrow'[r] = rrow[r]
                 /\ file[rjob[r]] = 0
        <5>1. /\ rjob[r] \in Jobs /\ rrow[r] \in 1..Tries[rjob[r]]
              /\ req[<<rjob[r], rrow[r]>>] \in Published
          BY <4>3 DEF RowsArePublished
        <5>2. Tries[rjob[r]] \in Nat /\ rrow[r] # 0
          BY <5>1
        <5> QED BY <4>3, <5>1, <5>2
      <4> QED BY <2>2, <4>1, <4>2, <4>3 DEF ReaderGoesOn
    <3>2. rpc'[r] = "dropping" => file'[rjob'[r]] # rrow'[r]
      <4>1. CASE Untouched(rjob'[r])
        BY <3>1, <4>1 DEF Untouched
      <4>2. CASE file'[rjob'[r]] = 0
        BY <3>1, <4>2
      <4>3. CASE req[<<rjob'[r], file'[rjob'[r]]>>] = "reading"
        BY <3>1, <4>3 DEF Published
      <4> QED BY <3>1, <4>1, <4>2, <4>3 DEF Dropped, Moved
    <3> QED BY <1>1, <1>3, <3>1, <3>2
  <2> QED BY <2>1, <2>2 DEF RowsArePublished
<1>7. PublishedStands'
  <2> SUFFICES ASSUME NEW u \in Uploads, Put(u)', Current(u)', u[1] \notin taken'
               PROVE  compare(u[1], u[2])' /\ file'[u[1]] = u[2]
    BY DEF PublishedStands
  <2>1. Put(u)
    BY DEF Put, Finishes
  <2>2. Current(u)
    BY DEF Current, holds_lease
  <2>3. row[u[1]] # None /\ row[u[1]].n = u[2] /\ file[u[1]] = u[2]
    BY <2>1, <2>2 DEF PublishedStands, compare
  <2>4. Untouched(u[1])
    BY <1>1, <2>1, <2>2, <2>3 DEF Moved, RowsArePublished
  <2> QED BY <2>3, <2>4 DEF compare, Untouched
<1>8. RowIsAccountedFor'
  <2> SUFFICES ASSUME NEW j \in Jobs, row'[j] # None, j \notin undropped', drops'[j] = {},
                      req'[<<j, row'[j].n>>] \in {"confirming", "over"}
               PROVE  \/ holder[j] # None /\ holder[j] = dev[<<j, row[j].n>>]
                      \/ settled[j] # 0 /\ dev[<<j, settled[j]>>] = dev[<<j, row[j].n>>]
    BY <1>2 DEF RowIsAccountedFor
  <2>1. /\ row'[j] = row[j] /\ row[j].n \in 1..Tries[j] /\ drops[j] = {}
        /\ req[<<j, row[j].n>>] \in Published
    BY <1>2 DEF RowsArePublished, StoreTypes, Row, Discards
  <2>2. PICK u \in Uploads : u = <<j, row[j].n>> /\ u[1] = j /\ u[2] = row[j].n
    BY <1>1, <2>1
  <2>3. req[u] \in {"confirming", "over"}
    BY <2>1, <2>2 DEF Finishes, Published, compare
  <2> QED BY <2>1, <2>2, <2>3 DEF RowIsAccountedFor
<1>9. NeverAnothersBytes'
  BY DEF NeverAnothersBytes, Live, Untouched, Dropped, Moved
<1>10. FilesHaveRows'
  BY DEF FilesHaveRows, Untouched, Dropped, Moved, StoreTypes
<1> QED BY <1>4, <1>5, <1>6, <1>7, <1>8, <1>9, <1>10

LEMMA StageFailsA == ASSUME AInv, NEW u \in Uploads, StageFails(u) PROVE AInv'
<1>1. StoreTypes'
  BY DEF AInv, StoreTypes, StageFails, queue, agents, store, readers, seen, Requests
<1>2. \A v \in Uploads : req'[v] = req[v] \/ Finishes(v)
  BY DEF AInv, StoreTypes, StageFails, Finishes
<1> QED BY <1>1, <1>2, StoreStep DEF StageFails, queue, agents, store, readers, seen, Untouched,
            Dropped, Discards, ReaderGoesOn

\* Compare-and-delete: the row of a publication and its file, or nothing.
LEMMA DiscardOwn ==
  ASSUME StoreTypes, NEW j \in Jobs, NEW n, discard_own(j, n)
  PROVE  /\ row' \in [Jobs -> Row \cup {None}] /\ file' \in [Jobs -> Nat]
         /\ \A k \in Jobs : Untouched(k) \/ (Dropped(k) /\ k = j /\ compare(j, n))
         /\ ~compare(j, n)'
<1>1. CASE compare(j, n)
  <2>1. row' = [row EXCEPT ![j] = None] /\ file' = [file EXCEPT ![j] = 0]
    BY <1>1 DEF discard_own
  <2>2. row[j] # None
    BY <1>1 DEF compare
  <2>3. /\ row' \in [Jobs -> Row \cup {None}] /\ file' \in [Jobs -> Nat]
        /\ row'[j] = None /\ file'[j] = 0
        /\ \A k \in Jobs \ {j} : row'[k] = row[k] /\ file'[k] = file[k]
    BY <2>1 DEF StoreTypes
  <2> QED BY <1>1, <2>2, <2>3 DEF Untouched, Dropped, compare
<1>2. CASE ~compare(j, n)
  <2>1. row' = row /\ file' = file
    BY <1>2 DEF discard_own
  <2> QED BY <1>2, <2>1 DEF StoreTypes, Untouched, compare
<1> QED BY <1>1, <1>2

LEMMA DropOwnA == ASSUME AInv, NEW u \in Uploads, DropOwn(u) PROVE AInv'
<1>1. /\ req[u] = "dropping" /\ req' = [req EXCEPT ![u] = "over"] /\ u[1] \in Jobs /\ StoreTypes
      /\ UNCHANGED <<holder, attempts, settled, drops, dev, work, rpc, rjob, rrow>>
      /\ UNCHANGED <<acked, taken, leaked>>
  BY UploadOf DEF DropOwn, queue, agents, readers, AInv
<1>2. req' \in [Uploads -> Requests] /\ req'[u] = "over" /\ \A v \in Uploads \ {u} : req'[v] = req[v]
  BY <1>1 DEF StoreTypes, Requests
<1>3. CASE discard_own(u[1], u[2]) /\ UNCHANGED <<undropped, faults>>
  <2>1. /\ row' \in [Jobs -> Row \cup {None}] /\ file' \in [Jobs -> Nat]
        /\ \A k \in Jobs : Untouched(k) \/ (Dropped(k) /\ k = u[1] /\ compare(u[1], u[2]))
        /\ ~compare(u[1], u[2])'
    BY <1>1, <1>3, DiscardOwn
  <2>2. StoreTypes'
    BY <1>1, <1>2, <2>1 DEF StoreTypes
  <2>3. \A v \in Uploads : Put(v) /\ Current(v) /\ Dropped(v[1]) => v[1] \in taken'
    <3> SUFFICES ASSUME NEW v \in Uploads, Put(v), Current(v), Dropped(v[1]), v[1] \notin taken
                 PROVE  FALSE
      BY <1>1
    <3>1. compare(v[1], v[2]) /\ v[1] = u[1] /\ compare(u[1], u[2])
      <4>1. compare(v[1], v[2])
        BY DEF AInv, PublishedStands
      <4>2. ~Untouched(v[1]) /\ v[1] \in Jobs
        BY UploadOf DEF Untouched, Dropped
      <4> QED BY <4>1, <4>2, <2>1
    <3>2. u = v
      BY <3>1, UploadOf DEF compare
    <3> QED BY <1>1, <3>2 DEF Put, AInv, QueueIsSound
  <2>4. \A v \in Uploads : req'[v] = req[v] \/ Finishes(v)
    BY <1>1, <1>2, <2>1 DEF Finishes
  <2>5. \A r \in Readers : ReaderGoesOn(r)
    BY <1>1 DEF ReaderGoesOn
  <2>6. \A k \in Jobs : Untouched(k) \/ Dropped(k) \/ Moved(k)
    BY <2>1
  <2> QED BY <1>1, <1>3, <2>2, <2>3, <2>4, <2>5, <2>6, StoreStep DEF Discards
<1>4. CASE undropped' = undropped \cup {u[1]} /\ UNCHANGED store
  <2>1. StoreTypes'
    BY <1>1, <1>2, <1>4 DEF StoreTypes, store
  <2>2. \A k \in Jobs : Untouched(k) /\ ~Dropped(k)
    BY <1>4 DEF store, Untouched, Dropped
  <2>3. \A v \in Uploads : req'[v] = req[v] \/ Finishes(v)
    BY <1>1, <1>2, <1>4 DEF Finishes
  <2>4. \A r \in Readers : ReaderGoesOn(r)
    BY <1>1 DEF ReaderGoesOn
  <2>5. \A v \in Uploads : Put(v) /\ Current(v) /\ Dropped(v[1]) => v[1] \in taken'
    BY <2>2, UploadOf
  <2> QED BY <1>1, <1>4, <2>1, <2>2, <2>3, <2>4, <2>5, StoreStep DEF Discards
<1> QED BY <1>3, <1>4 DEF DropOwn

\* get: the rows whose time is up go, with their files.
LEMMA ExpiredGo ==
  ASSUME StoreTypes, RowsArePublished
  PROVE  LET rows == drop_rows(row, expired_rows(row))
             files == unlink_all(file, expired_rows(row))
         IN /\ rows \in [Jobs -> Row \cup {None}] /\ files \in [Jobs -> Nat]
            /\ \A k \in Jobs :
                 \/ rows[k] = row[k] /\ files[k] = file[k] /\ ~(row[k] # None /\ row[k].old)
                 \/ /\ row[k] # None /\ row[k].old /\ rows[k] = None /\ files[k] = 0
                    /\ k \in taken
<1>1. \A k \in Jobs : k \in expired_rows(row) <=> row[k] # None /\ row[k].old
  BY DEF expired_rows, Kept
<1> QED BY <1>1 DEF drop_rows, unlink_all, StoreTypes, RowsArePublished

LEMMA ConfirmA == ASSUME AInv, NEW u \in Uploads, Confirm(u) PROVE AInv'
<1> DEFINE rows == drop_rows(row, expired_rows(row))
           files == unlink_all(file, expired_rows(row))
           stored == rows[u[1]] # None /\ files[u[1]] # 0
<1>1. /\ req[u] = "confirming" /\ req' = [req EXCEPT ![u] = "over"]
      /\ row' = IF stored THEN rows ELSE [rows EXCEPT ![u[1]] = None]
      /\ file' = files
      /\ acked' = IF stored THEN acked \cup {u} ELSE acked
      /\ UNCHANGED <<holder, attempts, settled, drops, dev, work, rpc, rjob, rrow>>
      /\ UNCHANGED <<taken, undropped, leaked>>
  BY DEF Confirm, queue, agents, readers
<1>2. /\ rows \in [Jobs -> Row \cup {None}] /\ files \in [Jobs -> Nat]
      /\ \A k \in Jobs :
           \/ rows[k] = row[k] /\ files[k] = file[k] /\ ~(row[k] # None /\ row[k].old)
           \/ row[k] # None /\ row[k].old /\ rows[k] = None /\ files[k] = 0 /\ k \in taken
  BY ExpiredGo DEF AInv
<1> HIDE DEF rows, files
<1>3. StoreTypes /\ u[1] \in Jobs
  BY UploadOf DEF AInv
<1>4. req' \in [Uploads -> Requests] /\ req'[u] = "over" /\ \A v \in Uploads \ {u} : req'[v] = req[v]
  BY <1>1, <1>3 DEF StoreTypes, Requests
<1>5. /\ row' \in [Jobs -> Row \cup {None}] /\ acked' \subseteq Uploads
      /\ \A k \in Jobs \ {u[1]} : row'[k] = rows[k]
      /\ row'[u[1]] = IF stored THEN rows[u[1]] ELSE None
  BY <1>1, <1>2, <1>3 DEF StoreTypes
<1>6. StoreTypes'
  BY <1>1, <1>2, <1>3, <1>4, <1>5 DEF StoreTypes
<1>7. \A k \in Jobs : Untouched(k) \/ (Dropped(k) /\ (k \in taken \/ file[k] = 0))
  <2> SUFFICES ASSUME NEW k \in Jobs PROVE Untouched(k) \/ (Dropped(k) /\ (k \in taken \/ file[k] = 0))
    OBVIOUS
  <2>1. CASE row'[k] = rows[k]
    BY <1>1, <1>2, <2>1 DEF Untouched, Dropped
  <2>2. CASE k = u[1] /\ ~stored /\ rows[k] # None
    BY <1>1, <1>2, <1>5, <2>2 DEF Dropped
  <2> QED BY <1>5, <2>1, <2>2
<1>8. \A v \in Uploads : Put(v) /\ Current(v) /\ Dropped(v[1]) => v[1] \in taken'
  <2> SUFFICES ASSUME NEW v \in Uploads, Put(v), Current(v), Dropped(v[1]), v[1] \notin taken
               PROVE  FALSE
    BY <1>1
  <2>1. v[1] \in Jobs /\ v[2] \in 1..Tries[v[1]] /\ ~Untouched(v[1])
    BY UploadOf DEF Untouched, Dropped
  <2>2. file[v[1]] = v[2] /\ file[v[1]] = 0
    BY <2>1, <1>7 DEF AInv, PublishedStands
  <2> QED BY <2>1, <2>2
<1>9. \A v \in Uploads : req'[v] = req[v] \/ Finishes(v)
  BY <1>1, <1>4 DEF Finishes
<1>10. \A r \in Readers : ReaderGoesOn(r)
  BY <1>1 DEF ReaderGoesOn
<1>11. acked \subseteq acked' /\ \A v \in acked' \ acked : req[v] = "confirming" /\ req'[v] = "over"
  BY <1>1, <1>4
<1>12. \A k \in Jobs : Untouched(k) \/ Dropped(k) \/ Moved(k)
  BY <1>7
<1> QED BY <1>1, <1>6, <1>8, <1>9, <1>10, <1>11, <1>12, StoreStep DEF Discards

LEMMA discard_artifactA == ASSUME AInv, NEW j \in Jobs, discard_artifact(j) PROVE AInv'
<1>1. PICK n \in drops[j] :
        /\ drops' = [drops EXCEPT ![j] = @ \ {n}]
        /\ \/ /\ row' = [row EXCEPT ![j] = None]
              /\ file' = IF row[j] # None THEN [file EXCEPT ![j] = 0] ELSE file
              /\ taken' = IF attempts[j] > n THEN taken \cup {j} ELSE taken
              /\ undropped' = undropped
           \/ undropped' = undropped \cup {j} /\ UNCHANGED <<row, file, taken>>
  BY DEF discard_artifact, store
<1>2. /\ UNCHANGED <<holder, attempts, settled, dev, work, req, rpc, rjob, rrow, acked, leaked>>
      /\ StoreTypes
  BY DEF discard_artifact, agents, readers, AInv
<1>3. /\ drops' \in [Jobs -> SUBSET Nat] /\ drops'[j] = drops[j] \ {n}
      /\ \A k \in Jobs \ {j} : drops'[k] = drops[k]
  BY <1>1, <1>2 DEF StoreTypes
<1>4. \A u \in Uploads : req'[u] = req[u]
  BY <1>2
<1>5. \A r \in Readers : ReaderGoesOn(r)
  BY <1>2 DEF ReaderGoesOn
<1>6. CASE /\ row' = [row EXCEPT ![j] = None]
           /\ file' = IF row[j] # None THEN [file EXCEPT ![j] = 0] ELSE file
           /\ taken' = IF attempts[j] > n THEN taken \cup {j} ELSE taken
           /\ undropped' = undropped
  <2>1. /\ row' \in [Jobs -> Row \cup {None}] /\ file' \in [Jobs -> Nat] /\ row'[j] = None
        /\ file'[j] = IF row[j] # None THEN 0 ELSE file[j]
        /\ \A k \in Jobs \ {j} : row'[k] = row[k] /\ file'[k] = file[k]
    BY <1>2, <1>6 DEF StoreTypes
  <2>2. StoreTypes'
    BY <1>2, <1>3, <2>1 DEF StoreTypes
  <2>3. \A k \in Jobs : Untouched(k) \/ (Dropped(k) /\ k = j)
    BY <2>1 DEF Untouched, Dropped
  <2>4. \A u \in Uploads : Put(u) /\ Current(u) /\ Dropped(u[1]) => u[1] \in taken'
    <3> SUFFICES ASSUME NEW u \in Uploads, Current(u), Dropped(u[1]) PROVE u[1] \in taken'
      OBVIOUS
    <3>1. u[1] = j /\ u[2] \in Nat /\ u[2] # 0
      BY <2>3, UploadOf DEF Untouched, Dropped
    <3>2. n <= attempts[j] /\ n \in Nat /\ attempts[j] \in Nat
      BY <1>2 DEF StoreTypes, AInv, QueueIsSound
    <3>3. n # attempts[j]
      BY <1>2, <3>1 DEF AInv, QueueIsSound, StoreTypes, Current, holds_lease
    <3> QED BY <1>6, <3>1, <3>2, <3>3
  <2>5. taken \subseteq taken'
    BY <1>6
  <2>6. \A k \in Jobs : Untouched(k) \/ Dropped(k) \/ Moved(k)
    BY <2>3
  <2>7. \A k \in Jobs : Discards(k)
    BY <1>3, <2>1 DEF Discards
  <2> QED BY <1>2, <1>4, <1>5, <1>6, <2>2, <2>4, <2>5, <2>6, <2>7, StoreStep
<1>7. CASE undropped' = undropped \cup {j} /\ UNCHANGED <<row, file, taken>>
  <2>1. StoreTypes'
    BY <1>2, <1>3, <1>7 DEF StoreTypes
  <2>2. \A k \in Jobs : Untouched(k) /\ ~Dropped(k)
    BY <1>7 DEF Untouched, Dropped
  <2>3. \A u \in Uploads : Put(u) /\ Current(u) /\ Dropped(u[1]) => u[1] \in taken'
    BY <2>2, UploadOf
  <2>4. \A k \in Jobs : Discards(k)
    BY <1>3, <1>7 DEF Discards
  <2>5. taken \subseteq taken' /\ undropped \subseteq undropped' /\ (leaked => leaked')
    BY <1>2, <1>7
  <2>7. \A k \in Jobs : Untouched(k) \/ Dropped(k) \/ Moved(k)
    BY <2>2
  <2> QED BY <1>2, <1>4, <1>5, <2>1, <2>3, <2>4, <2>5, <2>7, StoreStep
<1> QED BY <1>1, <1>6, <1>7

LEMMA ReaderGetsA == ASSUME AInv, NEW r \in Readers, NEW j \in Jobs, ReaderGets(r, j) PROVE AInv'
<1> DEFINE rows == drop_rows(row, expired_rows(row))
           files == unlink_all(file, expired_rows(row))
<1>1. /\ UNCHANGED <<holder, attempts, settled, drops, dev, work, req>>
      /\ UNCHANGED <<acked, taken, undropped, leaked>>
      /\ row' = rows /\ file' = files /\ row[j] # None
  BY DEF ReaderGets, queue, agents, seen
<1>2. /\ rows \in [Jobs -> Row \cup {None}] /\ files \in [Jobs -> Nat]
      /\ \A k \in Jobs :
           \/ rows[k] = row[k] /\ files[k] = file[k] /\ ~(row[k] # None /\ row[k].old)
           \/ row[k] # None /\ row[k].old /\ rows[k] = None /\ files[k] = 0 /\ k \in taken
  BY ExpiredGo DEF AInv
<1> HIDE DEF rows, files
<1>3. StoreTypes
  BY DEF AInv
<1>4. /\ rpc' = [q \in Readers |-> rpc'[q]] /\ rjob' = [q \in Readers |-> rjob'[q]]
      /\ rrow' = [q \in Readers |-> rrow'[q]]
  <2>1. CASE Live(j)
    BY <1>3, <2>1 DEF StoreTypes, ReaderGets
  <2>2. CASE ~Live(j)
    BY <1>3, <2>2 DEF StoreTypes, ReaderGets
  <2> QED BY <2>1, <2>2
<1>10. \A q \in Readers : ReaderGoesOn(q)
  <2>1. CASE Live(j)
    <3>1. \A q \in Readers \ {r} : rpc'[q] = rpc[q] /\ rjob'[q] = rjob[q] /\ rrow'[q] = rrow[q]
      BY <1>3, <2>1 DEF StoreTypes, ReaderGets
    <3>2. rpc'[r] = "holding" /\ rjob'[r] = j /\ rrow'[r] = row[j].n
      BY <1>3, <2>1 DEF StoreTypes, ReaderGets
    <3> QED BY <1>1, <3>1, <3>2 DEF ReaderGoesOn
  <2>2. CASE ~Live(j)
    <3>1. rpc' = rpc /\ rjob' = rjob /\ rrow' = rrow
      BY <2>2 DEF ReaderGets
    <3> QED BY <3>1 DEF ReaderGoesOn
  <2> QED BY <2>1, <2>2
<1>5. StoreTypes'
  BY <1>1, <1>2, <1>3, <1>4 DEF StoreTypes
<1>6. \A k \in Jobs : Untouched(k) \/ (Dropped(k) /\ k \in taken)
  BY <1>1, <1>2 DEF Untouched, Dropped
<1>8. \A v \in Uploads : Put(v) /\ Current(v) /\ Dropped(v[1]) => v[1] \in taken'
  BY <1>1, <1>6, UploadOf DEF Untouched, Dropped
<1>9. \A k \in Jobs : Untouched(k) \/ Dropped(k) \/ Moved(k)
  BY <1>6
<1> QED BY <1>1, <1>5, <1>8, <1>9, <1>10, StoreStep DEF Discards

LEMMA ReaderLooksA == ASSUME AInv, NEW r \in Readers, ReaderLooks(r) PROVE AInv'
<1>1. /\ UNCHANGED <<holder, attempts, settled, drops, dev, work, req, row, file>>
      /\ UNCHANGED <<acked, taken, undropped, leaked>>
      /\ rpc[r] = "holding" /\ StoreTypes
  BY DEF ReaderLooks, queue, agents, store, seen, AInv
<1>2. /\ rpc' = [q \in Readers |-> rpc'[q]] /\ rjob' = [q \in Readers |-> rjob'[q]]
      /\ rrow' = [q \in Readers |-> rrow'[q]]
      /\ \A q \in Readers \ {r} : rpc'[q] = rpc[q] /\ rjob'[q] = rjob[q] /\ rrow'[q] = rrow[q]
      /\ \/ rpc'[r] = "idle"
         \/ rjob'[r] = rjob[r] /\ rrow'[r] = rrow[r] /\ file[rjob[r]] = 0
  <2>1. CASE file[rjob[r]] # 0
    BY <1>1, <2>1 DEF StoreTypes, ReaderLooks
  <2>2. CASE file[rjob[r]] = 0
    BY <1>1, <2>2 DEF StoreTypes, ReaderLooks
  <2> QED BY <2>1, <2>2
<1>3. StoreTypes'
  BY <1>1, <1>2 DEF StoreTypes
<1>4. \A q \in Readers : ReaderGoesOn(q)
  BY <1>1, <1>2 DEF ReaderGoesOn
<1>5. \A k \in Jobs : Untouched(k) /\ ~Dropped(k)
  BY <1>1 DEF Untouched, Dropped
<1>6. \A v \in Uploads : Put(v) /\ Current(v) /\ Dropped(v[1]) => v[1] \in taken'
  BY <1>5, UploadOf
<1> QED BY <1>1, <1>3, <1>4, <1>5, <1>6, StoreStep DEF Discards

LEMMA ReaderDropsA == ASSUME AInv, NEW r \in Readers, ReaderDrops(r) PROVE AInv'
<1>1. /\ UNCHANGED <<holder, attempts, settled, drops, dev, work, req>>
      /\ UNCHANGED <<acked, taken, undropped, leaked>>
      /\ rpc[r] = "dropping" /\ StoreTypes /\ discard_own(rjob[r], rrow[r])
      /\ rpc' = [rpc EXCEPT ![r] = "idle"]
      /\ rjob' = [rjob EXCEPT ![r] = None] /\ rrow' = [rrow EXCEPT ![r] = None]
  BY DEF ReaderDrops, queue, agents, seen, AInv
<1>2. rjob[r] \in Jobs /\ file[rjob[r]] # rrow[r]
  BY <1>1 DEF AInv, RowsArePublished
<1>3. /\ row' \in [Jobs -> Row \cup {None}] /\ file' \in [Jobs -> Nat]
      /\ \A k \in Jobs : Untouched(k) \/ (Dropped(k) /\ k = rjob[r] /\ compare(rjob[r], rrow[r]))
  BY <1>1, <1>2, DiscardOwn
<1>4. /\ rpc' = [q \in Readers |-> rpc'[q]] /\ rjob' = [q \in Readers |-> rjob'[q]]
      /\ rrow' = [q \in Readers |-> rrow'[q]]
      /\ \A q \in Readers \ {r} : rpc'[q] = rpc[q] /\ rjob'[q] = rjob[q] /\ rrow'[q] = rrow[q]
      /\ rpc'[r] = "idle"
  BY <1>1 DEF StoreTypes
<1>5. StoreTypes'
  BY <1>1, <1>3, <1>4 DEF StoreTypes
<1>6. \A q \in Readers : ReaderGoesOn(q)
  BY <1>4 DEF ReaderGoesOn
<1>7. \A v \in Uploads : Put(v) /\ Current(v) /\ Dropped(v[1]) => v[1] \in taken'
  <2> SUFFICES ASSUME NEW v \in Uploads, Put(v), Current(v), Dropped(v[1]), v[1] \notin taken
               PROVE  FALSE
    BY <1>1
  <2>1. v[1] \in Jobs /\ ~Untouched(v[1])
    BY UploadOf DEF Untouched, Dropped
  <2>2. v[1] = rjob[r] /\ compare(rjob[r], rrow[r])
    BY <1>3, <2>1
  <2>3. compare(v[1], v[2]) /\ file[v[1]] = v[2]
    BY DEF AInv, PublishedStands
  <2> QED BY <1>2, <2>2, <2>3 DEF compare
<1>8. \A k \in Jobs : Untouched(k) \/ Dropped(k) \/ Moved(k)
  BY <1>3
<1> QED BY <1>1, <1>5, <1>6, <1>7, <1>8, StoreStep DEF Discards

\* The staged file takes a run's path only while the run has no row that counts.
LEMMA RenameMoves ==
  ASSUME StoreTypes, NEW u \in Uploads
  PROVE  /\ rename(u) \in [Jobs -> Nat]
         /\ \A k \in Jobs : \/ rename(u)[k] = file[k]
                            \/ /\ k = u[1] /\ rename(u)[k] = u[2]
                               /\ row[k] = None \/ row[k].old
<1>1. u[1] \in Jobs /\ u[2] \in Nat
  BY UploadOf
<1>2. put_finds[u[1]] = None => row[u[1]] = None \/ row[u[1]].old
  BY <1>1 DEF put_finds, drop_rows, expired_rows, Kept
<1>3. CASE put_finds[u[1]] = None
  <2>1. rename(u) = [file EXCEPT ![u[1]] = u[2]]
    BY <1>3 DEF rename
  <2> QED BY <1>1, <1>2, <1>3, <2>1 DEF StoreTypes
<1>4. CASE put_finds[u[1]] # None
  <2>1. rename(u) = file
    BY <1>4 DEF rename
  <2> QED BY <2>1 DEF StoreTypes
<1> QED BY <1>3, <1>4

\* A put whose commit was rolled back.
LEMMA RolledBackA ==
  ASSUME AInv, NEW u \in Uploads, req[u] = "reading", req' = [req EXCEPT ![u] = "over"],
         file' = put_undo(u, rename(u)),
         UNCHANGED <<row, taken, leaked, undropped, queue, agents, readers, acked>>
  PROVE  AInv'
<1>1. /\ UNCHANGED <<holder, attempts, settled, drops, dev, work, rpc, rjob, rrow>>
      /\ StoreTypes /\ u[1] \in Jobs /\ u[2] \in 1..Tries[u[1]] /\ u = <<u[1], u[2]>>
  BY UploadOf DEF queue, agents, readers, AInv
<1>2. req' \in [Uploads -> Requests] /\ req'[u] = "over" /\ \A v \in Uploads \ {u} : req'[v] = req[v]
  BY <1>1 DEF StoreTypes, Requests
<1>3. /\ rename(u) \in [Jobs -> Nat]
      /\ \A k \in Jobs : \/ rename(u)[k] = file[k]
                         \/ k = u[1] /\ rename(u)[k] = u[2] /\ (row[k] = None \/ row[k].old)
  BY <1>1, RenameMoves
<1>4. file' \in [Jobs -> Nat] /\ \A k \in Jobs : Untouched(k) \/ Moved(k)
  <2>1. CASE row[u[1]] = None
    <3>1. file' = [rename(u) EXCEPT ![u[1]] = 0]
      BY <2>1 DEF put_undo
    <3>2. /\ file' \in [Jobs -> Nat] /\ file'[u[1]] = 0
          /\ \A k \in Jobs \ {u[1]} : file'[k] = file[k]
      BY <1>1, <1>3, <3>1
    <3> QED BY <2>1, <3>2 DEF Untouched, Moved
  <2>2. CASE row[u[1]] # None
    <3>1. file' = rename(u)
      BY <2>2 DEF put_undo
    <3>2. \A k \in Jobs : Untouched(k) \/ (k = u[1] /\ file'[k] = u[2] /\ row[k].old)
      BY <1>3, <2>2, <3>1 DEF Untouched
    <3> QED BY <1>1, <1>3, <2>2, <3>1, <3>2 DEF Moved
  <2> QED BY <2>1, <2>2
<1>5. StoreTypes'
  BY <1>1, <1>2, <1>4 DEF StoreTypes
<1>6. \A v \in Uploads : req'[v] = req[v] \/ Finishes(v)
  BY <1>2 DEF Finishes
<1>7. \A r \in Readers : ReaderGoesOn(r)
  BY <1>1 DEF ReaderGoesOn
<1>8. \A v \in Uploads : Put(v) /\ Current(v) /\ Dropped(v[1]) => v[1] \in taken'
  BY UploadOf DEF Dropped
<1> QED BY <1>1, <1>4, <1>5, <1>6, <1>7, <1>8, StoreStep DEF Discards

LEMMA CrashA == ASSUME AInv, Crash PROVE AInv'
<1>1. /\ UNCHANGED <<holder, attempts, settled, dev, work, row, acked, taken>> /\ StoreTypes
      /\ req' = [u \in Uploads |-> IF req[u] = "none" THEN "none" ELSE "over"]
      /\ drops' = [j \in Jobs |-> {}] /\ undropped \subseteq undropped'
      /\ rpc' = [r \in Readers |-> "idle"]
      /\ rjob' = [r \in Readers |-> None] /\ rrow' = [r \in Readers |-> None]
      /\ \A j \in Jobs : drops[j] # {} => j \in undropped'
  BY DEF Crash, agents, AInv
<1>2. \A u \in Uploads : req[u] \in {"created", "dropping", "confirming"} => u[1] \in undropped'
  BY UploadOf DEF Crash
<1>3. /\ file' \in [Jobs -> Nat] /\ leaked' \in BOOLEAN /\ (leaked => leaked')
      /\ \A k \in Jobs : Untouched(k) \/ Moved(k)
  <2>1. CASE UNCHANGED <<file, leaked>>
    BY <1>1, <2>1 DEF StoreTypes, Untouched
  <2>2. ASSUME NEW u \in Uploads, req[u] = "reading", file' = rename(u), leaked' = TRUE
        PROVE  /\ file' \in [Jobs -> Nat] /\ leaked' \in BOOLEAN /\ (leaked => leaked')
               /\ \A k \in Jobs : Untouched(k) \/ Moved(k)
    <3>1. /\ rename(u) \in [Jobs -> Nat]
          /\ \A k \in Jobs : \/ rename(u)[k] = file[k]
                             \/ k = u[1] /\ rename(u)[k] = u[2] /\ (row[k] = None \/ row[k].old)
      BY <1>1, RenameMoves
    <3>2. u[2] \in 1..Tries[u[1]] /\ u = <<u[1], u[2]>>
      BY UploadOf
    <3> QED BY <1>1, <2>2, <3>1, <3>2 DEF Untouched, Moved
  <2> QED BY <2>1, <2>2 DEF Crash
<1>4. StoreTypes'
  BY <1>1, <1>3 DEF StoreTypes, Requests
<1>5. \A v \in Uploads : req'[v] = req[v] \/ Finishes(v)
  BY <1>1, <1>2 DEF Finishes
<1>6. \A r \in Readers : ReaderGoesOn(r)
  BY <1>1 DEF ReaderGoesOn
<1>7. \A v \in Uploads : Put(v) /\ Current(v) /\ Dropped(v[1]) => v[1] \in taken'
  BY <1>1, UploadOf DEF Dropped
<1>8. \A k \in Jobs : Discards(k)
  BY <1>1 DEF Discards
<1> QED BY <1>1, <1>3, <1>4, <1>5, <1>6, <1>7, <1>8, StoreStep

-----------------------------------------------------------------------------
(* Steps of the queue and of an upload that leave the store alone *)

LEMMA ClaimA == ASSUME AInv, NEW j \in Jobs, NEW d \in Devices, Claim(j, d) PROVE AInv'
<1> DEFINE u == <<j, attempts[j] + 1>>
<1>1. /\ holder[j] = None /\ settled[j] = 0 /\ attempts[j] < Tries[j]
      /\ holder' = [holder EXCEPT ![j] = d] /\ attempts' = [attempts EXCEPT ![j] = @ + 1]
      /\ dev' = [dev EXCEPT ![u] = d] /\ work' = [work EXCEPT ![u] = "running"]
      /\ UNCHANGED <<settled, drops, req, row, file, rpc, rjob, rrow>>
      /\ UNCHANGED <<acked, taken, undropped, leaked>> /\ StoreTypes
  BY DEF Claim, may_claim, store, readers, seen, AInv
<1>2. /\ attempts[j] \in Nat /\ Tries[j] \in Nat
      /\ u \in Uploads /\ u[1] = j /\ u[2] = attempts[j] + 1
  <2>1. attempts[j] \in Nat /\ Tries[j] \in Nat
    BY <1>1 DEF StoreTypes
  <2>2. attempts[j] + 1 \in 1..Tries[j]
    BY <1>1, <2>1
  <2> QED BY <2>1, <2>2, UploadOf
<1> HIDE DEF u
<1>3. /\ holder' \in [Jobs -> Devices \cup {None}] /\ attempts' \in [Jobs -> Nat]
      /\ dev' \in [Uploads -> Devices \cup {None}] /\ work' \in [Uploads -> Works]
      /\ holder'[j] = d /\ attempts'[j] = attempts[j] + 1 /\ dev'[u] = d /\ work'[u] = "running"
      /\ \A k \in Jobs \ {j} : holder'[k] = holder[k] /\ attempts'[k] = attempts[k]
      /\ \A v \in Uploads \ {u} : dev'[v] = dev[v] /\ work'[v] = work[v]
  BY <1>1, <1>2 DEF StoreTypes, Works
<1>4. StoreTypes'
  BY <1>1, <1>3 DEF StoreTypes
<1>5. req[u] = "none" /\ u \notin acked
  BY <1>2 DEF AInv, QueueIsSound
<1>6. /\ \A v \in Uploads : v[1] \in Jobs /\ v[2] \in Nat /\ v = <<v[1], v[2]>>
      /\ \A v \in Uploads : v[1] = j /\ v[2] = attempts[j] + 1 => v = u
  BY <1>2, UploadOf
<1>7. QueueIsSound'
  <2>1. \A k \in Jobs :
          /\ attempts'[k] <= Tries[k]
          /\ settled'[k] # 0 => holder'[k] = None /\ settled'[k] <= attempts'[k]
          /\ \A n \in drops'[k] : n <= attempts'[k]
          /\ attempts'[k] \in drops'[k] => holder'[k] = None /\ settled'[k] = 0
    <3> SUFFICES ASSUME NEW k \in Jobs PROVE
          /\ attempts'[k] <= Tries[k]
          /\ settled'[k] # 0 => holder'[k] = None /\ settled'[k] <= attempts'[k]
          /\ \A n \in drops'[k] : n <= attempts'[k]
          /\ attempts'[k] \in drops'[k] => holder'[k] = None /\ settled'[k] = 0
      OBVIOUS
    <3>1. CASE k # j
      BY <1>1, <1>3, <3>1 DEF AInv, QueueIsSound
    <3>2. CASE k = j
      <4>1. \A n \in drops[j] : n \in Nat /\ n <= attempts[j]
        BY <1>1 DEF AInv, QueueIsSound, StoreTypes
      <4>2. attempts[j] + 1 \notin drops[j]
        BY <1>2, <4>1
      <4> QED BY <1>1, <1>2, <1>3, <3>2, <4>1, <4>2
    <3> QED BY <3>1, <3>2
  <2>2. ASSUME NEW v \in Uploads
        PROVE  /\ v[2] > attempts'[v[1]] => work'[v] = "none" /\ dev'[v] = None
               /\ work'[v] \in {"running", "sent"} => dev'[v] # None
               /\ v[2] <= attempts'[v[1]] /\ settled'[v[1]] = 0 => dev'[v] # None
               /\ work'[v] \in {"none", "running"} => req'[v] = "none"
               /\ req'[v] \in {"reading", "created", "confirming"} => dev'[v] # None
               /\ v \in acked' => req'[v] = "over"
    <3>1. CASE v = u
      BY <1>1, <1>2, <1>3, <1>5, <3>1
    <3>2. CASE v # u /\ v[1] = j
      <4>1. v[2] # attempts[j] + 1 /\ v[2] \in Nat
        BY <1>6, <3>2
      <4>2. /\ v[2] > attempts'[v[1]] => v[2] > attempts[j]
            /\ v[2] <= attempts'[v[1]] => v[2] <= attempts[j]
        BY <1>2, <1>3, <3>2, <4>1
      <4> QED BY <1>1, <1>3, <3>2, <4>2 DEF AInv, QueueIsSound
    <3>3. CASE v # u /\ v[1] # j
      BY <1>1, <1>3, <1>6, <3>3 DEF AInv, QueueIsSound
    <3> QED BY <3>1, <3>2, <3>3
  <2> QED BY <2>1, <2>2 DEF QueueIsSound
<1>8. PublishedStands'
  <2> SUFFICES ASSUME NEW v \in Uploads, Put(v)', Current(v)', v[1] \notin taken'
               PROVE  compare(v[1], v[2])' /\ file'[v[1]] = v[2]
    BY DEF PublishedStands
  <2>1. v # u
    BY <1>1, <1>5 DEF Put
  <2>2. v[1] # j
    BY <1>3, <1>6, <2>1 DEF Current
  <2>3. Put(v) /\ Current(v)
    BY <1>1, <1>3, <1>6, <2>1, <2>2 DEF Put, Current, holds_lease
  <2> QED BY <1>1, <2>3 DEF AInv, PublishedStands, compare
<1>9. RowIsAccountedFor'
  <2> SUFFICES ASSUME NEW k \in Jobs, row[k] # None, k \notin undropped, drops[k] = {},
                      req[<<k, row[k].n>>] \in {"confirming", "over"}
               PROVE  \/ holder'[k] # None /\ holder'[k] = dev'[<<k, row[k].n>>]
                      \/ settled[k] # 0 /\ dev'[<<k, settled[k]>>] = dev'[<<k, row[k].n>>]
    BY <1>1 DEF RowIsAccountedFor
  <2>1. \/ holder[k] # None /\ holder[k] = dev[<<k, row[k].n>>]
        \/ settled[k] # 0 /\ dev[<<k, settled[k]>>] = dev[<<k, row[k].n>>]
    BY DEF AInv, RowIsAccountedFor
  <2>2. k # j
    BY <1>1, <2>1
  <2>3. \A n : <<k, n>> # u
    BY <1>2, <2>2
  <2>4. \A n : dev'[<<k, n>>] = dev[<<k, n>>]
    BY <1>1, <2>3 DEF StoreTypes
  <2> QED BY <1>3, <2>1, <2>2, <2>4
<1>10. TimesBounded' /\ NeverAnothersBytes' /\ FilesHaveRows'
  BY <1>1 DEF AInv, TimesBounded, NeverAnothersBytes, FilesHaveRows, Live
<1>11. RowsArePublished'
  BY <1>1 DEF AInv, RowsArePublished
<1> QED BY <1>4, <1>7, <1>8, <1>9, <1>10, <1>11 DEF AInv

LEMMA release_expiredA == ASSUME AInv, NEW j \in Jobs, release_expired(j) PROVE AInv'
<1>1. /\ holder[j] # None /\ holder' = [holder EXCEPT ![j] = None]
      /\ drops' = [drops EXCEPT ![j] = @ \cup {attempts[j]}]
      /\ UNCHANGED <<attempts, settled, dev, work, req, row, file, rpc, rjob, rrow>>
      /\ UNCHANGED <<acked, taken, undropped, leaked>> /\ StoreTypes
  BY DEF release_expired, agents, store, readers, seen, AInv
<1>2. /\ holder' \in [Jobs -> Devices \cup {None}] /\ drops' \in [Jobs -> SUBSET Nat]
      /\ holder'[j] = None /\ drops'[j] = drops[j] \cup {attempts[j]}
      /\ \A k \in Jobs \ {j} : holder'[k] = holder[k] /\ drops'[k] = drops[k]
  BY <1>1 DEF StoreTypes
<1>3. StoreTypes'
  BY <1>1, <1>2 DEF StoreTypes
<1>4. \A v \in Uploads : v[1] \in Jobs /\ v[2] \in Nat /\ v[2] # 0
  BY UploadOf
<1>5. settled[j] = 0 /\ attempts[j] \in Nat
  BY <1>1 DEF AInv, QueueIsSound, StoreTypes
<1>6. QueueIsSound'
  <2>1. \A k \in Jobs :
          /\ attempts'[k] <= Tries[k]
          /\ settled'[k] # 0 => holder'[k] = None /\ settled'[k] <= attempts'[k]
          /\ \A n \in drops'[k] : n <= attempts'[k]
          /\ attempts'[k] \in drops'[k] => holder'[k] = None /\ settled'[k] = 0
    BY <1>1, <1>2, <1>5 DEF AInv, QueueIsSound
  <2>2. \A v \in Uploads :
          /\ v[2] > attempts'[v[1]] => work'[v] = "none" /\ dev'[v] = None
          /\ work'[v] \in {"running", "sent"} => dev'[v] # None
          /\ v[2] <= attempts'[v[1]] /\ settled'[v[1]] = 0 => dev'[v] # None
          /\ work'[v] \in {"none", "running"} => req'[v] = "none"
          /\ req'[v] \in {"reading", "created", "confirming"} => dev'[v] # None
          /\ v \in acked' => req'[v] = "over"
    BY <1>1 DEF AInv, QueueIsSound
  <2> QED BY <2>1, <2>2 DEF QueueIsSound
<1>7. PublishedStands'
  <2> SUFFICES ASSUME NEW v \in Uploads, Put(v)', Current(v)', v[1] \notin taken'
               PROVE  compare(v[1], v[2])' /\ file'[v[1]] = v[2]
    BY DEF PublishedStands
  <2>1. v[1] # j
    <3> SUFFICES ASSUME v[1] = j PROVE FALSE
      OBVIOUS
    <3>1. v[2] = attempts[j] /\ dev[v] = None
      BY <1>1, <1>2, <1>4, <1>5 DEF Current, holds_lease
    <3>2. v[2] <= attempts[j]
      BY <1>5, <3>1
    <3> QED BY <1>5, <3>1, <3>2 DEF AInv, QueueIsSound
  <2>2. Put(v) /\ Current(v)
    BY <1>1, <1>2, <1>4, <2>1 DEF Put, Current, holds_lease
  <2> QED BY <1>1, <2>2 DEF AInv, PublishedStands, compare
<1>8. RowIsAccountedFor'
  <2>1. drops'[j] # {}
    BY <1>2
  <2> QED BY <1>1, <1>2, <2>1 DEF AInv, RowIsAccountedFor
<1>9. TimesBounded' /\ NeverAnothersBytes' /\ FilesHaveRows'
  BY <1>1 DEF AInv, TimesBounded, NeverAnothersBytes, FilesHaveRows, Live
<1>10. RowsArePublished'
  BY <1>1 DEF AInv, RowsArePublished
<1> QED BY <1>3, <1>6, <1>7, <1>8, <1>9, <1>10 DEF AInv

LEMMA ReportA == ASSUME AInv, NEW u \in Uploads, Report(u) PROVE AInv'
<1>1. /\ work[u] \in {"running", "sent"} /\ holder[u[1]] = dev[u]
      /\ work' = [work EXCEPT ![u] = "over"] /\ settled' = [settled EXCEPT ![u[1]] = u[2]]
      /\ holder' = [holder EXCEPT ![u[1]] = None]
      /\ UNCHANGED <<attempts, drops, dev, req, row, file, rpc, rjob, rrow>>
      /\ UNCHANGED <<acked, taken, undropped, leaked>> /\ StoreTypes
  BY DEF Report, holds_lease, store, readers, seen, AInv
<1>2. /\ u[1] \in Jobs /\ u[2] \in Nat /\ u[2] # 0 /\ u = <<u[1], u[2]>>
      /\ \A v \in Uploads : v[1] \in Jobs /\ v[2] \in Nat /\ v = <<v[1], v[2]>>
  BY UploadOf
<1>3. /\ holder' \in [Jobs -> Devices \cup {None}] /\ settled' \in [Jobs -> Nat]
      /\ work' \in [Uploads -> Works]
      /\ holder'[u[1]] = None /\ settled'[u[1]] = u[2] /\ work'[u] = "over"
      /\ \A k \in Jobs \ {u[1]} : holder'[k] = holder[k] /\ settled'[k] = settled[k]
      /\ \A v \in Uploads \ {u} : work'[v] = work[v]
  BY <1>1, <1>2 DEF StoreTypes, Works
<1>4. StoreTypes'
  BY <1>1, <1>3 DEF StoreTypes
<1>5. /\ dev[u] # None /\ settled[u[1]] = 0 /\ attempts[u[1]] \in Nat
      /\ u[2] <= attempts[u[1]] /\ attempts[u[1]] \notin drops[u[1]]
  <2>1. dev[u] # None /\ attempts[u[1]] \in Nat
    BY <1>1, <1>2 DEF AInv, QueueIsSound, StoreTypes
  <2>2. settled[u[1]] = 0 /\ attempts[u[1]] \notin drops[u[1]]
    BY <1>1, <1>2, <2>1 DEF AInv, QueueIsSound
  <2>3. ~(u[2] > attempts[u[1]])
    BY <1>1 DEF AInv, QueueIsSound
  <2> QED BY <1>2, <2>1, <2>2, <2>3
<1>6. QueueIsSound'
  <2>1. \A k \in Jobs :
          /\ attempts'[k] <= Tries[k]
          /\ settled'[k] # 0 => holder'[k] = None /\ settled'[k] <= attempts'[k]
          /\ \A n \in drops'[k] : n <= attempts'[k]
          /\ attempts'[k] \in drops'[k] => holder'[k] = None /\ settled'[k] = 0
    BY <1>1, <1>3, <1>5 DEF AInv, QueueIsSound
  <2>2. ASSUME NEW v \in Uploads
        PROVE  /\ v[2] > attempts'[v[1]] => work'[v] = "none" /\ dev'[v] = None
               /\ work'[v] \in {"running", "sent"} => dev'[v] # None
               /\ v[2] <= attempts'[v[1]] /\ settled'[v[1]] = 0 => dev'[v] # None
               /\ work'[v] \in {"none", "running"} => req'[v] = "none"
               /\ req'[v] \in {"reading", "created", "confirming"} => dev'[v] # None
               /\ v \in acked' => req'[v] = "over"
    <3>1. settled'[v[1]] = 0 => settled[v[1]] = 0
      BY <1>2, <1>3, <1>5
    <3>2. v = u => ~(v[2] > attempts[v[1]])
      BY <1>2, <1>5
    <3> QED BY <1>1, <1>3, <3>1, <3>2 DEF AInv, QueueIsSound
  <2> QED BY <2>1, <2>2 DEF QueueIsSound
<1>7. PublishedStands'
  <2> SUFFICES ASSUME NEW v \in Uploads, Put(v)', Current(v)', v[1] \notin taken'
               PROVE  compare(v[1], v[2])' /\ file'[v[1]] = v[2]
    BY DEF PublishedStands
  <2>1. Put(v)
    BY <1>1 DEF Put
  <2>2. CASE v[1] = u[1]
    <3>1. v = u /\ v[2] = attempts[v[1]]
      BY <1>1, <1>2, <1>3, <2>2 DEF Current
    <3>2. Current(v)
      BY <1>1, <1>5, <3>1 DEF Current, holds_lease
    <3> QED BY <1>1, <2>1, <3>2 DEF AInv, PublishedStands, compare
  <2>3. CASE v[1] # u[1]
    <3>1. Current(v)
      BY <1>1, <1>2, <1>3, <2>3 DEF Current, holds_lease
    <3> QED BY <1>1, <2>1, <3>1 DEF AInv, PublishedStands, compare
  <2> QED BY <2>2, <2>3
<1>8. RowIsAccountedFor'
  <2> SUFFICES ASSUME NEW k \in Jobs, row[k] # None, k \notin undropped, drops[k] = {},
                      req[<<k, row[k].n>>] \in {"confirming", "over"}
               PROVE  \/ holder'[k] # None /\ holder'[k] = dev[<<k, row[k].n>>]
                      \/ settled'[k] # 0 /\ dev[<<k, settled'[k]>>] = dev[<<k, row[k].n>>]
    BY <1>1 DEF RowIsAccountedFor
  <2>1. \/ holder[k] # None /\ holder[k] = dev[<<k, row[k].n>>]
        \/ settled[k] # 0 /\ dev[<<k, settled[k]>>] = dev[<<k, row[k].n>>]
    BY DEF AInv, RowIsAccountedFor
  <2>2. CASE k = u[1]
    <3>1. dev[<<k, settled'[k]>>] = dev[u]
      BY <1>2, <1>3, <2>2
    <3> QED BY <1>1, <1>2, <1>3, <1>5, <2>1, <2>2, <3>1
  <2>3. CASE k # u[1]
    BY <1>3, <2>1, <2>3
  <2> QED BY <2>2, <2>3
<1>9. TimesBounded' /\ NeverAnothersBytes' /\ FilesHaveRows'
  BY <1>1 DEF AInv, TimesBounded, NeverAnothersBytes, FilesHaveRows, Live
<1>10. RowsArePublished'
  BY <1>1 DEF AInv, RowsArePublished
<1> QED BY <1>4, <1>6, <1>7, <1>8, <1>9, <1>10 DEF AInv

\* A step of one upload: its request goes on without a row, or from created to confirming
\* under the lease.
LEMMA RequestStep ==
  ASSUME AInv, NEW u \in Uploads, work' \in [Uploads -> Works], req' \in [Uploads -> Requests],
         UNCHANGED <<holder, attempts, settled, drops, dev, row, file, rpc, rjob, rrow>>,
         UNCHANGED <<acked, taken, undropped, leaked>>,
         \A v \in Uploads \ {u} : work'[v] = work[v] /\ req'[v] = req[v],
         u \notin acked, work'[u] = work[u] \/ (work[u] = "running" /\ work'[u] = "sent"),
         work'[u] \notin {"none", "running"},
         \/ req[u] = "none" /\ req'[u] \in {"reading", "over"} /\ dev[u] # None
         \/ req[u] = "existing" /\ req'[u] = "over"
         \/ req[u] = "created" /\ req'[u] = "dropping"
         \/ req[u] = "created" /\ req'[u] = "confirming" /\ holds_lease(u)
  PROVE  AInv'
<1>1. StoreTypes'
  BY DEF AInv, StoreTypes
<1>2. /\ \A v \in Uploads : v[1] \in Jobs /\ v[2] \in Nat
      /\ \A j \in Jobs : \A n \in 1..Tries[j] : <<j, n>> \in Uploads
  BY UploadOf
<1>3. QueueIsSound'
  <2>1. ASSUME NEW v \in Uploads
        PROVE  /\ v[2] > attempts[v[1]] => work'[v] = "none" /\ dev[v] = None
               /\ work'[v] \in {"running", "sent"} => dev[v] # None
               /\ v[2] <= attempts[v[1]] /\ settled[v[1]] = 0 => dev[v] # None
               /\ work'[v] \in {"none", "running"} => req'[v] = "none"
               /\ req'[v] \in {"reading", "created", "confirming"} => dev[v] # None
               /\ v \in acked => req'[v] = "over"
    <3>1. /\ v[2] > attempts[v[1]] => work[v] = "none" /\ dev[v] = None
          /\ work[v] \in {"running", "sent"} => dev[v] # None
          /\ v[2] <= attempts[v[1]] /\ settled[v[1]] = 0 => dev[v] # None
          /\ work[v] \in {"none", "running"} => req[v] = "none"
          /\ req[v] \in {"reading", "created", "confirming"} => dev[v] # None
          /\ v \in acked => req[v] = "over"
      BY DEF AInv, QueueIsSound
    <3>2. CASE v # u
      BY <3>1, <3>2
    <3>3. CASE v = u
      BY <3>1, <3>3
    <3> QED BY <3>2, <3>3
  <2> QED BY <2>1 DEF AInv, QueueIsSound
<1>4. \A v \in Uploads : req[v] \in Published => req'[v] \in Published
  BY DEF Published
<1>5. RowsArePublished'
  <2>1. \A j \in Jobs : row[j] # None => row[j].n \in 1..Tries[j]
    BY RowOf DEF AInv
  <2> QED BY <1>2, <1>4, <2>1 DEF AInv, RowsArePublished
<1>6. PublishedStands'
  <2>1. \A v \in Uploads : Put(v)' => Put(v)
    BY DEF Put
  <2>2. \A v \in Uploads : Current(v)' <=> Current(v)
    BY DEF Current, holds_lease
  <2> QED BY <2>1, <2>2 DEF AInv, PublishedStands, compare
<1>7. RowIsAccountedFor'
  <2> SUFFICES ASSUME NEW k \in Jobs, row[k] # None, k \notin undropped, drops[k] = {},
                      req'[<<k, row[k].n>>] \in {"confirming", "over"}
               PROVE  \/ holder[k] # None /\ holder[k] = dev[<<k, row[k].n>>]
                      \/ settled[k] # 0 /\ dev[<<k, settled[k]>>] = dev[<<k, row[k].n>>]
    BY DEF RowIsAccountedFor
  <2>1. row[k].n \in 1..Tries[k] /\ req[<<k, row[k].n>>] \in Published
    BY DEF AInv, RowsArePublished, StoreTypes, Row
  <2>2. <<k, row[k].n>> \in Uploads
    BY <1>2, <2>1
  <2>3. CASE <<k, row[k].n>> # u
    BY <2>2, <2>3 DEF AInv, RowIsAccountedFor
  <2>4. CASE <<k, row[k].n>> = u
    <3>1. req[u] = "created" /\ holds_lease(u) /\ u[1] = k
      BY <2>1, <2>4 DEF Published
    <3>2. dev[u] # None
      BY <3>1 DEF AInv, QueueIsSound
    <3> QED BY <2>4, <3>1, <3>2 DEF holds_lease
  <2> QED BY <2>3, <2>4
<1>8. TimesBounded' /\ NeverAnothersBytes' /\ FilesHaveRows'
  BY DEF AInv, TimesBounded, NeverAnothersBytes, FilesHaveRows, Live
<1> QED BY <1>1, <1>3, <1>5, <1>6, <1>7, <1>8 DEF AInv

LEMMA upload_archiveA == ASSUME AInv, NEW u \in Uploads, upload_archive(u) PROVE AInv'
<1>1. /\ work[u] = "running" /\ work' = [work EXCEPT ![u] = "sent"]
      /\ req' = [req EXCEPT ![u] = IF holds_lease(u) THEN "reading" ELSE "over"]
      /\ UNCHANGED <<holder, attempts, settled, drops, dev, row, file, rpc, rjob, rrow>>
      /\ UNCHANGED <<acked, taken, undropped, leaked>> /\ StoreTypes
  BY DEF upload_archive, queue, store, readers, seen, AInv
<1>2. req[u] = "none" /\ dev[u] # None /\ u \notin acked
  BY <1>1 DEF AInv, QueueIsSound
<1>3. PICK q \in {"reading", "over"} : req' = [req EXCEPT ![u] = q]
  BY <1>1
<1>4. /\ work' \in [Uploads -> Works] /\ req' \in [Uploads -> Requests]
      /\ work'[u] = "sent" /\ req'[u] = q
      /\ \A v \in Uploads \ {u} : work'[v] = work[v] /\ req'[v] = req[v]
  BY <1>1, <1>3 DEF StoreTypes, Works, Requests
<1> QED BY <1>1, <1>2, <1>4, RequestStep

LEMMA RecheckA == ASSUME AInv, NEW u \in Uploads, Recheck(u) PROVE AInv'
<1>1. /\ req[u] \in {"created", "existing"}
      /\ UNCHANGED <<holder, attempts, settled, drops, dev, row, file, rpc, rjob, rrow>>
      /\ UNCHANGED <<acked, taken, undropped, leaked, work>> /\ StoreTypes
  BY DEF Recheck, queue, agents, store, readers, seen, AInv
<1>2. PICK q \in {"confirming", "dropping", "over"} :
        /\ req' = [req EXCEPT ![u] = q]
        /\ \/ req[u] = "existing" /\ q = "over"
           \/ req[u] = "created" /\ q = "dropping"
           \/ req[u] = "created" /\ q = "confirming" /\ holds_lease(u)
  <2>1. CASE holds_lease(u)
    <3>1. CASE req[u] = "created"
      BY <2>1, <3>1 DEF Recheck
    <3>2. CASE req[u] = "existing"
      BY <2>1, <3>2 DEF Recheck
    <3> QED BY <1>1, <3>1, <3>2
  <2>2. CASE ~holds_lease(u)
    <3>1. CASE req[u] = "created"
      BY <2>2, <3>1 DEF Recheck, refused_upload
    <3>2. CASE req[u] = "existing"
      BY <2>2, <3>2 DEF Recheck, refused_upload
    <3> QED BY <1>1, <3>1, <3>2
  <2> QED BY <2>1, <2>2
<1>3. u \notin acked /\ work[u] \notin {"none", "running"}
  BY <1>1 DEF AInv, QueueIsSound
<1>4. /\ work' \in [Uploads -> Works] /\ req' \in [Uploads -> Requests] /\ req'[u] = q
      /\ \A v \in Uploads \ {u} : req'[v] = req[v]
  BY <1>1, <1>2 DEF StoreTypes, Requests
<1> QED BY <1>1, <1>2, <1>3, <1>4, RequestStep

\* A row whose time is up counts as taken; its file is still its own.
LEMMA ExpiresA == ASSUME AInv, NEW j \in Jobs, Expires(j) PROVE AInv'
<1>1. /\ row[j] # None /\ row' = [row EXCEPT ![j].old = TRUE] /\ taken' = taken \cup {j}
      /\ UNCHANGED <<holder, attempts, settled, drops, dev, work, req, file, rpc, rjob, rrow>>
      /\ UNCHANGED <<acked, undropped, leaked>> /\ StoreTypes
  BY DEF Expires, queue, agents, readers, AInv
<1>2. PICK was \in Row : was = row[j]
  BY <1>1 DEF StoreTypes
<1>3. /\ row'[j] \in Row /\ row'[j].n = row[j].n /\ row'[j].at = row[j].at /\ row'[j].old
      /\ \A k \in Jobs \ {j} : row'[k] = row[k]
      /\ row' \in [Jobs -> Row \cup {None}]
  <2>1. PICK now : now = [was EXCEPT !.old = TRUE]
    OBVIOUS
  <2>2. now \in Row
    BY <2>1, Zenon DEF Row
  <2>3. row' = [row EXCEPT ![j] = now]
    BY <1>1, <1>2, <2>1
  <2>4. row' \in [Jobs -> Row \cup {None}] /\ row'[j] = now /\ \A k \in Jobs \ {j} : row'[k] = row[k]
    BY <1>1, <2>2, <2>3 DEF StoreTypes
  <2>5. now.n = was.n /\ now.at = was.at /\ now.old
    BY <1>2, <2>1 DEF Row
  <2> QED BY <1>2, <2>2, <2>4, <2>5
<1>4. \A k \in Jobs : (row'[k] # None <=> row[k] # None) /\ row'[k].n = row[k].n
                     /\ row'[k].at = row[k].at
  BY <1>1, <1>3
<1>5. StoreTypes'
  BY <1>1, <1>3 DEF StoreTypes
<1>6. TimesBounded'
  BY <1>4 DEF AInv, TimesBounded
<1>7. QueueIsSound'
  BY <1>1 DEF AInv, QueueIsSound
<1>8. RowsArePublished'
  BY <1>1, <1>3, <1>4 DEF AInv, RowsArePublished
<1>9. PublishedStands'
  <2> SUFFICES ASSUME NEW v \in Uploads, Put(v)', Current(v)', v[1] \notin taken'
               PROVE  compare(v[1], v[2])' /\ file'[v[1]] = v[2]
    BY DEF PublishedStands
  <2>1. Put(v) /\ Current(v) /\ v[1] \notin taken /\ v[1] \in Jobs
    BY <1>1, UploadOf DEF Put, Current, holds_lease
  <2> QED BY <1>1, <1>4, <2>1 DEF AInv, PublishedStands, compare
<1>10. RowIsAccountedFor'
  BY <1>1, <1>4 DEF AInv, RowIsAccountedFor
<1>11. NeverAnothersBytes'
  BY <1>1, <1>3 DEF AInv, NeverAnothersBytes, Live
<1>12. FilesHaveRows'
  BY <1>1, <1>4 DEF AInv, FilesHaveRows
<1> QED BY <1>5, <1>6, <1>7, <1>8, <1>9, <1>10, <1>11, <1>12 DEF AInv

-----------------------------------------------------------------------------
(* Publishing *)

\* What a put does to a run: nothing; its row goes; or it has the new row.
Stays(k) == row'[k] = row[k] /\ file'[k] = file[k]
Goes(u, k) ==
  /\ row'[k] = None /\ k \in taken'
  /\ file'[k] = 0 \/ leaked'
  /\ file'[k] \in {0, file[k]} \/ (k = u[1] /\ file'[k] = u[2])
Gets(u, k) ==
  /\ k = u[1] /\ row'[k] \in Row /\ row'[k].n = u[2] /\ row'[k].old = FALSE
  /\ file'[k] = u[2] \/ (file'[k] = 0 /\ k \in taken)
  /\ row[k] = None \/ row[k].old
  /\ req'[u] = "created" \/ (req'[u] = "over" /\ k \in undropped')

LEMMA PublishStep ==
  ASSUME AInv, NEW u \in Uploads, StoreTypes', TimesBounded', req[u] = "reading",
         UNCHANGED <<holder, attempts, settled, drops, dev, work, rpc, rjob, rrow, acked>>,
         taken \subseteq taken', undropped \subseteq undropped', leaked => leaked',
         \A v \in Uploads \ {u} : req'[v] = req[v],
         req'[u] \in {"created", "existing", "over"},
         req'[u] = "created" => ~Stays(u[1]) \/ u[1] \in taken',
         \A k \in Jobs : Stays(k) \/ Goes(u, k) \/ Gets(u, k)
  PROVE  AInv'
<1>1. /\ \A v \in Uploads : v[1] \in Jobs /\ v[2] \in Nat /\ v[2] # 0
      /\ u[1] \in Jobs /\ u[2] \in 1..Tries[u[1]] /\ u = <<u[1], u[2]>> /\ u[2] # 0
      /\ \A j \in Jobs : \A n \in 1..Tries[j] : <<j, n>> \in Uploads
      /\ u \notin acked
  BY UploadOf DEF AInv, QueueIsSound
<1>2. \A v \in Uploads : req[v] \in Published => req'[v] = req[v]
  BY DEF Published
<1>3. QueueIsSound'
  BY <1>1 DEF AInv, QueueIsSound
<1>4. RowsArePublished'
  <2>1. ASSUME NEW k \in Jobs, row'[k] # None
        PROVE  /\ row'[k].n <= Tries[k] /\ req'[<<k, row'[k].n>>] \in Published
               /\ row'[k].old => k \in taken'
    <3>1. CASE Stays(k)
      <4>1. /\ row'[k] = row[k] /\ row[k].n \in 1..Tries[k] /\ row[k].n <= Tries[k]
            /\ req[<<k, row[k].n>>] \in Published /\ (row[k].old => k \in taken)
        BY <2>1, <3>1, RowOf DEF AInv, RowsArePublished, Stays
      <4> QED BY <1>1, <1>2, <4>1
    <3>2. CASE Gets(u, k)
      BY <1>1, <3>2 DEF Gets, Published
    <3> QED BY <2>1, <3>1, <3>2 DEF Goes
  <2>2. ASSUME NEW r \in Readers, rpc[r] # "idle"
        PROVE  /\ rjob[r] \in Jobs /\ rrow[r] \in 1..Tries[rjob[r]]
               /\ req'[<<rjob[r], rrow[r]>>] \in Published
               /\ rpc[r] = "dropping" => file'[rjob[r]] # rrow[r]
    <3>1. /\ rjob[r] \in Jobs /\ rrow[r] \in 1..Tries[rjob[r]]
          /\ req[<<rjob[r], rrow[r]>>] \in Published
          /\ rpc[r] = "dropping" => file[rjob[r]] # rrow[r]
      BY <2>2 DEF AInv, RowsArePublished
    <3>2. rrow[r] # 0 /\ ~(rjob[r] = u[1] /\ rrow[r] = u[2])
      <4>1. Tries[rjob[r]] \in Nat
        BY <3>1
      <4> QED BY <1>1, <3>1, <4>1 DEF Published
    <3>3. file'[rjob[r]] \in {0, file[rjob[r]]} \/ (rjob[r] = u[1] /\ file'[rjob[r]] = u[2])
      BY <3>1 DEF Stays, Goes, Gets
    <3>4. req'[<<rjob[r], rrow[r]>>] \in Published
      BY <1>1, <1>2, <3>1
    <3> QED BY <3>1, <3>2, <3>3, <3>4
  <2> QED BY <2>1, <2>2 DEF RowsArePublished
<1>5. PublishedStands'
  <2> SUFFICES ASSUME NEW v \in Uploads, Put(v)', Current(v)', v[1] \notin taken'
               PROVE  compare(v[1], v[2])' /\ file'[v[1]] = v[2]
    BY DEF PublishedStands
  <2>1. CASE v = u
    <3>1. req'[u] = "created"
      BY <1>1, <2>1 DEF Put
    <3>2. Gets(u, u[1])
      BY <1>1, <2>1, <3>1 DEF Goes
    <3>3. row'[u[1]] # None
      BY <3>2 DEF Gets
    <3> QED BY <2>1, <3>2, <3>3 DEF Gets, compare
  <2>2. CASE v # u
    <3>1. Put(v) /\ Current(v) /\ v[1] \notin taken /\ v[1] \in Jobs
      BY <1>1, <2>2 DEF Put, Current, holds_lease
    <3>2. compare(v[1], v[2]) /\ file[v[1]] = v[2]
      BY <3>1 DEF AInv, PublishedStands
    <3>3. row[v[1]] # None /\ ~row[v[1]].old
      BY <3>1, <3>2 DEF AInv, RowsArePublished, compare
    <3>4. Stays(v[1])
      BY <3>1, <3>3 DEF Goes, Gets
    <3> QED BY <3>2, <3>4 DEF Stays, compare
  <2> QED BY <2>1, <2>2
<1>6. RowIsAccountedFor'
  <2> SUFFICES ASSUME NEW k \in Jobs, row'[k] # None, k \notin undropped', drops[k] = {},
                      req'[<<k, row'[k].n>>] \in {"confirming", "over"}
               PROVE  \/ holder[k] # None /\ holder[k] = dev[<<k, row'[k].n>>]
                      \/ settled[k] # 0 /\ dev[<<k, settled[k]>>] = dev[<<k, row'[k].n>>]
    BY DEF RowIsAccountedFor
  <2>1. ~Gets(u, k)
    BY <1>1 DEF Gets
  <2>2. row'[k] = row[k]
    BY <2>1 DEF Stays, Goes
  <2>3. row[k].n \in 1..Tries[k] /\ req[<<k, row[k].n>>] \in Published
    BY <2>2, RowOf DEF AInv, RowsArePublished
  <2>4. req[<<k, row[k].n>>] \in {"confirming", "over"}
    BY <1>1, <1>2, <2>2, <2>3
  <2> QED BY <2>2, <2>4 DEF AInv, RowIsAccountedFor
<1>7. NeverAnothersBytes'
  BY DEF AInv, NeverAnothersBytes, Live, Stays, Goes, Gets
<1>8. FilesHaveRows'
  BY DEF AInv, FilesHaveRows, Stays, Goes, Gets
<1> QED BY <1>3, <1>4, <1>5, <1>6, <1>7, <1>8 DEF AInv

LEMMA PublishA ==
  ASSUME AInv, NEW u \in Uploads, req[u] = "reading", NEW unlinked \in BOOLEAN,
         Publish(u, unlinked), UNCHANGED <<queue, agents, readers, acked>>,
         undropped \subseteq undropped', unlinked \/ u[1] \in undropped'
  PROVE  AInv'
<1> DEFINE j == u[1]
           X == expired_rows(row)
           fresh == put_finds[j] = None
           E == IF fresh THEN put_evicts(u) ELSE {}
           new == [n |-> u[2], at |-> now_at(put_finds), old |-> FALSE]
<1>1. /\ row' = IF fresh THEN drop_rows([put_finds EXCEPT ![j] = new], E) ELSE put_finds
      /\ file' = IF unlinked THEN unlink_all(rename(u), X \cup E) ELSE rename(u)
      /\ taken' = taken \cup E
      /\ leaked' = (leaked \/ (~unlinked /\ X \cup E # {}))
      /\ req' = [req EXCEPT ![u] = IF ~unlinked THEN "over"
                                   ELSE IF fresh THEN "created" ELSE "existing"]
  BY DEF Publish, put_inserts
<1>2. /\ UNCHANGED <<holder, attempts, settled, drops, dev, work, rpc, rjob, rrow>> /\ StoreTypes
      /\ j \in Jobs /\ u[2] \in Nat /\ u[2] # 0
  BY UploadOf DEF queue, agents, readers, AInv
<1>3. /\ \A k \in Jobs : k \in X <=> row[k] # None /\ row[k].old
      /\ X \subseteq taken
      /\ put_finds \in [Jobs -> Row \cup {None}]
      /\ \A k \in Jobs : put_finds[k] = IF k \in X THEN None ELSE row[k]
  BY <1>2 DEF expired_rows, Kept, put_finds, drop_rows, StoreTypes, AInv, RowsArePublished
<1>4. PICK b \in Nat : \A k \in Jobs : row[k] # None => row[k].at <= b
  BY DEF AInv, TimesBounded
<1>5. /\ now_at(put_finds) \in Nat
      /\ \A k \in Jobs : put_finds[k] # None => put_finds[k].at <= now_at(put_finds)
  <2>1. \A k \in Jobs : put_finds[k] # None => put_finds[k].at <= b
    BY <1>3, <1>4
  <2> QED BY <1>3, <2>1, NowAt
<1>6. new \in Row /\ new.n = u[2] /\ new.old = FALSE /\ new.at = now_at(put_finds)
  BY <1>2, <1>5 DEF Row
<1> HIDE DEF X, E, new
<1>7. rename(u) = IF fresh THEN [file EXCEPT ![j] = u[2]] ELSE file
  BY DEF rename
<1>8. /\ \A k \in Jobs : row'[k] = IF fresh /\ k \in E THEN None
                                   ELSE IF fresh /\ k = j THEN new
                                   ELSE put_finds[k]
      /\ row' \in [Jobs -> Row \cup {None}]
  <2>1. CASE fresh
    BY <1>1, <1>2, <1>3, <1>6, <2>1 DEF drop_rows
  <2>2. CASE ~fresh
    BY <1>1, <1>3, <2>2
  <2> QED BY <2>1, <2>2
<1>9. /\ \A k \in Jobs : file'[k] = IF unlinked /\ k \in X \cup E THEN 0
                                    ELSE IF fresh /\ k = j THEN u[2]
                                    ELSE file[k]
      /\ file' \in [Jobs -> Nat]
  <2>1. /\ rename(u) \in [Jobs -> Nat]
        /\ \A k \in Jobs : rename(u)[k] = IF fresh /\ k = j THEN u[2] ELSE file[k]
    BY <1>2, <1>7 DEF StoreTypes
  <2>2. CASE unlinked
    BY <1>1, <2>1, <2>2 DEF unlink_all
  <2>3. CASE ~unlinked
    BY <1>1, <2>1, <2>3
  <2> QED BY <2>2, <2>3
<1>10. PICK q \in {"created", "existing", "over"} :
         /\ req' = [req EXCEPT ![u] = q] /\ (q = "created" => unlinked /\ fresh)
         /\ ~unlinked => q = "over"
         /\ unlinked /\ fresh => q = "created"
  <2>1. CASE ~unlinked
    BY <1>1, <2>1
  <2>2. CASE unlinked /\ fresh
    BY <1>1, <2>2
  <2>3. CASE unlinked /\ ~fresh
    BY <1>1, <2>3
  <2> QED BY <2>1, <2>2, <2>3
<1>11. req' \in [Uploads -> Requests] /\ req'[u] = q /\ \A v \in Uploads \ {u} : req'[v] = req[v]
  BY <1>2, <1>10 DEF StoreTypes, Requests
<1>12. leaked' \in BOOLEAN /\ (leaked => leaked') /\ (~unlinked /\ X \cup E # {} => leaked')
  BY <1>1, Zenon
<1>13. StoreTypes'
  BY <1>2, <1>8, <1>9, <1>11, <1>12 DEF StoreTypes
<1>14. TimesBounded'
  <2>1. CASE fresh
    <3>1. \A k \in Jobs : row'[k] # None => row'[k].at <= now_at(put_finds)
      BY <1>5, <1>6, <1>8
    <3> QED BY <1>5, <3>1 DEF TimesBounded
  <2>2. CASE ~fresh
    <3>1. \A k \in Jobs : row'[k] # None => row'[k].at <= b
      BY <1>3, <1>4, <1>8, <2>2
    <3> QED BY <3>1 DEF TimesBounded
  <2> QED BY <2>1, <2>2
<1>15. \A k \in Jobs : Stays(k) \/ Goes(u, k) \/ Gets(u, k)
  <2> SUFFICES ASSUME NEW k \in Jobs PROVE Stays(k) \/ Goes(u, k) \/ Gets(u, k)
    OBVIOUS
  <2>1. CASE k \in E
    <3>1. fresh /\ row'[k] = None /\ k \in taken'
      BY <1>1, <1>8, <2>1 DEF E
    <3>2. file'[k] = 0 \/ leaked'
      BY <1>9, <1>12, <2>1
    <3>3. file'[k] \in {0, file[k]} \/ (k = u[1] /\ file'[k] = u[2])
      BY <1>9
    <3> QED BY <3>1, <3>2, <3>3 DEF Goes
  <2>2. CASE k \notin E /\ fresh /\ k = j
    <3>1. row'[k] = new /\ (row[k] = None \/ row[k].old)
      BY <1>3, <1>8, <2>2
    <3>2. file'[k] = u[2] \/ (file'[k] = 0 /\ k \in taken)
      BY <1>3, <1>9, <2>2
    <3>3. req'[u] = "created" \/ (req'[u] = "over" /\ k \in undropped')
      BY <1>10, <1>11, <2>2
    <3> QED BY <1>6, <2>2, <3>1, <3>2, <3>3 DEF Gets
  <2>3. CASE k \notin E /\ ~(fresh /\ k = j) /\ k \in X
    <3>1. row'[k] = None /\ k \in taken'
      BY <1>1, <1>3, <1>8, <2>3
    <3>2. file'[k] = 0 \/ leaked'
      BY <1>9, <1>12, <2>3
    <3>3. file'[k] \in {0, file[k]}
      BY <1>9, <2>3
    <3> QED BY <3>1, <3>2, <3>3 DEF Goes
  <2>4. CASE k \notin E /\ ~(fresh /\ k = j) /\ k \notin X
    BY <1>3, <1>8, <1>9, <2>4 DEF Stays
  <2> QED BY <2>1, <2>2, <2>3, <2>4
<1>16. req'[u] = "created" => ~Stays(u[1]) \/ u[1] \in taken'
  <2> SUFFICES ASSUME fresh, Stays(j), j \notin E PROVE FALSE
    BY <1>1, <1>10, <1>11
  <2>1. row'[j] = new /\ row[j] = new
    BY <1>2, <1>8 DEF Stays
  <2>2. new # None
    BY <1>6
  <2> QED BY <1>2, <1>3, <1>6, <2>1, <2>2
<1>17. taken \subseteq taken'
  BY <1>1
<1> QED BY <1>2, <1>11, <1>12, <1>13, <1>14, <1>15, <1>16, <1>17, PublishStep

-----------------------------------------------------------------------------
(* Quotas *)

\* The runs that have a row.
Rows(rows) == {j \in Jobs : Kept(rows, j)}
RowsFit == Fits(Rows(row))

\* Of any numbers one is the least.
LEMMA LeastOf ==
  ASSUME NEW S \in SUBSET Nat, S # {}
  PROVE  \E x \in S : \A y \in S : x <= y
<1> DEFINE Less == {p \in Nat \X Nat : p[1] < p[2]}
<1>1. IsWellFoundedOn(Less, Nat)
  BY NatLessThanWellFounded DEF OpToRel
<1>2. \E m \in S : \A x \in S : ~(<<x, m>> \in Less)
  <2> HIDE DEF Less
  <2> QED BY <1>1, WFMin
<1>3. PICK m \in S : \A x \in S : ~(x < m)
  BY <1>2
<1>4. \A x \in S : x \in Nat /\ m \in Nat
  OBVIOUS
<1> QED BY <1>3, <1>4

LEMMA TotalOf ==
  ASSUME NEW S \in SUBSET Jobs
  PROVE  /\ IsFiniteSet(UNION {{j} \X (1..Size[j]) : j \in S}) /\ total(S) \in Nat
         /\ S = {} => total(S) = 0
<1> DEFINE f == [j \in S |-> {j} \X (1..Size[j])]
           Pieces == {{j} \X (1..Size[j]) : j \in S}
<1>1. IsFiniteSet(S)
  BY FS_Subset
<1>2. f \in Surjection(S, Pieces)
  BY DEF Surjection
<1>3. IsFiniteSet(Pieces)
  <2> HIDE DEF f, Pieces
  <2> QED BY <1>1, <1>2, FS_Surjection
<1>4. IsFiniteSet(UNION Pieces)
  <2>1. ASSUME NEW T \in Pieces PROVE IsFiniteSet(T)
    <3>1. PICK j \in S : T = {j} \X (1..Size[j])
      OBVIOUS
    <3>2. Size[j] \in Int /\ 1 \in Int
      OBVIOUS
    <3>3. IsFiniteSet({j}) /\ IsFiniteSet(1..Size[j])
      BY <3>2, FS_Singleton, FS_Interval
    <3> QED BY <3>1, <3>3, FS_Product
  <2> HIDE DEF Pieces
  <2> QED BY <1>3, <2>1, FS_UNION
<1>5. total(S) \in Nat
  BY <1>4, FS_CardinalityType DEF total
<1>6. ASSUME S = {} PROVE total(S) = 0
  <2>1. UNION {{j} \X (1..Size[j]) : j \in S} = {}
    BY <1>6
  <2> QED BY <2>1, FS_EmptySet DEF total
<1> QED BY <1>4, <1>5, <1>6

\* Fewer archives have no more bytes.
LEMMA TotalGrows ==
  ASSUME NEW T \in SUBSET Jobs, NEW S \in SUBSET T
  PROVE  total(S) <= total(T)
<1> DEFINE A == UNION {{j} \X (1..Size[j]) : j \in S}
           B == UNION {{j} \X (1..Size[j]) : j \in T}
<1>1. A \in SUBSET B
  OBVIOUS
<1>2. IsFiniteSet(B)
  BY TotalOf
<1>3. Cardinality(A) <= Cardinality(B)
  <2> HIDE DEF A, B
  <2> QED BY <1>1, <1>2, FS_Subset
<1> QED BY <1>3 DEF total

\* So they fit where more of them do.
LEMMA FewerFit ==
  ASSUME NEW T \in SUBSET Jobs, NEW S \in SUBSET T, Fits(T)
  PROVE  Fits(S)
<1>1. total(S) \in Nat /\ total(T) \in Nat /\ total(S) <= total(T)
  BY TotalGrows, TotalOf
<1>2. ASSUME NEW j \in Jobs PROVE total(Part(S, j)) <= RepositoryQuota
  <2>1. Part(T, j) \in SUBSET Jobs /\ Part(S, j) \in SUBSET Part(T, j)
    BY DEF Part
  <2>2. /\ total(Part(S, j)) \in Nat /\ total(Part(T, j)) \in Nat
        /\ total(Part(S, j)) <= total(Part(T, j))
    BY <2>1, TotalGrows, TotalOf
  <2>3. total(Part(T, j)) <= RepositoryQuota
    BY DEF Fits
  <2> QED BY <2>2, <2>3
<1> QED BY <1>1, <1>2 DEF Fits

\* Eviction leaves what the quota has room for, and takes nothing from elsewhere.
LEMMA EvictionFits ==
  ASSUME NEW rows \in [Jobs -> Row \cup {None}], NEW b \in Nat,
         \A j \in Jobs : rows[j] # None => rows[j].at <= b,
         NEW scope \in SUBSET Jobs, NEW quota \in Nat
  PROVE  total({j \in scope : Kept(rows, j)} \ evict_to_quota(rows, scope, quota)) <= quota
<1> DEFINE there == {j \in scope : Kept(rows, j)}
           from(a) == {j \in there : rows[j].at > a}
           A == {0} \cup {rows[j].at : j \in there}
           G == {a \in A : total(from(a)) <= quota}
           cut == CHOOSE a \in A : /\ total(from(a)) <= quota
                                   /\ \A c \in A : total(from(c)) <= quota => a <= c
<1>1. A \in SUBSET Nat /\ 0 \in A /\ (\A x \in A : x <= b) /\ \A j \in there : rows[j].at \in A
  BY DEF Kept, Row
<1>2. PICK m \in A : \A y \in A : m >= y
  <2> HIDE DEF A
  <2> QED BY <1>1, MaxOfBounded
<1>3. from(m) = {}
  <2> SUFFICES ASSUME NEW j \in from(m) PROVE FALSE
    OBVIOUS
  <2>1. rows[j].at \in A /\ rows[j].at > m
    BY <1>1
  <2>2. rows[j].at \in Nat /\ m \in Nat /\ m >= rows[j].at
    BY <1>1, <1>2, <2>1
  <2> QED BY <2>1, <2>2
<1>4. total(from(m)) <= quota
  <2>1. {} \in SUBSET Jobs
    OBVIOUS
  <2>2. total({}) = 0
    BY <2>1, TotalOf
  <2> HIDE DEF from
  <2> QED BY <1>3, <2>2
<1>5. PICK a \in G : \A c \in G : a <= c
  <2>1. m \in G
    BY <1>2, <1>4
  <2>2. G \in SUBSET Nat /\ G # {}
    <3> HIDE DEF A
    <3> QED BY <1>1, <2>1
  <2> HIDE DEF G
  <2> QED BY <2>2, LeastOf
<1>6. cut \in A /\ total(from(cut)) <= quota
  <2> HIDE DEF A, from
  <2>1. \E x \in A : /\ total(from(x)) <= quota
                     /\ \A c \in A : total(from(c)) <= quota => x <= c
    BY <1>5
  <2> QED BY <2>1
<1>7. evict_to_quota(rows, scope, quota) = there \ from(cut)
  BY DEF evict_to_quota
<1>8. there \ (there \ from(cut)) = from(cut)
  OBVIOUS
<1> QED BY <1>6, <1>7, <1>8

\* A step that gives no run a row it did not have keeps within the quotas.
LEMMA RowsGo ==
  ASSUME RowsFit, \A j \in Jobs : row'[j] # None => row[j] # None
  PROVE  RowsFit'
<1>1. Rows(row) \in SUBSET Jobs /\ Rows(row') \in SUBSET Rows(row)
  BY DEF Rows, Kept
<1> QED BY <1>1, FewerFit DEF RowsFit

\* A put may take a repository over its quota, and the store; it evicts until both fit.
LEMMA PublishFits ==
  ASSUME AInv, RowsFit, NEW u \in Uploads, NEW unlinked, Publish(u, unlinked)
  PROVE  RowsFit'
<1> DEFINE j == u[1]
           rows == put_inserts(u)
           mine == {k \in Jobs : Repository[k] = Repository[j]}
           gone == evict_to_quota(rows, mine, RepositoryQuota)
           left == drop_rows(rows, gone)
           more == evict_to_quota(left, Jobs, StorageQuota)
<1>1. j \in Jobs /\ u[2] \in Nat \ {0} /\ row \in [Jobs -> Row \cup {None}]
  BY UploadOf DEF AInv, StoreTypes
<1>2. /\ put_finds \in [Jobs -> Row \cup {None}]
      /\ \A k \in Jobs : put_finds[k] \in {None, row[k]}
  BY <1>1 DEF put_finds, drop_rows
<1>3. CASE put_finds[j] # None
  <2>1. row' = put_finds
    BY <1>3 DEF Publish
  <2> QED BY <1>2, <2>1, RowsGo
<1>4. CASE put_finds[j] = None
  <2>1. row' = drop_rows(rows, gone \cup more)
    BY <1>4 DEF Publish, put_evicts, enforce_quota
  <2>2. PICK b \in Nat : \A k \in Jobs : row[k] # None => row[k].at <= b
    BY DEF AInv, TimesBounded
  <2>3. /\ now_at(put_finds) \in Nat
        /\ \A k \in Jobs : put_finds[k] # None => put_finds[k].at <= now_at(put_finds)
    <3>1. \A k \in Jobs : put_finds[k] # None => put_finds[k].at <= b
      BY <1>2, <2>2
    <3> QED BY <1>2, <3>1, NowAt
  <2>4. PICK new \in Row : new.at = now_at(put_finds) /\ rows = [put_finds EXCEPT ![j] = new]
    BY <1>1, <2>3 DEF put_inserts, Row
  <2>5. /\ rows \in [Jobs -> Row \cup {None}]
        /\ \A k \in Jobs \ {j} : rows[k] \in {None, row[k]}
        /\ \A k \in Jobs : rows[k] # None => rows[k].at <= now_at(put_finds)
    BY <1>1, <1>2, <2>3, <2>4
  <2> HIDE DEF j, rows, gone
  <2>6. /\ left \in [Jobs -> Row \cup {None}]
        /\ \A k \in Jobs : left[k] = IF k \in gone THEN None ELSE rows[k]
        /\ \A k \in Jobs : left[k] # None => left[k].at <= now_at(put_finds)
    BY <2>5 DEF drop_rows
  <2> HIDE DEF left, more
  <2>7. \A k \in Jobs : row'[k] # None <=> rows[k] # None /\ k \notin gone /\ k \notin more
    BY <2>1 DEF drop_rows
  <2>8. total({k \in mine : Kept(rows, k)} \ gone) <= RepositoryQuota
    <3>1. mine \in SUBSET Jobs /\ RepositoryQuota \in Nat
      OBVIOUS
    <3> HIDE DEF mine
    <3> QED BY <2>3, <2>5, <3>1, EvictionFits DEF gone
  <2>9. total({k \in Jobs : Kept(left, k)} \ more) <= StorageQuota
    BY <2>3, <2>6, EvictionFits DEF more
  <2>10. Rows(row') = {k \in Jobs : Kept(left, k)} \ more
    BY <2>6, <2>7 DEF Rows, Kept
  <2>11. ASSUME NEW i \in Jobs PROVE total(Part(Rows(row'), i)) <= RepositoryQuota
    <3>1. CASE Repository[i] = Repository[j]
      <4> DEFINE T == {k \in mine : Kept(rows, k)} \ gone
      <4>1. T \in SUBSET Jobs /\ Part(Rows(row'), i) \in SUBSET T
        BY <2>7, <3>1 DEF Part, Rows, Kept
      <4> HIDE DEF T
      <4>2. /\ total(Part(Rows(row'), i)) \in Nat /\ total(T) \in Nat
            /\ total(Part(Rows(row'), i)) <= total(T)
        BY <4>1, TotalGrows, TotalOf
      <4> QED BY <2>8, <4>2 DEF T
    <3>2. CASE Repository[i] # Repository[j]
      <4>1. /\ Part(Rows(row), i) \in SUBSET Jobs
            /\ Part(Rows(row'), i) \in SUBSET Part(Rows(row), i)
        BY <2>5, <2>7, <3>2 DEF Part, Rows, Kept
      <4>2. /\ total(Part(Rows(row'), i)) \in Nat /\ total(Part(Rows(row), i)) \in Nat
            /\ total(Part(Rows(row'), i)) <= total(Part(Rows(row), i))
        BY <4>1, TotalGrows, TotalOf
      <4>3. total(Part(Rows(row), i)) <= RepositoryQuota
        BY DEF RowsFit, Fits
      <4> QED BY <4>2, <4>3
    <3> QED BY <3>1, <3>2
  <2>12. total(Rows(row')) <= StorageQuota
    BY <2>9, <2>10
  <2> QED BY <2>11, <2>12 DEF RowsFit, Fits
<1> QED BY <1>3, <1>4

LEMMA InitFits == Init => RowsFit
<1> SUFFICES ASSUME Init PROVE RowsFit
  OBVIOUS
<1>1. row = [j \in Jobs |-> IF j \in Stored THEN [n |-> 1, at |-> 1, old |-> FALSE] ELSE None]
  BY DEF Init
<1>2. Rows(row) \in SUBSET Stored /\ Stored \in SUBSET Jobs
  BY <1>1 DEF Rows, Kept
<1> QED BY <1>2, FewerFit DEF RowsFit

\* Only a put that commits gives a run a row.
LEMMA NextFits ==
  ASSUME AInv, RowsFit, [Next]_vars
  PROVE  RowsFit'
<1> DEFINE NoNewRow == \A k \in Jobs : row'[k] # None => row[k] # None
<1>1. row \in [Jobs -> Row \cup {None}]
  BY DEF AInv, StoreTypes
<1>2. ASSUME NEW j \in Jobs, NEW n, discard_own(j, n) PROVE NoNewRow
  BY <1>1, <1>2 DEF discard_own
<1>3. /\ drop_rows(row, expired_rows(row)) \in [Jobs -> Row \cup {None}]
      /\ \A k \in Jobs : drop_rows(row, expired_rows(row))[k] \in {None, row[k]}
  BY <1>1 DEF drop_rows
<1>4. ASSUME NEW u \in Uploads, UploadStep(u) PROVE NoNewRow \/ \E b \in BOOLEAN : Publish(u, b)
  <2>1. u[1] \in Jobs
    BY UploadOf
  <2>2. CASE Confirm(u)
    <3>1. PICK rows : /\ rows = drop_rows(row, expired_rows(row))
                      /\ row' = rows \/ row' = [rows EXCEPT ![u[1]] = None]
      BY <2>2 DEF Confirm
    <3> QED BY <1>3, <2>1, <3>1
  <2>3. CASE DropOwn(u)
    BY <1>2, <2>1, <2>3 DEF DropOwn, store
  <2>4. CASE put(u) \/ put_raises(u)
    BY <2>4 DEF put, put_raises
  <2> QED BY <1>4, <2>2, <2>3, <2>4 DEF UploadStep, upload_archive, StageFails, Recheck, Report, store
<1>5. ASSUME NEW r \in Readers, ReaderStep(r) PROVE NoNewRow
  <2>1. CASE \E j \in Jobs : ReaderGets(r, j)
    BY <1>3, <2>1 DEF ReaderGets
  <2>2. CASE ReaderDrops(r)
    <3>1. rjob[r] \in Jobs
      BY <2>2 DEF ReaderDrops, AInv, RowsArePublished
    <3> QED BY <1>2, <2>2, <3>1 DEF ReaderDrops
  <2> QED BY <1>5, <2>1, <2>2 DEF ReaderStep, ReaderLooks, store
<1>6. ASSUME NEW j \in Jobs, release_expired(j) \/ discard_artifact(j) \/ Expires(j) PROVE NoNewRow
  <2>1. CASE discard_artifact(j)
    <3>1. row' = [row EXCEPT ![j] = None] \/ row' = row
      BY <2>1 DEF discard_artifact, store
    <3> QED BY <1>1, <3>1
  <2>2. CASE Expires(j)
    BY <1>1, <2>2 DEF Expires
  <2> QED BY <1>6, <2>1, <2>2 DEF release_expired, store
<1>7. CASE UNCHANGED row
  BY <1>7, RowsGo
<1>8. CASE (\E j \in Jobs, d \in Devices : Claim(j, d)) \/ Crash \/ UNCHANGED vars
  BY <1>7, <1>8 DEF Claim, Crash, vars, store
<1>9. NoNewRow => RowsFit'
  BY RowsGo
<1> HIDE DEF NoNewRow
<1> QED BY <1>4, <1>5, <1>6, <1>8, <1>9, PublishFits DEF Next

-----------------------------------------------------------------------------
(* What is served *)

\* A step leaves a run with what it had, or with nothing: its row and file stand; its row
\* goes; its time is up; or a file is moved beside a row that does not count.
Wanes(k) ==
  \/ row'[k] = row[k] /\ file'[k] = file[k]
  \/ row'[k] = None
  \/ row'[k] # None /\ row'[k].old
  \/ row'[k] = row[k] /\ (row[k] = None \/ row[k].old)

\* A put gives a run without a row that counts its archive.
Fills(k) == ~Live(k) /\ row'[k] # None /\ row'[k].n \in Nat

LEMMA ServedWanes ==
  ASSUME NEW k \in Jobs, Wanes(k)
  PROVE  Served(k)' \in {Served(k), None}
<1>1. CASE row'[k] = row[k] /\ file'[k] = file[k]
  BY <1>1 DEF Served, Live
<1>2. CASE ~Live(k)'
  BY <1>2 DEF Served
<1> QED BY <1>1, <1>2 DEF Wanes, Live

\* Only a put that commits, over no row or over one whose time is up, gives anything.
LEMMA PublishServes ==
  ASSUME StoreTypes, NEW u \in Uploads, NEW unlinked, Publish(u, unlinked)
  PROVE  /\ \A k \in Jobs \ {u[1]} : Wanes(k)
         /\ Wanes(u[1]) \/ Fills(u[1])
<1> DEFINE new == [n |-> u[2], at |-> now_at(put_finds), old |-> FALSE]
           fresh == put_finds[u[1]] = None
           E == IF fresh THEN put_evicts(u) ELSE {}
           X == expired_rows(row)
<1>1. u[1] \in Jobs /\ u[2] \in Nat
  BY UploadOf
<1>2. /\ \A k \in Jobs : put_finds[k] = IF k \in X THEN None ELSE row[k]
      /\ put_finds = [k \in Jobs |-> put_finds[k]]
      /\ \A k \in Jobs : k \in X <=> row[k] # None /\ row[k].old
  BY DEF put_finds, drop_rows, expired_rows, Kept
<1>3. \A k \in Jobs : put_inserts(u)[k] = IF k = u[1] THEN new ELSE put_finds[k]
  BY <1>1, <1>2 DEF put_inserts
<1>4. /\ row' = IF fresh THEN drop_rows(put_inserts(u), E) ELSE put_finds
      /\ file' = IF unlinked THEN unlink_all(rename(u), X \cup E) ELSE rename(u)
  BY DEF Publish
<1>5. ~fresh => E = {}
  OBVIOUS
<1>6. new.n = u[2]
  OBVIOUS
<1> HIDE DEF new, E, X
<1>7. \A k \in Jobs : row'[k] = IF fresh /\ k \in E THEN None
                                 ELSE IF fresh /\ k = u[1] THEN new ELSE put_finds[k]
  <2>1. CASE fresh
    BY <1>3, <1>4, <2>1 DEF drop_rows
  <2>2. CASE ~fresh
    BY <1>4, <2>2
  <2> QED BY <2>1, <2>2
<1>8. \A k \in Jobs \ (X \cup E) : file'[k] = rename(u)[k]
  <2>1. CASE unlinked
    BY <1>4, <2>1 DEF unlink_all
  <2>2. CASE ~unlinked
    BY <1>4, <2>2
  <2> QED BY <2>1, <2>2
<1>9. \A k \in Jobs : (fresh /\ k = u[1]) \/ rename(u)[k] = file[k]
  <2>1. rename(u) = IF fresh THEN [file EXCEPT ![u[1]] = u[2]] ELSE file
    BY DEF rename
  <2>2. CASE fresh
    BY <2>1, <2>2 DEF StoreTypes
  <2>3. CASE ~fresh
    BY <2>1, <2>3
  <2> QED BY <2>2, <2>3
<1>10. ASSUME NEW k \in Jobs, ~(fresh /\ k = u[1]) PROVE Wanes(k)
  <2>1. CASE k \in X \cup E
    BY <1>2, <1>5, <1>7, <1>10, <2>1 DEF Wanes
  <2>2. CASE k \notin X \cup E
    BY <1>2, <1>7, <1>8, <1>9, <1>10, <2>2 DEF Wanes
  <2> QED BY <2>1, <2>2
<1>11. fresh => Wanes(u[1]) \/ Fills(u[1])
  BY <1>1, <1>2, <1>6, <1>7 DEF Wanes, Fills, Live
<1> QED BY <1>1, <1>10, <1>11

LEMMA NextServes ==
  ASSUME AInv, [Next]_vars
  PROVE  \/ \A k \in Jobs : Wanes(k)
         \/ \E j \in Jobs : Fills(j) /\ \A k \in Jobs \ {j} : Wanes(k)
<1> DEFINE Less == \A k \in Jobs : Wanes(k)
           More == \E j \in Jobs : Fills(j) /\ \A k \in Jobs \ {j} : Wanes(k)
<1>1. StoreTypes /\ RowsArePublished
  BY DEF AInv
<1>2. UNCHANGED store => Less
  BY DEF store, Wanes
<1>3. ASSUME NEW j \in Jobs, NEW n, discard_own(j, n) PROVE Less
  BY <1>1, <1>3, DiscardOwn DEF Untouched, Dropped, Wanes
<1>4. ASSUME row' = row, NEW u \in Uploads,
             \A k \in Jobs : \/ file'[k] = rename(u)[k]
                             \/ k = u[1] /\ row[k] = None
      PROVE  Less
  BY <1>1, <1>4, RenameMoves DEF Wanes
<1>5. ASSUME NEW u \in Uploads, NEW b, Publish(u, b) PROVE Less \/ More
  <2>1. u[1] \in Jobs
    BY UploadOf
  <2> QED BY <1>1, <1>5, <2>1, PublishServes
<1>6. LET rows == drop_rows(row, expired_rows(row))
          files == unlink_all(file, expired_rows(row))
      IN /\ rows \in [Jobs -> Row \cup {None}]
         /\ \A k \in Jobs : (rows[k] = row[k] /\ files[k] = file[k]) \/ rows[k] = None
  BY <1>1, ExpiredGo
<1>7. ASSUME NEW u \in Uploads, UploadStep(u) PROVE Less \/ More
  <2>1. CASE put(u)
    BY <1>5, <2>1 DEF put
  <2>2. CASE put_raises(u)
    <3>1. CASE row' = row /\ file' = put_undo(u, rename(u))
      <4>1. u[1] \in Jobs /\ rename(u) \in [Jobs -> Nat]
        BY <1>1, UploadOf, RenameMoves
      <4>2. \A k \in Jobs : \/ file'[k] = rename(u)[k]
                            \/ k = u[1] /\ row[k] = None
        <5>1. CASE row[u[1]] = None
          BY <3>1, <4>1, <5>1 DEF put_undo
        <5>2. CASE row[u[1]] # None
          BY <3>1, <4>1, <5>2 DEF put_undo
        <5> QED BY <5>1, <5>2
      <4> QED BY <1>4, <3>1, <4>2
    <3>2. CASE Publish(u, FALSE)
      BY <1>5, <3>2
    <3> QED BY <2>2, <3>1, <3>2 DEF put_raises
  <2>3. CASE DropOwn(u)
    BY <1>2, <1>3, <2>3, UploadOf DEF DropOwn
  <2>4. CASE Confirm(u)
    <3> DEFINE rows == drop_rows(row, expired_rows(row))
               files == unlink_all(file, expired_rows(row))
    <3>1. /\ row' = rows \/ row' = [rows EXCEPT ![u[1]] = None]
          /\ file' = files
      BY <2>4 DEF Confirm
    <3>2. /\ rows \in [Jobs -> Row \cup {None}]
          /\ \A k \in Jobs : (rows[k] = row[k] /\ files[k] = file[k]) \/ rows[k] = None
      BY <1>6
    <3> HIDE DEF rows, files
    <3>3. \A k \in Jobs : row'[k] = rows[k] \/ row'[k] = None
      BY <3>1, <3>2
    <3> QED BY <3>1, <3>2, <3>3 DEF Wanes
  <2> QED BY <1>2, <1>7, <2>1, <2>2, <2>3, <2>4
          DEF UploadStep, upload_archive, StageFails, Recheck, Report
<1>8. ASSUME NEW r \in Readers, ReaderStep(r) PROVE Less
  <2>1. CASE \E j \in Jobs : ReaderGets(r, j)
    BY <1>6, <2>1 DEF ReaderGets, Wanes
  <2>2. CASE ReaderDrops(r)
    <3>1. rjob[r] \in Jobs
      BY <1>1, <2>2 DEF ReaderDrops, RowsArePublished
    <3> QED BY <1>3, <2>2, <3>1 DEF ReaderDrops
  <2> QED BY <1>2, <1>8, <2>1, <2>2 DEF ReaderStep, ReaderLooks
<1>9. ASSUME NEW j \in Jobs, release_expired(j) \/ discard_artifact(j) \/ Expires(j) PROVE Less
  <2>1. CASE discard_artifact(j)
    <3>1. \/ UNCHANGED store
          \/ /\ row' = [row EXCEPT ![j] = None]
             /\ file' = IF row[j] # None THEN [file EXCEPT ![j] = 0] ELSE file
      BY <2>1 DEF discard_artifact
    <3>2. CASE row' = [row EXCEPT ![j] = None] /\ file' = [file EXCEPT ![j] = 0]
      BY <1>1, <3>2 DEF StoreTypes, Wanes
    <3>3. CASE row' = [row EXCEPT ![j] = None] /\ file' = file
      BY <1>1, <3>3 DEF StoreTypes, Wanes
    <3> QED BY <1>2, <3>1, <3>2, <3>3
  <2>2. CASE Expires(j)
    <3>1. row[j] \in Row /\ row' = [row EXCEPT ![j].old = TRUE] /\ file' = file
      BY <1>1, <2>2 DEF StoreTypes, Expires
    <3>2. row'[j] \in Row /\ row'[j].old /\ \A k \in Jobs \ {j} : row'[k] = row[k]
      BY <1>1, <3>1 DEF StoreTypes, Row
    <3> QED BY <3>1, <3>2 DEF Wanes
  <2> QED BY <1>2, <1>9, <2>1, <2>2 DEF release_expired
<1>10. CASE Crash
  <2>1. CASE file' = file
    BY <1>2, <1>10, <2>1 DEF Crash, store
  <2>2. ASSUME NEW u \in Uploads, file' = rename(u) PROVE Less
    BY <1>4, <1>10, <2>2 DEF Crash
  <2> QED BY <1>10, <2>1, <2>2 DEF Crash
<1>11. CASE (\E j \in Jobs, d \in Devices : Claim(j, d)) \/ UNCHANGED vars
  BY <1>2, <1>11 DEF Claim, vars
<1> QED BY <1>7, <1>8, <1>9, <1>10, <1>11 DEF Next

-----------------------------------------------------------------------------
(* The theorems *)

LEMMA NextA == AInv /\ [Next]_vars => AInv'
<1> SUFFICES ASSUME AInv, [Next]_vars PROVE AInv'
  OBVIOUS
<1>1. ASSUME NEW j \in Jobs, NEW d \in Devices, Claim(j, d) PROVE AInv'
  BY <1>1, ClaimA
<1>2. ASSUME NEW j \in Jobs, release_expired(j) \/ discard_artifact(j) \/ Expires(j) PROVE AInv'
  BY <1>2, release_expiredA, discard_artifactA, ExpiresA
<1>3. ASSUME NEW u \in Uploads, UploadStep(u) PROVE AInv'
  <2>1. CASE put(u)
    BY <2>1, PublishA DEF put
  <2>2. CASE put_raises(u)
    <3>1. CASE /\ req' = [req EXCEPT ![u] = "over"] /\ file' = put_undo(u, rename(u))
               /\ UNCHANGED <<row, taken, leaked, undropped>>
      BY <2>2, <3>1, RolledBackA DEF put_raises
    <3>2. CASE Publish(u, FALSE) /\ undropped' = undropped \cup {u[1]}
      BY <2>2, <3>2, PublishA DEF put_raises
    <3> QED BY <2>2, <3>1, <3>2 DEF put_raises
  <2> QED BY <1>3, <2>1, <2>2, upload_archiveA, StageFailsA, RecheckA, DropOwnA, ConfirmA, ReportA
          DEF UploadStep
<1>4. ASSUME NEW r \in Readers, ReaderStep(r) PROVE AInv'
  BY <1>4, ReaderGetsA, ReaderLooksA, ReaderDropsA DEF ReaderStep
<1>5. CASE Crash
  BY <1>5, CrashA
<1>6. CASE UNCHANGED vars
  <2>1. /\ UNCHANGED <<holder, attempts, settled, drops, dev, work, req, row, file>>
        /\ UNCHANGED <<rpc, rjob, rrow, acked, taken, undropped, leaked>>
    BY <1>6 DEF vars, queue, agents, store, readers, seen
  <2>2. StoreTypes' /\ TimesBounded' /\ QueueIsSound' /\ RowsArePublished'
    BY <2>1 DEF AInv, StoreTypes, TimesBounded, QueueIsSound, RowsArePublished
  <2>3. PublishedStands'
    BY <2>1 DEF AInv, PublishedStands, Put, Current, holds_lease, compare
  <2>4. RowIsAccountedFor' /\ NeverAnothersBytes' /\ FilesHaveRows'
    BY <2>1 DEF AInv, RowIsAccountedFor, NeverAnothersBytes, FilesHaveRows, Live
  <2> QED BY <2>2, <2>3, <2>4 DEF AInv
<1> QED BY <1>1, <1>2, <1>3, <1>4, <1>5, <1>6 DEF Next

\* artifact.py, artifactapi.py: the queue, the uploads, the store and its readers keep to
\* the inductive invariant through every step, restarts and failed commits included.
THEOREM AInvHolds == Spec => []AInv
BY InitA, NextA, PTL DEF Spec

\* artifactapi.py, artifact.py discard: an archive answered 201 stands with its own bytes
\* as long as its attempt has the run or settled it, unless age, a quota or a late discard
\* took it.
THEOREM AckedArchiveStandsHolds == Spec => []AckedArchiveStands
<1>1. AInv => AckedArchiveStands
  BY DEF AInv, StoreTypes, PublishedStands, Put, AckedArchiveStands
<1> QED BY <1>1, AInvHolds, PTL

\* artifactapi.py discard_artifact: a settled run whose uploads and discards are done
\* serves the archive of the attempt that settled it, when its attempts ran on different
\* devices and every discard the code reached was carried out.
THEOREM VerdictOwnsArchiveHolds == Spec => []VerdictOwnsArchive
<1>1. AInv => VerdictOwnsArchive
  <2> SUFFICES ASSUME AInv, NEW j \in Jobs, settled[j] # 0, row[j] # None, drops[j] = {},
                      j \notin undropped,
                      \A m \in 1..Tries[j] : /\ req[<<j, m>>] \in {"none", "over"}
                                             /\ m # settled[j] => dev[<<j, m>>] # dev[<<j, settled[j]>>]
               PROVE  row[j].n = settled[j]
    BY DEF VerdictOwnsArchive
  <2>1. /\ row[j].n \in 1..Tries[j] /\ req[<<j, row[j].n>>] \in Published
        /\ holder[j] = None
    BY RowOf DEF AInv, RowsArePublished, QueueIsSound
  <2>2. req[<<j, row[j].n>>] = "over"
    BY <2>1 DEF Published
  <2>3. dev[<<j, settled[j]>>] = dev[<<j, row[j].n>>]
    BY <2>1, <2>2 DEF AInv, RowIsAccountedFor
  <2> QED BY <2>1, <2>3
<1> QED BY <1>1, AInvHolds, PTL

\* artifact.py put, enforce_quota: for any quotas, sizes and number of runs, as long as no
\* process died in the store and no landed commit raised, every file has a row and the
\* files stay within the repository's and the store's quota.
THEOREM DiskIsAccountedHolds == Spec => []DiskIsAccounted
<1>1. Spec => []RowsFit
  <2>1. AInv /\ RowsFit /\ [Next]_vars => RowsFit'
    BY NextFits
  <2> QED BY <2>1, InitFits, AInvHolds, PTL DEF Spec
<1>2. ASSUME AInv, RowsFit PROVE DiskIsAccounted
  <2> DEFINE filed == {j \in Jobs : file[j] # 0}
  <2> SUFFICES ASSUME ~leaked PROVE (\A j \in filed : row[j] # None) /\ Fits(filed)
    BY DEF DiskIsAccounted
  <2>1. \A j \in filed : row[j] # None
    BY <1>2 DEF AInv, FilesHaveRows
  <2>2. Rows(row) \in SUBSET Jobs /\ filed \in SUBSET Rows(row)
    BY <2>1 DEF Rows, Kept
  <2>3. Fits(filed)
    <3> HIDE DEF filed
    <3> QED BY <1>2, <2>2, FewerFit DEF RowsFit
  <2> QED BY <2>1, <2>3
<1> QED BY <1>1, <1>2, AInvHolds, PTL

\* artifact.py ArtifactStore: the store, with the queue, the uploads, the readers and the
\* restarts around it, implements WriteOnceStore: an archive is its own attempt's, and no
\* run's archive is replaced by another.
THEOREM ArtifactsImplementStore == Spec => ImplementsStore
<1> DEFINE held == [j \in Jobs |-> Served(j)]
<1>1. AInv => held \in Contents!Contents
  <2> SUFFICES ASSUME AInv, NEW j \in Jobs PROVE Served(j) \in Archive \cup {None}
    BY DEF Contents!Contents
  <2>1. CASE Live(j) /\ file[j] # 0
    <3>1. row[j].n = file[j] /\ file[j] \in Nat
      BY <2>1 DEF AInv, NeverAnothersBytes, StoreTypes
    <3> QED BY <2>1, <3>1 DEF Served, Archive
  <2>2. CASE ~(Live(j) /\ file[j] # 0)
    BY <2>2 DEF Served
  <2> QED BY <2>1, <2>2
<1>2. Init => Contents!Init
  BY <1>1, InitA DEF Contents!Init
<1>3. AInv' => (held \in Contents!Contents)'
  BY <1>1, PTL
<1>4. ASSUME AInv, AInv', [Next]_vars PROVE [Contents!Next]_held
  <2>1. held' \in Contents!Contents
    BY <1>3, <1>4 DEF Contents!Contents
  <2>2. \A k \in Jobs : held[k] = Served(k) /\ held'[k] = Served(k)'
    OBVIOUS
  <2>3. ASSUME NEW k \in Jobs, Wanes(k) PROVE Contents!Lose(k)
    BY <2>2, <2>3, ServedWanes DEF Contents!Lose
  <2>4. ASSUME NEW k \in Jobs, Fills(k) PROVE Contents!Lose(k) \/ Contents!Write(k)
    BY <2>1, <2>2, <2>4 DEF Fills, Served, Contents!Lose, Contents!Write, Contents!Contents
  <2>5. CASE \A k \in Jobs : Wanes(k)
    BY <2>1, <2>3, <2>5 DEF Contents!Next
  <2>6. ASSUME NEW j \in Jobs, Fills(j), \A k \in Jobs \ {j} : Wanes(k) PROVE Contents!Next
    BY <2>1, <2>3, <2>4, <2>6 DEF Contents!Next
  <2> QED BY <1>4, <2>5, <2>6, NextServes
<1> QED BY <1>2, <1>4, AInvHolds, PTL DEF Spec, ImplementsStore, Contents!Spec
===============================================================================
