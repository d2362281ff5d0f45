------------------------------ MODULE CacheProofs -----------------------------
(***************************************************************************)
(* Proofs about Cache for any runs, keys, contents, quotas, retention time *)
(* and faults: rows and files agree up to what an undone transaction or a  *)
(* late delete left, a run restores what an entry of its scope held when   *)
(* the download was admitted, the quotas hold, and no entry's content is   *)
(* ever replaced by another.                                               *)
(***************************************************************************)
EXTENDS Cache, FiniteSetTheorems, WellFoundedInduction, TLAPS

Steps == {"start", "asking", "found", "missing", "hit", "opening", "running", "sending", "over"}

CacheTypes ==
  /\ now \in Nat /\ row \in [Entries -> Row \cup {None}]
  /\ pc \in [Runs -> Steps] /\ stamp \in [Runs -> Nat]
  /\ took = [r \in Runs |-> took[r]] /\ built = [r \in Runs |-> built[r]]
  /\ restored = [r \in Runs |-> restored[r]] /\ admitted = [r \in Runs |-> admitted[r]]

\* No request and no row is of the future, so that of any rows one was used last.
NothingAhead ==
  /\ \A e \in Entries : row[e] # None => row[e].used <= now
  /\ \A r \in Runs : stamp[r] <= now

\* What a lookup answered is of the run's scope.
TakenFromScope == \A r \in Runs : took[r] # None => Scope[took[r].entry] = Scope[Key[r]]

\* A run restores once: up to the download nothing is restored, and a download that was
\* admitted is for the content the entry held then.
Before == {"start", "asking", "found", "missing", "hit", "opening"}
AdmittedAsHeld ==
  \A r \in Runs : /\ pc[r] \in Before => restored[r] = None
                  /\ pc[r] = "opening" => admitted[r] = took[r].digest

SentIsBuilt == \A r \in Runs : pc[r] = "sending" => built[r] \in Blobs

SInv == /\ CacheTypes /\ NothingAhead /\ TakenFromScope /\ SentIsBuilt /\ AdmittedAsHeld
        /\ FilesMatchRows /\ RestoredFromScope

USE CacheAssumption

-----------------------------------------------------------------------------
(* What a lookup finds *)

\* Of numbers with an upper bound one is the greatest.
LEMMA GreatestOf ==
  ASSUME NEW S \in SUBSET Nat, S # {}, NEW b \in Nat, \A x \in S : x <= b
  PROVE  \E x \in S : \A y \in S : y <= x
<1> DEFINE Less == {p \in Nat \X Nat : p[1] < p[2]}
           Bounds == {x \in Nat : \A y \in S : y <= x}
<1>1. PICK m \in Bounds : \A x \in Bounds : ~(x < m)
  <2>1. Bounds # {} /\ Bounds \subseteq Nat
    OBVIOUS
  <2>2. IsWellFoundedOn(Less, Nat)
    BY NatLessThanWellFounded DEF OpToRel
  <2>3. \E m \in Bounds : \A x \in Bounds : ~(<<x, m>> \in Less)
    <3> HIDE DEF Bounds, Less
    <3> QED BY <2>1, <2>2, WFMin
  <2> QED BY <2>1, <2>3
<1>2. m \in S
  <2> SUFFICES ASSUME m \notin S PROVE FALSE
    OBVIOUS
  <2>3. m \in Nat /\ \A y \in S : y \in Nat /\ y <= m /\ y # m
    OBVIOUS
  <2>4. PICK y \in S : TRUE
    OBVIOUS
  <2>1. m \in Nat /\ (\A x \in S : x \in Nat /\ x <= m /\ x # m) /\ m # 0
    BY <2>3, <2>4
  <2>2. m - 1 \in Bounds
    BY <2>1
  <2> QED BY <1>1, <2>1, <2>2
<1> QED BY <1>2

\* Of any numbers one is the least.
LEMMA LeastOf ==
  ASSUME NEW S \in SUBSET Nat, S # {}
  PROVE  \E x \in S : \A y \in S : x <= y
<1> DEFINE Less == {p \in Nat \X Nat : p[1] < p[2]}
<1>1. IsWellFoundedOn(Less, Nat)
  BY NatLessThanWellFounded DEF OpToRel
<1>2. \E m \in S : \A x \in S : ~(<<x, m>> \in Less)
  <2> HIDE DEF Less
  <2> QED BY <1>1, WFMin
<1>3. PICK m \in S : \A x \in S : ~(x < m)
  BY <1>2
<1>4. \A x \in S : x \in Nat /\ m \in Nat
  OBVIOUS
<1> QED BY <1>3, <1>4

\* A lookup finds a row of the run's own scope, or none.
LEMMA FindInScope ==
  ASSUME NEW rows \in [Entries -> Row \cup {None}], NEW r \in Runs, NEW b \in Nat,
         \A e \in Entries : rows[e] # None => rows[e].used <= b,
         find(rows, r) # None
  PROVE  /\ find(rows, r) \in Entries /\ rows[find(rows, r)] # None
         /\ Scope[find(rows, r)] = Scope[Key[r]]
<1>1. CASE rows[Key[r]] # None
  BY <1>1 DEF find
<1>2. CASE rows[Key[r]] = None
  <2> DEFINE C == candidates(rows, r)
             last(e) == \A f \in C : rows[f].used < rows[e].used
                                    \/ (rows[f].used = rows[e].used /\ e <= f)
  <2>1. C # {} /\ find(rows, r) = CHOOSE e \in C : last(e)
    BY <1>2 DEF find
  <2>2. \A e \in C : e \in Entries /\ e \in Nat /\ rows[e] # None /\ Scope[e] = Scope[Key[r]]
    BY DEF candidates, kept, has_prefix
  <2>3. \A e \in C : rows[e].used \in Nat /\ rows[e].used <= b
    BY <2>2 DEF Row
  <2> HIDE DEF C
  <2>4. PICK top \in {rows[e].used : e \in C} : \A u \in {rows[e].used : e \in C} : u <= top
    BY <2>1, <2>3, GreatestOf
  <2>5. PICK e \in {f \in C : rows[f].used = top} : \A f \in {g \in C : rows[g].used = top} : e <= f
    <3>1. {f \in C : rows[f].used = top} # {} /\ {f \in C : rows[f].used = top} \in SUBSET Nat
      BY <2>2
    <3> QED BY <3>1, LeastOf
  <2>6. e \in C /\ last(e)
    <3> SUFFICES ASSUME NEW f \in C PROVE rows[f].used < rows[e].used
                                           \/ (rows[f].used = rows[e].used /\ e <= f)
      BY <2>5
    <3>1. rows[e].used = top /\ rows[f].used <= top /\ rows[f].used \in Nat /\ top \in Nat
      BY <2>3, <2>4, <2>5
    <3> QED BY <2>5, <3>1
  <2>7. find(rows, r) \in C
    BY <2>1, <2>6
  <2> QED BY <2>2, <2>7
<1> QED BY <1>1, <1>2

-----------------------------------------------------------------------------
(* What a transaction does to the rows *)

\* Rows made from others by leaving some out.
Fewer(rows, from) == /\ rows \in [Entries -> Row \cup {None}]
                     /\ \A e \in Entries : rows[e] \in {None, from[e]}

LEMMA WithoutIsFewer ==
  ASSUME NEW rows \in [Entries -> Row \cup {None}], NEW gone
  PROVE  Fewer(without(rows, gone), rows)
BY DEF Fewer, without

LEMMA ExpireIsFewer ==
  ASSUME NEW rows \in [Entries -> Row \cup {None}], NEW at
  PROVE  Fewer(expire(rows, at), rows)
BY WithoutIsFewer DEF expire

LEMMA QuotaIsFewer ==
  ASSUME NEW rows \in [Entries -> Row \cup {None}], NEW repository
  PROVE  Fewer(enforce_quota(rows, repository), rows)
<1>1. \A old \in [Entries -> Row \cup {None}] : \A scope, quota :
        Fewer(evict_to_quota(old, scope, quota), old)
  <2> SUFFICES ASSUME NEW old \in [Entries -> Row \cup {None}], NEW scope, NEW quota
               PROVE  Fewer(evict_to_quota(old, scope, quota), old)
    OBVIOUS
  <2>1. \A gone : Fewer(without(old, gone), old)
    BY WithoutIsFewer
  <2> QED BY <2>1 DEF evict_to_quota
<1> DEFINE first == evict_to_quota(rows, {e \in Entries : Repository[e] = repository}, RepositoryQuota)
<1>2. Fewer(first, rows)
  BY <1>1
<1>3. enforce_quota(rows, repository) = evict_to_quota(first, Entries, StorageQuota)
  BY DEF enforce_quota
<1> HIDE DEF first
<1>4. Fewer(evict_to_quota(first, Entries, StorageQuota), first)
  BY <1>1, <1>2 DEF Fewer
<1> QED BY <1>2, <1>3, <1>4 DEF Fewer

\* An upload leaves rows that were there, and its own.
LEMMA PutRowsOf ==
  ASSUME CacheTypes, NEW r \in Runs, built[r] \in Blobs
  PROVE  /\ put_rows(r) \in [Entries -> Row \cup {None}] /\ own_row(r) \in Row
         /\ \A e \in Entries : \/ put_rows(r)[e] \in {None, row[e]}
                               \/ e = Key[r] /\ put_rows(r)[e] = own_row(r)
<1> DEFINE first == expire(row, stamp[r])
           mine == [first EXCEPT ![Key[r]] = own_row(r)]
           second == expire(mine, stamp[r])
<1>1. own_row(r) \in Row
  BY DEF own_row, Row, CacheTypes
<1>2. Fewer(first, row)
  BY ExpireIsFewer DEF CacheTypes
<1>3. put_rows(r) = enforce_quota(second, Repository[Key[r]])
  BY DEF put_rows
<1> HIDE DEF first
<1>4. /\ mine \in [Entries -> Row \cup {None}]
      /\ \A e \in Entries : mine[e] \in {None, row[e]} \/ (e = Key[r] /\ mine[e] = own_row(r))
  BY <1>1, <1>2 DEF Fewer
<1> HIDE DEF mine
<1>5. Fewer(second, mine)
  BY <1>4, ExpireIsFewer
<1> HIDE DEF second
<1>6. Fewer(put_rows(r), second)
  BY <1>3, <1>5, QuotaIsFewer DEF Fewer
<1>7. \A e \in Entries : put_rows(r)[e] \in {None, second[e]} /\ second[e] \in {None, mine[e]}
  BY <1>5, <1>6 DEF Fewer
<1>8. put_rows(r) \in [Entries -> Row \cup {None}]
  BY <1>6 DEF Fewer
<1> QED BY <1>1, <1>4, <1>7, <1>8

LEMMA Referenced ==
  \A rows : \A x : x \in referenced(rows) <=> \E e \in Entries : rows[e] # None /\ x = rows[e].digest
BY DEF referenced, kept

-----------------------------------------------------------------------------
(* Steps of a run *)

\* A run goes on with what it had, or without it.
GoesOn(q) ==
  /\ stamp'[q] \in {0, stamp[q], now}
  /\ took'[q] \in {None, took[q]}
  /\ pc'[q] = "sending" => built'[q] \in Blobs
  /\ \/ /\ restored'[q] = restored[q] /\ admitted'[q] = admitted[q]
        /\ pc'[q] \in Before => pc[q] \in Before
        /\ pc'[q] = "opening" => pc[q] = "opening" /\ took'[q] = took[q]
     \/ /\ pc[q] = "hit" /\ pc'[q] = "opening" /\ restored'[q] = restored[q]
        /\ took'[q] = took[q] /\ admitted'[q] = took[q].digest
     \/ /\ pc[q] = "opening" /\ pc'[q] = "running"
        /\ restored'[q] = took[q] /\ admitted'[q] = admitted[q]
     \/ pc[q] \in Before /\ pc'[q] = "running" /\ restored'[q] = None

RunTypes ==
  /\ pc \in [Runs -> Steps] /\ stamp \in [Runs -> Nat]
  /\ took = [r \in Runs |-> took[r]] /\ built = [r \in Runs |-> built[r]]
  /\ restored = [r \in Runs |-> restored[r]] /\ admitted = [r \in Runs |-> admitted[r]]

LEMMA RunSide ==
  ASSUME SInv, now' = now, \A q \in Runs : GoesOn(q)
  PROVE  /\ TakenFromScope' /\ SentIsBuilt' /\ AdmittedAsHeld' /\ RestoredFromScope'
         /\ \A q \in Runs : stamp'[q] <= now'
<1>1. TakenFromScope'
  BY DEF SInv, TakenFromScope, GoesOn
<1>2. SentIsBuilt'
  BY DEF SentIsBuilt, GoesOn
<1>3. AdmittedAsHeld'
  BY DEF SInv, AdmittedAsHeld, GoesOn, Before
<1>4. RestoredFromScope'
  <2> SUFFICES ASSUME NEW q \in Runs, restored'[q] # None
               PROVE  /\ Scope[restored'[q].entry] = Scope[Key[q]]
                      /\ restored'[q].digest = admitted'[q]
    BY DEF RestoredFromScope
  <2>1. CASE restored'[q] = restored[q] /\ admitted'[q] = admitted[q]
    BY <2>1 DEF SInv, RestoredFromScope
  <2>2. CASE pc[q] = "hit" /\ restored'[q] = restored[q]
    BY <2>2 DEF SInv, AdmittedAsHeld, Before
  <2>3. CASE pc[q] = "opening" /\ restored'[q] = took[q] /\ admitted'[q] = admitted[q]
    BY <2>3 DEF SInv, AdmittedAsHeld, TakenFromScope
  <2> QED BY <2>1, <2>2, <2>3 DEF GoesOn
<1>5. \A q \in Runs : stamp'[q] <= now'
  BY DEF SInv, CacheTypes, NothingAhead, GoesOn
<1> QED BY <1>1, <1>2, <1>3, <1>4, <1>5

LEMMA Forgotten ==
  ASSUME SInv, NEW r \in Runs, NEW step \in {"running", "over"}, Forget(r, step),
         restored' = restored, admitted' = admitted
  PROVE  RunTypes' /\ \A q \in Runs : GoesOn(q)
<1>1. /\ pc' = [pc EXCEPT ![r] = step] /\ stamp' = [stamp EXCEPT ![r] = 0]
      /\ took' = [took EXCEPT ![r] = None] /\ built' = [built EXCEPT ![r] = None]
  BY DEF Forget, Go
<1>2. RunTypes'
  BY <1>1 DEF SInv, CacheTypes, RunTypes, Steps
<1>3. /\ pc'[r] = step /\ stamp'[r] = 0 /\ took'[r] = None
      /\ \A q \in Runs \ {r} : /\ pc'[q] = pc[q] /\ stamp'[q] = stamp[q] /\ took'[q] = took[q]
                               /\ built'[q] = built[q]
  BY <1>1 DEF SInv, CacheTypes
<1>4. \A q \in Runs : GoesOn(q)
  BY <1>3 DEF SInv, SentIsBuilt, GoesOn, Before
<1> QED BY <1>2, <1>4

\* A step of runs that leaves the store alone.
LEMMA RunStep ==
  ASSUME SInv, UNCHANGED <<now, row, blobs, burnt, loose>>,
         RunTypes', \A q \in Runs : GoesOn(q)
  PROVE  SInv'
<1>1. CacheTypes'
  BY DEF SInv, CacheTypes, RunTypes
<1>2. /\ TakenFromScope' /\ SentIsBuilt' /\ AdmittedAsHeld' /\ RestoredFromScope'
      /\ \A q \in Runs : stamp'[q] <= now'
  BY RunSide
<1>3. NothingAhead'
  BY <1>2 DEF SInv, NothingAhead
<1>4. FilesMatchRows'
  BY DEF SInv, FilesMatchRows, referenced, kept
<1> QED BY <1>1, <1>2, <1>3, <1>4 DEF SInv

LEMMA QuietSteps ==
  ASSUME SInv, NEW r \in Runs,
         \/ AskLookup(r) \/ FileThere(r) \/ FileGone(r) \/ open_blob(r) \/ restore_archive(r)
         \/ RestoreSkipped(r) \/ NothingToStore(r) \/ upload(r) \/ UploadFails(r)
  PROVE  SInv'
<1>1. CASE AskLookup(r)
  <2>1. RunTypes'
    BY <1>1 DEF AskLookup, Go, SInv, CacheTypes, RunTypes, Steps, got
  <2>2. \A q \in Runs : GoesOn(q)
    BY <1>1 DEF AskLookup, Go, SInv, CacheTypes, SentIsBuilt, GoesOn, Before, got
  <2> QED BY <1>1, <2>1, <2>2, RunStep DEF AskLookup, store, disk
<1>2. CASE FileThere(r) \/ FileGone(r)
  <2>1. RunTypes'
    BY <1>2 DEF FileThere, FileGone, Go, SInv, CacheTypes, RunTypes, Steps, got
  <2>2. \A q \in Runs : GoesOn(q)
    BY <1>2 DEF FileThere, FileGone, Go, SInv, CacheTypes, SentIsBuilt, GoesOn, Before, got
  <2> QED BY <1>2, <2>1, <2>2, RunStep DEF FileThere, FileGone, store, disk
<1>3. CASE open_blob(r)
  <2>1. CASE servable(r)
    <3>1. RunTypes'
      BY <1>3, <2>1 DEF open_blob, Go, SInv, CacheTypes, RunTypes, Steps, got
    <3>2. admitted' = [admitted EXCEPT ![r] = took[r].digest] /\ pc[r] = "hit"
      BY <1>3, <2>1 DEF open_blob, servable
    <3>3. \A q \in Runs : GoesOn(q)
      BY <1>3, <2>1, <3>2 DEF open_blob, Go, SInv, CacheTypes, SentIsBuilt, GoesOn, Before
    <3> QED BY <1>3, <3>1, <3>3, RunStep DEF open_blob, store, disk
  <2>2. CASE ~servable(r)
    <3>1. RunTypes' /\ \A q \in Runs : GoesOn(q)
      BY <1>3, <2>2, Forgotten DEF open_blob
    <3> QED BY <1>3, <3>1, RunStep DEF open_blob, store, disk
  <2> QED BY <2>1, <2>2
<1>4. CASE restore_archive(r) \/ RestoreSkipped(r)
  <2>1. /\ pc' = [pc EXCEPT ![r] = "running"] /\ stamp' = [stamp EXCEPT ![r] = 0]
        /\ took' = [took EXCEPT ![r] = None] /\ built' = [built EXCEPT ![r] = None]
        /\ pc[r] \in Before
        /\ \/ UNCHANGED restored
           \/ restored' = [restored EXCEPT ![r] = None]
           \/ pc[r] = "opening" /\ restored' = [restored EXCEPT ![r] = took[r]] /\ admitted' = admitted
        /\ UNCHANGED admitted \/ admitted' = [admitted EXCEPT ![r] = None]
    BY <1>4 DEF restore_archive, RestoreSkipped, Forget, Go, download, Before
  <2>2. RunTypes'
    BY <2>1 DEF SInv, CacheTypes, RunTypes, Steps
  <2>3. /\ pc'[r] = "running" /\ stamp'[r] = 0 /\ took'[r] = None /\ pc[r] \in Before
        /\ \/ restored'[r] \in {None, restored[r]}
           \/ pc[r] = "opening" /\ restored'[r] = took[r] /\ admitted'[r] = admitted[r]
        /\ \A q \in Runs \ {r} : /\ pc'[q] = pc[q] /\ stamp'[q] = stamp[q] /\ took'[q] = took[q]
                                 /\ built'[q] = built[q] /\ restored'[q] = restored[q]
                                 /\ admitted'[q] = admitted[q]
    BY <2>1 DEF SInv, CacheTypes
  <2>4. restored[r] = None
    BY <2>1 DEF SInv, AdmittedAsHeld
  <2>5. \A q \in Runs : GoesOn(q)
    BY <2>3, <2>4 DEF SInv, SentIsBuilt, GoesOn
  <2> QED BY <1>4, <2>2, <2>5, RunStep DEF restore_archive, RestoreSkipped, store, disk
<1>5. CASE NothingToStore(r)
  <2>1. RunTypes' /\ \A q \in Runs : GoesOn(q)
    BY <1>5, Forgotten DEF NothingToStore, got
  <2> QED BY <1>5, <2>1, RunStep DEF NothingToStore, store, disk
<1>6. CASE upload(r)
  <2>1. PICK b \in Blobs : built' = [built EXCEPT ![r] = b]
    BY <1>6 DEF upload, create_archive
  <2>2. RunTypes'
    BY <1>6, <2>1 DEF upload, Go, SInv, CacheTypes, RunTypes, Steps, got
  <2>3. \A q \in Runs : GoesOn(q)
    BY <1>6, <2>1 DEF upload, Go, SInv, CacheTypes, SentIsBuilt, GoesOn, Before, got
  <2> QED BY <1>6, <2>2, <2>3, RunStep DEF upload, store, disk
<1>7. CASE UploadFails(r)
  <2>1. RunTypes' /\ \A q \in Runs : GoesOn(q)
    BY <1>7, Forgotten DEF UploadFails, got
  <2> QED BY <1>7, <2>1, RunStep DEF UploadFails, store, disk
<1> QED BY <1>1, <1>2, <1>3, <1>4, <1>5, <1>6, <1>7

LEMMA RestartS == ASSUME SInv, Restart PROVE SInv'
<1>1. RunTypes'
  BY DEF Restart, SInv, CacheTypes, RunTypes, Steps, got
<1>2. \A q \in Runs : GoesOn(q)
  BY DEF Restart, SInv, CacheTypes, SentIsBuilt, GoesOn, Before, got
<1> QED BY <1>1, <1>2, RunStep DEF Restart, store, disk

LEMMA TickS == ASSUME SInv, Tick PROVE SInv'
<1>1. /\ now' = now + 1 /\ UNCHANGED <<row, blobs, pc, stamp, took, built, restored>>
      /\ UNCHANGED <<admitted, burnt, loose>>
  BY DEF Tick, store, run, got, disk
<1>2. CacheTypes'
  BY <1>1 DEF SInv, CacheTypes
<1>3. NothingAhead'
  <2>1. \A e \in Entries : row[e] # None => row[e].used \in Nat
    BY DEF SInv, CacheTypes, Row
  <2> QED BY <1>1, <2>1 DEF SInv, CacheTypes, NothingAhead
<1>4. TakenFromScope' /\ SentIsBuilt' /\ AdmittedAsHeld' /\ RestoredFromScope'
  BY <1>1 DEF SInv, TakenFromScope, SentIsBuilt, AdmittedAsHeld, RestoredFromScope
<1>5. FilesMatchRows'
  BY <1>1 DEF SInv, FilesMatchRows, referenced, kept
<1> QED BY <1>2, <1>3, <1>4, <1>5 DEF SInv

-----------------------------------------------------------------------------
(* Transactions *)

LEMMA StoreSide ==
  ASSUME SInv, now' = now, row' \in [Entries -> Row \cup {None}], RunTypes',
         \A q \in Runs : stamp'[q] <= now,
         \A e \in Entries : row'[e] # None => row'[e].used <= now
  PROVE  CacheTypes' /\ NothingAhead'
<1>1. CacheTypes'
  BY DEF SInv, CacheTypes, RunTypes
<1>2. NothingAhead'
  BY DEF NothingAhead
<1> QED BY <1>1, <1>2

\* What expiry leaves is of the past, and names no other files.
LEMMA AfterExpiry ==
  ASSUME SInv, NEW r \in Runs, NEW rows, rows = expire(row, stamp[r])
  PROVE  /\ rows \in [Entries -> Row \cup {None}]
         /\ \A e \in Entries : rows[e] # None =>
              rows[e] = row[e] /\ rows[e].used <= now
         /\ referenced(rows) \subseteq referenced(row)
<1>1. Fewer(rows, row)
  BY ExpireIsFewer DEF SInv, CacheTypes
<1>2. \A e \in Entries : rows[e] # None => rows[e] = row[e]
  BY <1>1 DEF Fewer
<1>3. referenced(rows) \subseteq referenced(row)
  BY <1>2, Referenced
<1> QED BY <1>1, <1>2, <1>3 DEF Fewer, SInv, NothingAhead

LEMMA lookup_undoneS == ASSUME SInv, NEW r \in Runs, lookup_undone(r) PROVE SInv'
<1>1. PICK rows : rows = expire(row, stamp[r])
  OBVIOUS
<1>2. PICK gone : gone = blobs \ (blobs \cap referenced(rows))
  OBVIOUS
<1>3. /\ blobs' = blobs \ gone /\ burnt' = burnt \cup gone /\ loose' = {}
      /\ Forget(r, "running") /\ UNCHANGED <<now, row, restored, admitted>>
  BY <1>1, <1>2 DEF lookup_undone, collect_blobs, got
<1>4. referenced(rows) \subseteq referenced(row)
  BY <1>1, AfterExpiry
<1>5. FilesMatchRows'
  <2>1. referenced(row)' = referenced(row)
    BY <1>3 DEF referenced, kept
  <2> QED BY <1>2, <1>3, <1>4, <2>1 DEF SInv, FilesMatchRows
<1>6. RunTypes' /\ \A q \in Runs : GoesOn(q)
  BY <1>3, Forgotten
<1>7. /\ TakenFromScope' /\ SentIsBuilt' /\ AdmittedAsHeld' /\ RestoredFromScope'
      /\ \A q \in Runs : stamp'[q] <= now
  BY <1>3, <1>6, RunSide
<1>8. CacheTypes' /\ NothingAhead'
  BY <1>3, <1>6, <1>7, StoreSide DEF SInv, CacheTypes, NothingAhead
<1> QED BY <1>5, <1>7, <1>8 DEF SInv

LEMMA drop_missingS == ASSUME SInv, NEW r \in Runs, drop_missing(r) PROVE SInv'
<1>1. PICK e : e = took[r].entry
  OBVIOUS
<1>2. /\ row' = without(row, {e}) /\ loose' = loose \cup (Orphans(row, e) \cap blobs)
      /\ Forget(r, "running") /\ UNCHANGED <<now, blobs, restored, admitted, burnt>>
  BY <1>1 DEF drop_missing, got
<1>3. /\ row' \in [Entries -> Row \cup {None}]
      /\ \A f \in Entries : row'[f] = IF f = e THEN None ELSE row[f]
  BY <1>2 DEF without, SInv, CacheTypes
<1>4. FilesMatchRows'
  <2>1. referenced(row)' \subseteq referenced(row)
    BY <1>3, Referenced
  <2>2. ASSUME NEW x, x \in referenced(row), x \notin referenced(row)' PROVE x \in Orphans(row, e)
    <3>1. PICK f \in Entries : row[f] # None /\ x = row[f].digest
      BY <2>2, Referenced
    <3>2. f = e
      BY <1>3, <2>2, <3>1, Referenced
    <3> QED BY <1>2, <2>2, <3>1, <3>2 DEF Orphans
  <2> QED BY <1>2, <2>1, <2>2 DEF SInv, FilesMatchRows
<1>5. RunTypes' /\ \A q \in Runs : GoesOn(q)
  BY <1>2, Forgotten
<1>6. /\ TakenFromScope' /\ SentIsBuilt' /\ AdmittedAsHeld' /\ RestoredFromScope'
      /\ \A q \in Runs : stamp'[q] <= now
  BY <1>2, <1>5, RunSide
<1>7. CacheTypes' /\ NothingAhead'
  BY <1>2, <1>3, <1>5, <1>6, StoreSide DEF SInv, NothingAhead
<1> QED BY <1>4, <1>6, <1>7 DEF SInv

LEMMA put_existsS == ASSUME SInv, NEW r \in Runs, put_exists(r) PROVE SInv'
<1>1. PICK rows : rows = expire(row, stamp[r])
  OBVIOUS
<1>2. /\ Forget(r, "over") /\ row' = rows /\ UNCHANGED <<now, restored, admitted, burnt>>
      /\ \/ blobs' = blobs \cap referenced(rows) /\ loose' = {}
         \/ rows = row /\ UNCHANGED <<blobs, loose>>
  BY <1>1 DEF put_exists, collect_blobs, got
<1>3. /\ rows \in [Entries -> Row \cup {None}]
      /\ \A e \in Entries : rows[e] # None =>
           rows[e] = row[e] /\ rows[e].used <= now
      /\ referenced(rows) \subseteq referenced(row)
  BY <1>1, AfterExpiry
<1>4. FilesMatchRows'
  <2>1. referenced(row)' = referenced(rows)
    BY <1>2 DEF referenced, kept
  <2> QED BY <1>2, <1>3, <2>1 DEF SInv, FilesMatchRows
<1>5. RunTypes' /\ \A q \in Runs : GoesOn(q)
  BY <1>2, Forgotten
<1>6. /\ TakenFromScope' /\ SentIsBuilt' /\ AdmittedAsHeld' /\ RestoredFromScope'
      /\ \A q \in Runs : stamp'[q] <= now
  BY <1>2, <1>5, RunSide
<1>7. CacheTypes' /\ NothingAhead'
  BY <1>2, <1>3, <1>5, <1>6, StoreSide
<1> QED BY <1>4, <1>6, <1>7 DEF SInv

LEMMA put_exists_undoneS == ASSUME SInv, NEW r \in Runs, put_exists_undone(r) PROVE SInv'
<1>1. PICK rows : rows = expire(row, stamp[r])
  OBVIOUS
<1>2. PICK gone : /\ blobs' = blobs \ gone /\ burnt' = burnt \cup gone
                  /\ \/ loose' = loose /\ gone = {}
                     \/ loose' = {} /\ gone = blobs \ referenced(rows)
  BY <1>1 DEF put_exists_undone, collect_blobs
<1>3. Forget(r, "over") /\ UNCHANGED <<now, row, restored, admitted>>
  BY DEF put_exists_undone, got
<1>4. referenced(rows) \subseteq referenced(row)
  BY <1>1, AfterExpiry
<1>5. FilesMatchRows'
  <2>1. referenced(row)' = referenced(row)
    BY <1>3 DEF referenced, kept
  <2> QED BY <1>2, <1>4, <2>1 DEF SInv, FilesMatchRows
<1>6. RunTypes' /\ \A q \in Runs : GoesOn(q)
  BY <1>3, Forgotten
<1>7. /\ TakenFromScope' /\ SentIsBuilt' /\ AdmittedAsHeld' /\ RestoredFromScope'
      /\ \A q \in Runs : stamp'[q] <= now
  BY <1>3, <1>6, RunSide
<1>8. CacheTypes' /\ NothingAhead'
  BY <1>3, <1>6, <1>7, StoreSide DEF SInv, CacheTypes, NothingAhead
<1> QED BY <1>5, <1>7, <1>8 DEF SInv

LEMMA lookupS == ASSUME SInv, NEW r \in Runs, lookup(r) PROVE SInv'
<1>1. PICK rows : rows = expire(row, stamp[r])
  OBVIOUS
<1>2. PICK e : e = find(rows, r)
  OBVIOUS
<1>3. /\ blobs' = blobs \cap referenced(rows) /\ loose' = {} /\ UNCHANGED <<now, restored, admitted, burnt>>
      /\ IF e = None
         THEN row' = rows /\ Forget(r, "running")
         ELSE /\ row' = [rows EXCEPT ![e].used = stamp[r]]
              /\ took' = [took EXCEPT ![r] = [entry |-> e, digest |-> rows[e].digest]]
              /\ pc' = [pc EXCEPT ![r] = "found"]
              /\ stamp' = [stamp EXCEPT ![r] = 0] /\ built' = built
  BY <1>1, <1>2 DEF lookup, collect_blobs, Go, got
<1>4. /\ rows \in [Entries -> Row \cup {None}]
      /\ \A f \in Entries : rows[f] # None =>
           rows[f] = row[f] /\ rows[f].used <= now
      /\ referenced(rows) \subseteq referenced(row)
  BY <1>1, AfterExpiry
<1>5. referenced(row)' = referenced(rows) => FilesMatchRows'
  BY <1>3, <1>4 DEF SInv, FilesMatchRows
<1>6. CASE e = None
  <2>1. row' = rows /\ Forget(r, "running")
    BY <1>3, <1>6
  <2>2. FilesMatchRows'
    BY <1>5, <2>1 DEF referenced, kept
  <2>3. RunTypes' /\ \A q \in Runs : GoesOn(q)
    BY <1>3, <2>1, Forgotten
  <2>4. /\ TakenFromScope' /\ SentIsBuilt' /\ AdmittedAsHeld' /\ RestoredFromScope'
      /\ \A q \in Runs : stamp'[q] <= now
    BY <1>3, <2>3, RunSide
  <2>5. CacheTypes' /\ NothingAhead'
    BY <1>3, <1>4, <2>1, <2>3, <2>4, StoreSide
  <2> QED BY <2>2, <2>4, <2>5 DEF SInv
<1>7. CASE e # None
  <2>1. e \in Entries /\ rows[e] # None /\ Scope[e] = Scope[Key[r]]
    <3>1. now \in Nat /\ \A f \in Entries : rows[f] # None => rows[f].used <= now
      BY <1>4 DEF SInv, CacheTypes
    <3> QED BY <1>2, <1>4, <1>7, <3>1, FindInScope
  <2>2. PICK was \in Row : was = rows[e]
    BY <1>4, <2>1
  <2>3. PICK touched : touched = [was EXCEPT !.used = stamp[r]]
    OBVIOUS
  <2>4. stamp[r] \in Nat /\ stamp[r] <= now
    BY DEF SInv, CacheTypes, NothingAhead
  <2>5. touched \in Row
    BY <2>2, <2>3, <2>4 DEF Row
  <2>6. touched.digest = was.digest /\ touched.used = stamp[r]
    BY <2>2, <2>3 DEF Row
  <2>7. row' = [rows EXCEPT ![e] = touched]
    BY <1>3, <1>7, <2>2, <2>3
  <2>8. /\ row' \in [Entries -> Row \cup {None}] /\ row'[e] = touched
        /\ \A f \in Entries \ {e} : row'[f] = rows[f]
    BY <1>4, <2>1, <2>5, <2>7
  <2>9. touched # None
    BY <2>5
  <2>10. \A f \in Entries : /\ row'[f] # None <=> rows[f] # None
                            /\ row'[f] # None => row'[f].digest = rows[f].digest
    BY <2>1, <2>2, <2>6, <2>8, <2>9
  <2>11. FilesMatchRows'
    <3>1. \A x : x \in referenced(row)' <=> \E f \in Entries : row'[f] # None /\ x = row'[f].digest
      BY DEF referenced, kept
    <3>2. \A x : x \in referenced(row)' <=> x \in referenced(rows)
      BY <2>10, <3>1, Referenced
    <3> QED BY <1>5, <3>2
  <2>12. RunTypes'
    BY <1>3, <1>7 DEF SInv, CacheTypes, RunTypes, Steps
  <2>13. \A q \in Runs : stamp'[q] <= now
    BY <1>3, <1>7 DEF SInv, CacheTypes, NothingAhead
  <2>14. CacheTypes' /\ NothingAhead'
    <3>1. \A f \in Entries : row'[f] # None => row'[f].used <= now
      BY <1>4, <2>4, <2>6, <2>8, <2>10
    <3> QED BY <1>3, <2>8, <2>12, <2>13, <3>1, StoreSide
  <2>15. TakenFromScope'
    <3>1. /\ took'[r].entry = e /\ took'[r].digest = rows[e].digest
          /\ \A q \in Runs \ {r} : took'[q] = took[q]
      BY <1>3, <1>7 DEF SInv, CacheTypes
    <3> QED BY <1>3, <1>4, <2>1, <3>1 DEF SInv, TakenFromScope
  <2>16. SentIsBuilt' /\ RestoredFromScope'
    BY <1>3, <1>7 DEF SInv, CacheTypes, SentIsBuilt, RestoredFromScope
  <2>17. AdmittedAsHeld'
    <3>1. /\ pc[r] = "asking" /\ pc'[r] = "found"
          /\ \A q \in Runs \ {r} : pc'[q] = pc[q] /\ took'[q] = took[q]
      BY <1>3, <1>7 DEF lookup, SInv, CacheTypes
    <3> QED BY <1>3, <3>1 DEF SInv, AdmittedAsHeld, Before
  <2> QED BY <2>11, <2>14, <2>15, <2>16, <2>17 DEF SInv
<1> QED BY <1>6, <1>7

LEMMA putS == ASSUME SInv, NEW r \in Runs, put(r) PROVE SInv'
<1>1. PICK rows : rows = put_rows(r)
  OBVIOUS
<1>2. PICK b : b = built[r] /\ b \in Blobs
  BY DEF put, SInv, SentIsBuilt
<1>3. /\ Forget(r, "over") /\ row' = rows /\ blobs' = (blobs \cup {b}) \cap referenced(rows)
      /\ loose' = {} /\ burnt' = burnt \ {b} /\ UNCHANGED <<now, restored, admitted>>
  BY <1>1, <1>2 DEF put, collect_blobs, got
<1>4. /\ rows \in [Entries -> Row \cup {None}] /\ own_row(r) \in Row
      /\ \A e \in Entries : rows[e] \in {None, row[e]} \/ (e = Key[r] /\ rows[e] = own_row(r))
  BY <1>1, <1>2, PutRowsOf DEF SInv
<1>5. own_row(r).digest = b /\ own_row(r).used = stamp[r] /\ stamp[r] <= now
  BY <1>2 DEF own_row, SInv, NothingAhead
<1>6. FilesMatchRows'
  <2>1. referenced(row)' = referenced(rows)
    BY <1>3 DEF referenced, kept
  <2>2. ASSUME NEW x \in referenced(rows) PROVE x \in referenced(row) \/ x = b
    <3>1. PICK e \in Entries : rows[e] # None /\ x = rows[e].digest
      BY Referenced
    <3>2. CASE rows[e] = row[e]
      BY <3>1, <3>2, Referenced
    <3>3. CASE rows[e] = own_row(r)
      BY <1>5, <3>1, <3>3
    <3> QED BY <1>4, <3>1, <3>2, <3>3
  <2> QED BY <1>3, <2>1, <2>2 DEF SInv, FilesMatchRows
<1>7. RunTypes' /\ \A q \in Runs : GoesOn(q)
  BY <1>3, Forgotten
<1>8. /\ TakenFromScope' /\ SentIsBuilt' /\ AdmittedAsHeld' /\ RestoredFromScope'
      /\ \A q \in Runs : stamp'[q] <= now
  BY <1>3, <1>7, RunSide
<1>9. CacheTypes' /\ NothingAhead'
  <2>1. \A e \in Entries : row'[e] # None => row'[e].used <= now
    BY <1>3, <1>4, <1>5 DEF SInv, NothingAhead
  <2> QED BY <1>3, <1>4, <1>7, <1>8, <2>1, StoreSide
<1> QED BY <1>6, <1>8, <1>9 DEF SInv

LEMMA put_undoneS == ASSUME SInv, NEW r \in Runs, put_undone(r) PROVE SInv'
<1>1. PICK b : b = built[r]
  OBVIOUS
<1>2. PICK gone :
        /\ blobs' = (blobs \cup {b}) \ gone /\ burnt' = (burnt \ {b}) \cup gone
        /\ loose' = loose \cup {b}
  BY <1>1 DEF put_undone
<1>3. Forget(r, "over") /\ UNCHANGED <<now, row, restored, admitted>>
  BY DEF put_undone, got
<1>4. FilesMatchRows'
  <2>1. referenced(row)' = referenced(row)
    BY <1>3 DEF referenced, kept
  <2> QED BY <1>2, <2>1 DEF SInv, FilesMatchRows
<1>5. RunTypes' /\ \A q \in Runs : GoesOn(q)
  BY <1>3, Forgotten
<1>6. /\ TakenFromScope' /\ SentIsBuilt' /\ AdmittedAsHeld' /\ RestoredFromScope'
      /\ \A q \in Runs : stamp'[q] <= now
  BY <1>3, <1>5, RunSide
<1>7. CacheTypes' /\ NothingAhead'
  BY <1>3, <1>5, <1>6, StoreSide DEF SInv, CacheTypes, NothingAhead
<1> QED BY <1>4, <1>6, <1>7 DEF SInv

-----------------------------------------------------------------------------
(* The invariant *)

LEMMA InitS == Init => SInv
<1> SUFFICES ASSUME Init PROVE SInv
  OBVIOUS
<1>1. \A e \in DOMAIN Stored : [digest |-> Stored[e], made |-> 0, used |-> 0] \in Row
  BY DEF Row
<1>2. /\ row \in [Entries -> Row \cup {None}]
      /\ \A e \in Entries : row[e] # None => /\ e \in DOMAIN Stored /\ row[e].digest = Stored[e]
                                             /\ row[e].used = 0
      /\ \A e \in DOMAIN Stored : row[e] # None /\ row[e].digest = Stored[e]
  BY <1>1 DEF Init
<1>3. CacheTypes
  BY <1>2 DEF Init, CacheTypes, Steps
<1>4. NothingAhead /\ TakenFromScope /\ SentIsBuilt /\ AdmittedAsHeld /\ RestoredFromScope
  BY <1>2 DEF Init, NothingAhead, TakenFromScope, SentIsBuilt, AdmittedAsHeld, RestoredFromScope
<1>5. FilesMatchRows
  <2>1. \A x : x \in referenced(row) <=> \E e \in Entries : row[e] # None /\ x = row[e].digest
    BY Referenced
  <2>2. \A x : x \in blobs <=> \E e \in DOMAIN Stored : x = Stored[e]
    BY DEF Init
  <2>3. referenced(row) \subseteq blobs
    BY <1>2, <2>1, <2>2
  <2>4. ASSUME NEW x \in blobs PROVE x \in referenced(row)
    <3>1. PICK e \in DOMAIN Stored : x = Stored[e]
      BY <2>2
    <3>2. e \in Entries /\ row[e] # None /\ x = row[e].digest
      BY <1>2, <3>1
    <3> QED BY <2>1, <3>2
  <2> QED BY <2>3, <2>4 DEF FilesMatchRows
<1> QED BY <1>3, <1>4, <1>5 DEF SInv

LEMMA NextS == SInv /\ [Next]_vars => SInv'
<1> SUFFICES ASSUME SInv, [Next]_vars PROVE SInv'
  OBVIOUS
<1>1. CASE UNCHANGED vars
  <2>1. /\ UNCHANGED <<now, row, blobs, burnt, loose, pc, stamp, took, built>>
        /\ UNCHANGED <<restored, admitted>>
    BY <1>1 DEF vars, store, run, got, disk
  <2>2. RunTypes' /\ \A q \in Runs : GoesOn(q)
    BY <2>1 DEF SInv, CacheTypes, RunTypes, SentIsBuilt, GoesOn
  <2> QED BY <2>1, <2>2, RunStep
<1> QED BY <1>1, QuietSteps, lookupS, lookup_undoneS, drop_missingS, put_existsS, put_exists_undoneS,
          putS, put_undoneS, RestartS, TickS DEF Next

-----------------------------------------------------------------------------
(* Quotas *)

LEMMA BytesOf ==
  ASSUME NEW B \in SUBSET Blobs, IsFiniteSet(B)
  PROVE  /\ IsFiniteSet(UNION {{b} \X (1..Size[b]) : b \in B}) /\ bytes(B) \in Nat
         /\ B = {} => bytes(B) = 0
<1> DEFINE f == [b \in B |-> {b} \X (1..Size[b])]
           Pieces == {{b} \X (1..Size[b]) : b \in B}
<1>1. f \in Surjection(B, Pieces)
  BY DEF Surjection
<1>2. IsFiniteSet(Pieces)
  <2> HIDE DEF f, Pieces
  <2> QED BY <1>1, FS_Surjection
<1>3. IsFiniteSet(UNION Pieces)
  <2>1. ASSUME NEW T \in Pieces PROVE IsFiniteSet(T)
    <3>1. PICK b \in B : T = {b} \X (1..Size[b])
      OBVIOUS
    <3>2. Size[b] \in Int /\ 1 \in Int
      OBVIOUS
    <3>3. IsFiniteSet({b}) /\ IsFiniteSet(1..Size[b])
      BY <3>2, FS_Singleton, FS_Interval
    <3> QED BY <3>1, <3>3, FS_Product
  <2> HIDE DEF Pieces
  <2> QED BY <1>2, <2>1, FS_UNION
<1>4. bytes(B) \in Nat
  BY <1>3, FS_CardinalityType DEF bytes
<1>5. ASSUME B = {} PROVE bytes(B) = 0
  <2>1. UNION {{b} \X (1..Size[b]) : b \in B} = {}
    BY <1>5
  <2> QED BY <2>1, FS_EmptySet DEF bytes
<1> QED BY <1>3, <1>4, <1>5

\* Fewer contents have no more bytes.
LEMMA BytesGrow ==
  ASSUME NEW B \in SUBSET Blobs, IsFiniteSet(B), NEW A \in SUBSET B
  PROVE  bytes(A) \in Nat /\ bytes(B) \in Nat /\ bytes(A) <= bytes(B)
<1> DEFINE P == UNION {{b} \X (1..Size[b]) : b \in A}
           Q == UNION {{b} \X (1..Size[b]) : b \in B}
<1>1. P \in SUBSET Q
  OBVIOUS
<1>2. IsFiniteSet(Q) /\ bytes(B) \in Nat
  BY BytesOf
<1>3. Cardinality(P) <= Cardinality(Q)
  <2> HIDE DEF P, Q
  <2> QED BY <1>1, <1>2, FS_Subset
<1>4. A \in SUBSET Blobs /\ IsFiniteSet(A)
  BY FS_Subset
<1>5. bytes(A) \in Nat
  BY <1>4, BytesOf
<1> QED BY <1>2, <1>3, <1>5 DEF bytes

\* The contents of rows are finitely many.
LEMMA DigestsOf ==
  ASSUME NEW rows \in [Entries -> Row \cup {None}], NEW es \in SUBSET kept(rows)
  PROVE  /\ {rows[e].digest : e \in es} \in SUBSET Blobs
         /\ IsFiniteSet({rows[e].digest : e \in es})
<1> DEFINE D == {rows[e].digest : e \in es}
           f == [e \in es |-> rows[e].digest]
<1>1. D \in SUBSET Blobs
  BY DEF kept, Row
<1>2. es \in SUBSET Entries
  BY DEF kept
<1>3. IsFiniteSet(es)
  BY <1>2, FS_Subset
<1>4. f \in Surjection(es, D)
  BY DEF Surjection
<1>5. IsFiniteSet(D)
  <2> HIDE DEF D, f
  <2> QED BY <1>3, <1>4, FS_Surjection
<1> QED BY <1>1, <1>5

\* Rows weigh no more than others that have their contents too.
LEMMA WeightGrows ==
  ASSUME NEW rows \in [Entries -> Row \cup {None}], NEW from \in [Entries -> Row \cup {None}],
         NEW es \in SUBSET kept(rows), NEW fs \in SUBSET kept(from),
         \A e \in es : e \in fs /\ rows[e].digest = from[e].digest
  PROVE  /\ weight(rows, es) \in Nat /\ weight(from, fs) \in Nat
         /\ weight(rows, es) <= weight(from, fs)
<1> DEFINE A == {rows[e].digest : e \in es}
           B == {from[e].digest : e \in fs}
<1>1. A \in SUBSET B
  OBVIOUS
<1>2. B \in SUBSET Blobs /\ IsFiniteSet(B)
  BY DigestsOf
<1>3. bytes(A) \in Nat /\ bytes(B) \in Nat /\ bytes(A) <= bytes(B)
  <2> HIDE DEF A, B
  <2> QED BY <1>1, <1>2, BytesGrow
<1> QED BY <1>3 DEF weight

\* Eviction leaves of a scope what the quota has room for: dropping all of it would do.
LEMMA EvictionFits ==
  ASSUME NEW rows \in [Entries -> Row \cup {None}], NEW scope \in SUBSET Entries,
         NEW quota \in Nat, NEW new, new = evict_to_quota(rows, scope, quota)
  PROVE  weight(new, kept(new) \cap scope) <= quota
<1> DEFINE there == kept(rows) \cap scope
           above(e) == {f \in there : older(rows, f, e)}
           rest(i) == {e \in there : Cardinality(above(e)) >= i}
           G == {i \in 0..Cardinality(there) : weight(rows, rest(i)) <= quota}
           k == Min(G)
<1>1. IsFiniteSet(there) /\ there \in SUBSET Entries
  <2>1. there \in SUBSET Entries
    BY DEF kept
  <2> QED BY <2>1, FS_Subset
<1>2. Cardinality(there) \in Nat
  BY <1>1, FS_CardinalityType
<1>3. ASSUME NEW e \in there PROVE Cardinality(above(e)) \in Nat /\ Cardinality(above(e)) < Cardinality(there)
  <2>1. rows[e].used \in Nat /\ rows[e].made \in Nat /\ e \in Nat
    BY DEF kept, Row
  <2>2. e \notin above(e)
    BY <2>1 DEF older
  <2>3. above(e) \in SUBSET there /\ above(e) # there
    BY <2>2
  <2> HIDE DEF there, above
  <2>4. /\ IsFiniteSet(above(e)) /\ Cardinality(above(e)) <= Cardinality(there)
        /\ Cardinality(above(e)) # Cardinality(there)
    BY <1>1, <2>3, FS_Subset
  <2>5. Cardinality(above(e)) \in Nat
    BY <2>4, FS_CardinalityType
  <2> QED BY <1>2, <2>4, <2>5
<1>4. rest(Cardinality(there)) = {}
  <2> SUFFICES ASSUME NEW e \in rest(Cardinality(there)) PROVE FALSE
    OBVIOUS
  <2>1. Cardinality(above(e)) >= Cardinality(there) /\ e \in there
    OBVIOUS
  <2> HIDE DEF there, above, rest
  <2> QED BY <1>2, <1>3, <2>1
<1>5. Cardinality(there) \in G
  <2>1. {} \in SUBSET Blobs /\ IsFiniteSet({})
    BY FS_EmptySet
  <2>2. bytes({}) = 0
    BY <2>1, BytesOf
  <2>3. weight(rows, {}) = 0
    BY <2>2 DEF weight
  <2> HIDE DEF there, rest
  <2> QED BY <1>2, <1>4, <2>3
<1>6. k \in G
  <2>1. G \in SUBSET Nat /\ G # {}
    <3> HIDE DEF there, rest
    <3> QED BY <1>2, <1>5
  <2> HIDE DEF G
  <2>2. PICK x \in G : \A y \in G : x <= y
    BY <2>1, LeastOf
  <2> QED BY <2>2 DEF Min
<1>7. weight(rows, rest(k)) <= quota
  <2> HIDE DEF k, rest, there
  <2> QED BY <1>6
<1>8. new = without(rows, there \ rest(k))
  BY DEF evict_to_quota
<1>9. rest(k) \in SUBSET there
  OBVIOUS
<1> HIDE DEF rest, k
<1>10. /\ kept(new) \cap scope = rest(k) /\ new \in [Entries -> Row \cup {None}]
       /\ \A e \in rest(k) : e \in kept(rows) /\ new[e] = rows[e]
  BY <1>8, <1>9 DEF kept, without
<1>11. /\ weight(new, rest(k)) \in Nat /\ weight(rows, rest(k)) \in Nat
       /\ weight(new, rest(k)) <= weight(rows, rest(k))
  <2>1. rest(k) \in SUBSET kept(new) /\ rest(k) \in SUBSET kept(rows)
    BY <1>10
  <2>2. \A e \in rest(k) : new[e].digest = rows[e].digest
    BY <1>10
  <2> QED BY <1>10, <2>1, <2>2, WeightGrows
<1>12. weight(new, kept(new) \cap scope) = weight(new, rest(k))
  BY <1>10
<1> QED BY <1>7, <1>11, <1>12

\* Rows that both quotas have room for.
Fits(rows) ==
  /\ weight(rows, kept(rows)) <= StorageQuota
  /\ \A e \in Entries : weight(rows, {f \in kept(rows) : Repository[f] = Repository[e]}) <= RepositoryQuota

\* Rows fit where others with their contents do.
LEMMA FewerFit ==
  ASSUME NEW rows \in [Entries -> Row \cup {None}], NEW from \in [Entries -> Row \cup {None}],
         \A e \in Entries : rows[e] # None => from[e] # None /\ rows[e].digest = from[e].digest,
         Fits(from)
  PROVE  Fits(rows)
<1> DEFINE part(old, e) == {f \in kept(old) : Repository[f] = Repository[e]}
<1>1. /\ weight(rows, kept(rows)) \in Nat /\ weight(from, kept(from)) \in Nat
      /\ weight(rows, kept(rows)) <= weight(from, kept(from))
  <2>1. \A e \in kept(rows) : e \in kept(from) /\ rows[e].digest = from[e].digest
    BY DEF kept
  <2> QED BY <2>1, WeightGrows
<1>2. ASSUME NEW e \in Entries PROVE weight(rows, part(rows, e)) <= RepositoryQuota
  <2>1. /\ part(rows, e) \in SUBSET kept(rows) /\ part(from, e) \in SUBSET kept(from)
        /\ \A f \in part(rows, e) : f \in part(from, e) /\ rows[f].digest = from[f].digest
    BY DEF kept
  <2>2. weight(from, part(from, e)) <= RepositoryQuota
    BY DEF Fits
  <2> HIDE DEF part
  <2>3. /\ weight(rows, part(rows, e)) \in Nat /\ weight(from, part(from, e)) \in Nat
        /\ weight(rows, part(rows, e)) <= weight(from, part(from, e))
    BY <2>1, WeightGrows
  <2> QED BY <2>2, <2>3
<1>3. weight(from, kept(from)) <= StorageQuota
  BY DEF Fits
<1>4. weight(rows, kept(rows)) <= StorageQuota
  BY <1>1, <1>3
<1> QED BY <1>2, <1>4 DEF Fits

\* An upload may take its repository, or the store, over its quota; it evicts until both fit.
LEMMA PutFits ==
  ASSUME SInv, Fits(row), NEW r \in Runs, built[r] \in Blobs
  PROVE  Fits(put_rows(r))
<1> DEFINE e == Key[r]
           first == expire(row, stamp[r])
           mine == [first EXCEPT ![e] = own_row(r)]
           second == expire(mine, stamp[r])
           own == {f \in Entries : Repository[f] = Repository[e]}
           third == evict_to_quota(second, own, RepositoryQuota)
           last == evict_to_quota(third, Entries, StorageQuota)
<1>1. e \in Entries /\ own_row(r) \in Row /\ row \in [Entries -> Row \cup {None}]
  BY PutRowsOf DEF SInv, CacheTypes
<1>2. Fewer(first, row)
  BY <1>1, ExpireIsFewer
<1>3. put_rows(r) = last
  BY DEF put_rows, enforce_quota
<1> HIDE DEF e, first
<1>4. /\ mine \in [Entries -> Row \cup {None}]
      /\ \A f \in Entries \ {e} : mine[f] \in {None, row[f]}
  BY <1>1, <1>2 DEF Fewer
<1> HIDE DEF mine
<1>5. Fewer(second, mine)
  BY <1>4, ExpireIsFewer
<1> HIDE DEF second
<1>6. \A old \in [Entries -> Row \cup {None}] : \A scope, quota :
        Fewer(evict_to_quota(old, scope, quota), old)
  <2> SUFFICES ASSUME NEW old \in [Entries -> Row \cup {None}], NEW scope, NEW quota
               PROVE  Fewer(evict_to_quota(old, scope, quota), old)
    OBVIOUS
  <2>1. \A gone : Fewer(without(old, gone), old)
    BY WithoutIsFewer
  <2> QED BY <2>1 DEF evict_to_quota
<1>7. Fewer(third, second)
  <2>1. second \in [Entries -> Row \cup {None}]
    BY <1>5 DEF Fewer
  <2> QED BY <1>6, <2>1
<1>8. weight(third, kept(third) \cap own) <= RepositoryQuota
  <2>1. second \in [Entries -> Row \cup {None}] /\ own \in SUBSET Entries /\ RepositoryQuota \in Nat
    BY <1>5 DEF Fewer
  <2> HIDE DEF own
  <2> QED BY <2>1, EvictionFits
<1> HIDE DEF third
<1>9. third \in [Entries -> Row \cup {None}]
  BY <1>7 DEF Fewer
<1>10. Fewer(last, third)
  BY <1>6, <1>9
<1>11. weight(last, kept(last) \cap Entries) <= StorageQuota
  <2>1. Entries \in SUBSET Entries /\ StorageQuota \in Nat
    OBVIOUS
  <2> QED BY <1>9, <2>1, EvictionFits
<1> HIDE DEF last
<1>12. last \in [Entries -> Row \cup {None}] /\ \A f \in Entries : last[f] \in {None, third[f]}
  BY <1>10 DEF Fewer
<1>13. \A f \in Entries \ {e} : last[f] \in {None, row[f]}
  <2>1. \A f \in Entries : third[f] \in {None, second[f]} /\ second[f] \in {None, mine[f]}
    BY <1>5, <1>7 DEF Fewer
  <2> QED BY <1>4, <1>12, <2>1
<1>14. weight(last, kept(last)) <= StorageQuota
  <2>1. kept(last) \cap Entries = kept(last)
    BY DEF kept
  <2> QED BY <1>11, <2>1
<1>15. ASSUME NEW d \in Entries
       PROVE  weight(last, {f \in kept(last) : Repository[f] = Repository[d]}) <= RepositoryQuota
  <2> DEFINE part == {f \in kept(last) : Repository[f] = Repository[d]}
  <2>1. part \in SUBSET kept(last)
    OBVIOUS
  <2>2. CASE Repository[d] = Repository[e]
    <3>1. /\ kept(third) \cap own \in SUBSET kept(third)
          /\ \A f \in part : f \in kept(third) \cap own /\ last[f].digest = third[f].digest
      BY <1>12, <2>2 DEF kept
    <3> HIDE DEF part, own
    <3>2. /\ weight(last, part) \in Nat /\ weight(third, kept(third) \cap own) \in Nat
          /\ weight(last, part) <= weight(third, kept(third) \cap own)
      BY <1>9, <1>12, <2>1, <3>1, WeightGrows
    <3>3. weight(last, part) <= RepositoryQuota
      BY <1>8, <3>2
    <3> QED BY <3>3 DEF part
  <2>3. CASE Repository[d] # Repository[e]
    <3> DEFINE was == {f \in kept(row) : Repository[f] = Repository[d]}
    <3>1. /\ was \in SUBSET kept(row)
          /\ \A f \in part : f \in was /\ last[f].digest = row[f].digest
      BY <1>13, <2>3 DEF kept
    <3>2. weight(row, was) <= RepositoryQuota
      BY DEF Fits
    <3> HIDE DEF part, was
    <3>3. /\ weight(last, part) \in Nat /\ weight(row, was) \in Nat
          /\ weight(last, part) <= weight(row, was)
      BY <1>1, <1>12, <2>1, <3>1, WeightGrows
    <3>4. weight(last, part) <= RepositoryQuota
      BY <3>2, <3>3
    <3> QED BY <3>4 DEF part
  <2> QED BY <2>2, <2>3
<1> QED BY <1>3, <1>14, <1>15 DEF Fits

LEMMA InitFits == Init => Fits(row)
<1> SUFFICES ASSUME Init PROVE Fits(row)
  OBVIOUS
<1>1. /\ \A e \in Entries : row[e] # None <=> e \in DOMAIN Stored
      /\ \A e \in DOMAIN Stored : row[e].digest = Stored[e]
  <2>1. \A e \in DOMAIN Stored : [digest |-> Stored[e], made |-> 0, used |-> 0] \in Row
    BY DEF Row
  <2> QED BY <2>1 DEF Init
<1>2. kept(row) = DOMAIN Stored
  BY <1>1 DEF kept
<1>3. {row[e].digest : e \in kept(row)} = {Stored[e] : e \in DOMAIN Stored}
  BY <1>1, <1>2
<1>4. ASSUME NEW e \in Entries
      PROVE  {row[f].digest : f \in {g \in kept(row) : Repository[g] = Repository[e]}}
               = {Stored[f] : f \in {g \in DOMAIN Stored : Repository[g] = Repository[e]}}
  BY <1>1, <1>2
<1>5. weight(row, kept(row)) <= StorageQuota
  BY <1>3 DEF weight
<1>6. ASSUME NEW e \in Entries
      PROVE  weight(row, {f \in kept(row) : Repository[f] = Repository[e]}) <= RepositoryQuota
  BY <1>4 DEF weight
<1> QED BY <1>5, <1>6 DEF Fits

\* Only an upload that commits adds a row; a lookup touches one and keeps its content.
LEMMA NextFits ==
  ASSUME SInv, SInv', Fits(row), [Next]_vars
  PROVE  Fits(row')
<1>1. row \in [Entries -> Row \cup {None}] /\ row' \in [Entries -> Row \cup {None}]
  BY DEF SInv, CacheTypes
<1>2. (\A e \in Entries : row'[e] # None => row[e] # None /\ row'[e].digest = row[e].digest) => Fits(row')
  BY <1>1, FewerFit
<1>3. ASSUME NEW r \in Runs, lookup(r) PROVE Fits(row')
  <2>1. PICK rows, e : /\ rows = expire(row, stamp[r]) /\ e = find(rows, r)
                       /\ row' = rows \/ (e # None /\ row' = [rows EXCEPT ![e].used = stamp[r]])
    BY <1>3 DEF lookup
  <2>2. rows \in [Entries -> Row \cup {None}] /\ \A f \in Entries : rows[f] \in {None, row[f]}
    BY <1>1, <2>1, ExpireIsFewer DEF Fewer
  <2>3. CASE row' = rows
    BY <1>2, <2>2, <2>3
  <2>4. CASE e # None /\ row' = [rows EXCEPT ![e].used = stamp[r]]
    <3>1. e \in Entries /\ rows[e] # None
      <4>1. now \in Nat /\ \A f \in Entries : rows[f] # None => rows[f].used <= now
        BY <2>2 DEF SInv, CacheTypes, NothingAhead
      <4> QED BY <2>1, <2>2, <2>4, <4>1, FindInScope
    <3>2. PICK was \in Row : was = rows[e]
      BY <2>2, <3>1
    <3>3. PICK touched : touched = [was EXCEPT !.used = stamp[r]]
      OBVIOUS
    <3>4. touched.digest = was.digest
      BY <3>2, <3>3 DEF Row
    <3>5. row' = [rows EXCEPT ![e] = touched]
      BY <2>4, <3>2, <3>3
    <3>6. row'[e] = touched /\ \A f \in Entries \ {e} : row'[f] = rows[f]
      BY <2>2, <3>1, <3>5
    <3> QED BY <1>2, <2>2, <3>1, <3>2, <3>4, <3>6
  <2> QED BY <2>1, <2>3, <2>4
<1>4. ASSUME NEW r \in Runs, drop_missing(r) PROVE Fits(row')
  BY <1>1, <1>2, <1>4, WithoutIsFewer DEF drop_missing, Fewer
<1>5. ASSUME NEW r \in Runs, put_exists(r) PROVE Fits(row')
  BY <1>1, <1>2, <1>5, ExpireIsFewer DEF put_exists, Fewer
<1>6. ASSUME NEW r \in Runs, put(r) PROVE Fits(row')
  BY <1>6, PutFits DEF put, SInv, SentIsBuilt
<1>7. CASE UNCHANGED row
  BY <1>7
<1> QED BY <1>3, <1>4, <1>5, <1>6, <1>7
        DEF Next, AskLookup, lookup_undone, FileThere, FileGone, open_blob, restore_archive,
            RestoreSkipped, NothingToStore, upload, UploadFails, put_exists_undone, put_undone, Restart, Tick,
            vars, store

-----------------------------------------------------------------------------
(* What an entry holds *)

\* A step leaves a row as it is, or takes it.
Wanes(e) == row'[e] \in {None, row[e]}

\* It touches a row, or stores one where none counts.
Fills(e) == \/ row[e] # None /\ row'[e] # None /\ row'[e].digest = row[e].digest
            \/ Entry(e) = None

LEMMA LookupServes ==
  ASSUME SInv, NEW r \in Runs, lookup(r)
  PROVE  \/ \A f \in Entries : Wanes(f)
         \/ \E e \in Entries : Fills(e) /\ \A f \in Entries \ {e} : Wanes(f)
<1>1. PICK rows, e : /\ rows = expire(row, stamp[r]) /\ e = find(rows, r)
                     /\ row' = rows \/ (e # None /\ row' = [rows EXCEPT ![e].used = stamp[r]])
  BY DEF lookup
<1>2. rows \in [Entries -> Row \cup {None}] /\ \A f \in Entries : rows[f] \in {None, row[f]}
  BY <1>1, ExpireIsFewer DEF Fewer, SInv, CacheTypes
<1>3. CASE row' = rows
  BY <1>2, <1>3 DEF Wanes
<1>4. CASE e # None /\ row' = [rows EXCEPT ![e].used = stamp[r]]
  <2>1. e \in Entries /\ rows[e] # None
    <3>1. now \in Nat /\ \A f \in Entries : rows[f] # None => rows[f].used <= now
      BY <1>2 DEF SInv, CacheTypes, NothingAhead
    <3> QED BY <1>1, <1>2, <1>4, <3>1, FindInScope
  <2>2. PICK was \in Row : was = rows[e]
    BY <1>2, <2>1
  <2>3. PICK touched : touched = [was EXCEPT !.used = stamp[r]]
    OBVIOUS
  <2>4. stamp[r] \in Nat
    BY DEF SInv, CacheTypes
  <2>5. touched \in Row /\ touched.digest = was.digest
    BY <2>2, <2>3, <2>4 DEF Row
  <2>6. row' = [rows EXCEPT ![e] = touched]
    BY <1>4, <2>2, <2>3
  <2>7. row'[e] = touched /\ \A f \in Entries \ {e} : row'[f] = rows[f]
    BY <1>2, <2>1, <2>6
  <2>8. Fills(e)
    BY <1>2, <2>1, <2>2, <2>5, <2>7 DEF Fills
  <2> QED BY <1>2, <2>1, <2>7, <2>8 DEF Wanes
<1> QED BY <1>1, <1>3, <1>4

\* An upload finds no row that counts: what was expired when it began is so by now.
LEMMA PutServes ==
  ASSUME SInv, NEW r \in Runs, put(r)
  PROVE  \E e \in Entries : Fills(e) /\ \A f \in Entries \ {e} : Wanes(f)
<1>1. Key[r] \in Entries /\ CacheTypes /\ built[r] \in Blobs
  BY DEF put, SInv, SentIsBuilt
<1>2. \A f \in Entries \ {Key[r]} : Wanes(f)
  BY <1>1, PutRowsOf DEF put, Wanes
<1>3. Entry(Key[r]) = None
  <2> SUFFICES ASSUME row[Key[r]] # None PROVE ~(row[Key[r]].used >= now - Ttl)
    BY DEF Entry
  <2>1. expire(row, stamp[r])[Key[r]] = None
    BY DEF put
  <2>2. row[Key[r]].used < stamp[r] - Ttl
    BY <1>1, <2>1 DEF expire, without, kept
  <2>3. /\ row[Key[r]].used \in Nat /\ stamp[r] \in Nat /\ now \in Nat /\ Ttl \in Nat
        /\ stamp[r] <= now
    BY <1>1 DEF CacheTypes, Row, SInv, NothingAhead
  <2> QED BY <2>2, <2>3
<1> QED BY <1>1, <1>2, <1>3 DEF Fills

LEMMA NextServes ==
  ASSUME SInv, [Next]_vars
  PROVE  /\ now' \in Nat /\ now <= now'
         /\ \/ \A f \in Entries : Wanes(f)
            \/ \E e \in Entries : Fills(e) /\ \A f \in Entries \ {e} : Wanes(f)
<1>1. row \in [Entries -> Row \cup {None}] /\ now \in Nat
  BY DEF SInv, CacheTypes
<1>2. ASSUME NEW r \in Runs, drop_missing(r) PROVE now' = now /\ \A f \in Entries : Wanes(f)
  BY <1>1, <1>2, WithoutIsFewer DEF drop_missing, Fewer, Wanes
<1>3. ASSUME NEW r \in Runs, put_exists(r) PROVE now' = now /\ \A f \in Entries : Wanes(f)
  BY <1>1, <1>3, ExpireIsFewer DEF put_exists, Fewer, Wanes
<1>4. ASSUME NEW r \in Runs, lookup(r) \/ put(r) PROVE now' = now
  BY <1>4 DEF lookup, put
<1>5. CASE UNCHANGED row /\ now' \in {now, now + 1}
  BY <1>1, <1>5 DEF Wanes
<1> QED BY <1>1, <1>2, <1>3, <1>4, <1>5, LookupServes, PutServes
        DEF Next, AskLookup, lookup_undone, FileThere, FileGone, open_blob, restore_archive,
            RestoreSkipped, NothingToStore, upload, UploadFails, put_exists_undone, put_undone, Restart, Tick,
            vars, store

-----------------------------------------------------------------------------
(* The theorems *)

\* cache.py, cache_api.py, cache_client.py: rows, files and what the runs hold keep to the
\* inductive invariant through every transaction, undone ones and restarts included.
THEOREM SInvHolds == Spec => []SInv
BY InitS, NextS, PTL DEF Spec

\* cache.py: for any number of runs, entries and faults, the file of a row is there unless
\* an undone transaction unlinked it, and a file without a row is one that an undone upload
\* or a late delete left.
THEOREM FilesMatchRowsHolds == Spec => []FilesMatchRows
<1>1. SInv => FilesMatchRows
  BY DEF SInv
<1> QED BY <1>1, SInvHolds, PTL

\* cache.py lookup and open_blob, cache_client.py restore_caches: a run restores from an
\* entry of its own repository, branch and architecture, and the content that entry held
\* when the download was admitted, however old the lookup's answer was by then.
THEOREM RestoredFromScopeHolds == Spec => []RestoredFromScope
<1>1. SInv => RestoredFromScope
  BY DEF SInv
<1> QED BY <1>1, SInvHolds, PTL

\* cache.py enforce_quota: for any contents, sizes and quotas, the rows of a repository and
\* of the store stay within their quotas, a shared content counted once, and so do the files
\* while none is stray, also when uploads that started earlier commit later.
THEOREM QuotasHoldHolds == Spec => []QuotasHold
<1>1. Spec => []Fits(row)
  <2>1. SInv /\ SInv' /\ Fits(row) /\ [Next]_vars => Fits(row)'
    BY NextFits
  <2> QED BY <2>1, InitFits, SInvHolds, PTL DEF Spec
<1>2. ASSUME SInv, Fits(row) PROVE QuotasHold
  <2>1. ASSUME loose = {} PROVE bytes(blobs) <= StorageQuota
    <3>1. blobs \in SUBSET referenced(row)
      BY <1>2, <2>1 DEF SInv, FilesMatchRows
    <3>2. referenced(row) \in SUBSET Blobs /\ IsFiniteSet(referenced(row))
      BY <1>2, DigestsOf DEF SInv, CacheTypes, referenced
    <3>3. bytes(blobs) \in Nat /\ bytes(referenced(row)) \in Nat /\ bytes(blobs) <= bytes(referenced(row))
      BY <3>1, <3>2, BytesGrow
    <3>4. bytes(referenced(row)) <= StorageQuota
      BY <1>2 DEF Fits, weight, referenced
    <3> QED BY <3>3, <3>4
  <2> QED BY <1>2, <2>1 DEF QuotasHold, Fits
<1> QED BY <1>1, <1>2, SInvHolds, PTL

\* cache.py CacheStore: the store, with the lookups, uploads, undone transactions and the
\* clock around it, implements WriteOnceStore: no entry's content is replaced by another.
THEOREM CacheImplementsStore == Spec => ImplementsStore
<1> DEFINE held == [e \in Entries |-> Entry(e)]
<1>1. SInv => held \in Contents!Contents
  BY DEF SInv, CacheTypes, Row, Entry, Contents!Contents
<1>2. Init => Contents!Init
  BY <1>1, InitS DEF Contents!Init
<1>3. SInv' => (held \in Contents!Contents)'
  BY <1>1, PTL
<1>4. ASSUME SInv, SInv', [Next]_vars PROVE [Contents!Next]_held
  <2>1. held' \in Contents!Contents
    BY <1>3, <1>4 DEF Contents!Contents
  <2>2. \A e \in Entries : held[e] = Entry(e) /\ held'[e] = Entry(e)'
    OBVIOUS
  <2>3. now \in Nat /\ now' \in Nat /\ now <= now' /\ Ttl \in Nat
    BY <1>4, NextServes DEF SInv, CacheTypes
  <2>4. ASSUME NEW e \in Entries, Wanes(e) PROVE Contents!Lose(e)
    <3>1. CASE row'[e] = None
      BY <2>2, <3>1 DEF Entry, Contents!Lose
    <3>2. CASE row'[e] = row[e] /\ row[e] # None
      <4>1. row[e].used \in Nat
        BY <1>4, <3>2 DEF SInv, CacheTypes, Row
      <4>2. row[e].used >= now' - Ttl => row[e].used >= now - Ttl
        BY <2>3, <4>1
      <4> QED BY <2>2, <3>2, <4>2 DEF Entry, Contents!Lose
    <3> QED BY <2>4, <3>1, <3>2 DEF Wanes
  <2>5. ASSUME NEW e \in Entries, Fills(e) PROVE Contents!Lose(e) \/ Contents!Write(e)
    BY <2>1, <2>2, <2>5 DEF Fills, Entry, Contents!Lose, Contents!Write, Contents!Contents
  <2>6. CASE \A e \in Entries : Wanes(e)
    BY <2>1, <2>4, <2>6 DEF Contents!Next
  <2>7. ASSUME NEW e \in Entries, Fills(e), \A f \in Entries \ {e} : Wanes(f) PROVE Contents!Next
    BY <2>1, <2>4, <2>5, <2>7 DEF Contents!Next
  <2> QED BY <1>4, <2>6, <2>7, NextServes
<1> QED BY <1>2, <1>4, SInvHolds, PTL DEF Spec, ImplementsStore, Contents!Spec
===============================================================================
