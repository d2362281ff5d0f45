-------------------------------- MODULE Cache -------------------------------
(***************************************************************************)
(* The dependency cache: the broker's store (cache.py, cache_api.py) and   *)
(* what a device does with it around a run (cache_client.py,               *)
(* cache_adapters.py).                                                     *)
(*                                                                         *)
(* A row names a digest and the file of that digest is shared by every row *)
(* that names it.  Rows change in transactions under the store's lock;     *)
(* files are renamed in and unlinked inside those transactions, before the *)
(* commit.  A lookup tests its file after it let go of the lock, and a     *)
(* download reads the row and opens the file with no lock at all.  The     *)
(* time a request works with is sampled before it waits for the lock and,  *)
(* for an upload, before its body is read.                                 *)
(*                                                                         *)
(* An entry is a number: it stands for repository, branch, architecture    *)
(* and key, and its order is the order of keys.                            *)
(***************************************************************************)
EXTENDS Integers, FiniteSets, FiniteSetsExt

CONSTANTS
  Runs, Entries,
  Key,                       \* [Runs -> Entries], the key a run's lockfiles give
  Scope, Repository,         \* of an entry; keys of one scope share their prefix
  Blobs, Size,               \* contents, told apart by digest, and their sizes
  Stored,                    \* contents of some entries before the model starts
  RepositoryQuota, StorageQuota, Ttl,
  MaxNow, MaxFaults,         \* bounds: the clock, and failed commits plus restarts
  None

\* A row: its content, when it was stored and when it was last used.
Row == [digest : Blobs, made : Nat, used : Nat]

\* The bytes of a set of contents, counted as pairs of content and position.
bytes(bs) == Cardinality(UNION {{b} \X (1..Size[b]) : b \in bs})

ASSUME CacheAssumption ==
  /\ Entries \subseteq Nat /\ IsFiniteSet(Entries) /\ Key \in [Runs -> Entries]
  /\ Size \in [Blobs -> Nat \ {0}]
  /\ DOMAIN Stored \subseteq Entries /\ \A e \in DOMAIN Stored : Stored[e] \in Blobs
  /\ bytes({Stored[e] : e \in DOMAIN Stored}) <= StorageQuota
  /\ \A e \in Entries : bytes({Stored[f] : f \in {g \in DOMAIN Stored :
                                 Repository[g] = Repository[e]}}) <= RepositoryQuota
  /\ {RepositoryQuota, StorageQuota, Ttl} \subseteq Nat \ {0}
  /\ {MaxNow, MaxFaults} \subseteq Nat /\ None \notin Blobs /\ None \notin Row

VARIABLES
  now,
  row, blobs,                   \* the store: rows and files
  pc, stamp, took, built,       \* a run: step, its request's time, what its lookup found,
                                \* what it built
  \* observation only: what a run restored, and what its entry held when the download was
  \* admitted; files unlinked by an undone transaction, files no row was left for
  restored, admitted, burnt, loose, faults

store == <<row, blobs>>
run   == <<pc, stamp, took, built>>
disk  == <<burnt, loose>>
got   == <<restored, admitted>>
vars  == <<now, store, run, got, disk, faults>>

Init ==
  /\ now = 0 /\ faults = 0
  /\ row = [e \in Entries |->
       IF e \in DOMAIN Stored THEN [digest |-> Stored[e], made |-> 0, used |-> 0] ELSE None]
  /\ blobs = {Stored[e] : e \in DOMAIN Stored}
  /\ pc = [r \in Runs |-> "start"] /\ stamp = [r \in Runs |-> 0]
  /\ took = [r \in Runs |-> None] /\ built = [r \in Runs |-> None]
  /\ restored = [r \in Runs |-> None] /\ admitted = [r \in Runs |-> None]
  /\ burnt = {} /\ loose = {}

-----------------------------------------------------------------------------
(* What the store computes inside a transaction *)

kept(rows) == {e \in Entries : rows[e] # None}
without(rows, gone) == [e \in Entries |-> IF e \in gone THEN None ELSE rows[e]]

\* Rows not used for the retention time go.
expire(rows, at) == without(rows, {e \in kept(rows) : rows[e].used < at - Ttl})

referenced(rows) == {rows[e].digest : e \in kept(rows)}

\* Mutant: the file of every row that went, named by another row or not.
collect_blobs_gone(rows, files) == files \ {row[e].digest : e \in kept(row) \ kept(rows)}

\* Files no row names are unlinked.
collect_blobs(rows, files) == files \cap referenced(rows)

\* The bytes of a set of rows; a content two rows share counts once.
weight(rows, es) == bytes({rows[e].digest : e \in es})

\* Least recently used first, then first made, then by key.
older(rows, e, f) ==
  \/ rows[e].used < rows[f].used
  \/ rows[e].used = rows[f].used /\ rows[e].made < rows[f].made
  \/ rows[e].used = rows[f].used /\ rows[e].made = rows[f].made /\ e < f

\* Drops the oldest rows of a scope, one after another, until the rest fit.
evict_to_quota(rows, scope, quota) ==
  LET there == kept(rows) \cap scope
      rest(k) == {e \in there : Cardinality({f \in there : older(rows, f, e)}) >= k}
      k == Min({i \in 0..Cardinality(there) : weight(rows, rest(i)) <= quota})
  IN without(rows, there \ rest(k))

\* Mutant: the store's quota is left to the next upload of the other repository.
enforce_quota_own(rows, repository) ==
  evict_to_quota(rows, {e \in Entries : Repository[e] = repository}, RepositoryQuota)

enforce_quota(rows, repository) ==
  LET mine == {e \in Entries : Repository[e] = repository} IN
  evict_to_quota(evict_to_quota(rows, mine, RepositoryQuota), Entries, StorageQuota)

\* A plan has the key of the lockfiles' contents, and the prefix that every key of the
\* same tool and architecture has.
has_prefix(e, r) == Scope[e] = Scope[Key[r]]

\* Rows of the same repository, branch and architecture whose key has the prefix.
candidates(rows, r) == {e \in kept(rows) : has_prefix(e, r)}

\* The exact key, else the most recently used row with the restore prefix.
find(rows, r) ==
  IF rows[Key[r]] # None THEN Key[r]
  ELSE IF candidates(rows, r) = {} THEN None
  ELSE CHOOSE e \in candidates(rows, r) :
         \A f \in candidates(rows, r) :
           rows[f].used < rows[e].used \/ (rows[f].used = rows[e].used /\ e <= f)

-----------------------------------------------------------------------------
(* Before the run: restore_caches *)

\* What a run was asking for is forgotten once it goes on without it.
Go(r, step) == pc' = [pc EXCEPT ![r] = step]
Forget(r, step) ==
  /\ Go(r, step)
  /\ stamp' = [stamp EXCEPT ![r] = 0]
  /\ took' = [took EXCEPT ![r] = None] /\ built' = [built EXCEPT ![r] = None]

\* The lookup reaches the broker and takes its time; the lock comes later.
AskLookup(r) ==
  /\ pc[r] = "start" /\ Go(r, "asking")
  /\ stamp' = [stamp EXCEPT ![r] = now]
  /\ UNCHANGED <<now, store, took, built, got, disk, faults>>

\* Expired rows and unreferenced files go, then a row is looked for and touched.
lookup(r) ==
  LET rows == expire(row, stamp[r])
      e == find(rows, r)
  IN
  /\ pc[r] = "asking"
  /\ blobs' = collect_blobs(rows, blobs) /\ loose' = {}
  /\ IF e = None
     THEN row' = rows /\ Forget(r, "running")
     ELSE /\ row' = [rows EXCEPT ![e].used = stamp[r]]
          /\ took' = [took EXCEPT ![r] = [entry |-> e, digest |-> rows[e].digest]]
          /\ Go(r, "found")
          /\ stamp' = [stamp EXCEPT ![r] = 0] /\ built' = built
  /\ UNCHANGED <<now, got, burnt, faults>>

\* The lookup's transaction is undone after it unlinked files: the rows are back.
lookup_undone(r) ==
  LET gone == blobs \ collect_blobs(expire(row, stamp[r]), blobs) IN
  /\ pc[r] = "asking" /\ faults < MaxFaults /\ faults' = faults + 1
  /\ blobs' = blobs \ gone /\ burnt' = burnt \cup gone /\ loose' = {}
  /\ Forget(r, "running")
  /\ UNCHANGED <<now, row, got>>

\* The file is looked for with the lock let go.
FileThere(r) ==
  /\ pc[r] = "found" /\ took[r].digest \in blobs /\ Go(r, "hit")
  /\ UNCHANGED <<now, store, stamp, took, built, got, disk, faults>>

FileGone(r) ==
  /\ pc[r] = "found" /\ took[r].digest \notin blobs /\ Go(r, "missing")
  /\ UNCHANGED <<now, store, stamp, took, built, got, disk, faults>>

\* The files of the row that an entry has now, should the row be deleted unseen.
Orphans(rows, e) ==
  IF rows[e] = None THEN {}
  ELSE {rows[e].digest} \ referenced(without(rows, {e}))

\* The row of that entry is deleted, whatever it names by now.
drop_missing(r) ==
  /\ pc[r] = "missing" /\ Forget(r, "running")
  /\ row' = without(row, {took[r].entry})
  /\ loose' = loose \cup (Orphans(row, took[r].entry) \cap blobs)
  /\ UNCHANGED <<now, blobs, got, burnt, faults>>

\* Mutant: the row of that key, whatever it names by now.
servable_key(r) ==
  row[took[r].entry] # None /\ row[took[r].entry].used >= now - Ttl

\* The row of that key, with that digest, not expired by the clock of now.
servable(r) ==
  LET x == row[took[r].entry] IN
  x # None /\ x.digest = took[r].digest /\ x.used >= now - Ttl

\* The download reads the row without the lock ...
open_blob(r) ==
  /\ pc[r] = "hit"
  /\ IF servable(r)
     THEN /\ Go(r, "opening") /\ UNCHANGED <<stamp, took, built>>
          /\ admitted' = [admitted EXCEPT ![r] = row[took[r].entry].digest]
     ELSE Forget(r, "running") /\ UNCHANGED admitted
  /\ UNCHANGED <<now, store, restored, disk, faults>>

\* ... and opens the file, which stays readable once it is open; the device checks that
\* the bytes are those of the digest it asked for.
download(r) == IF took[r].digest \in blobs THEN took[r] ELSE None

\* The cache directory is replaced whole.
restore_archive(r) ==
  /\ pc[r] = "opening" /\ Forget(r, "running")
  /\ restored' = [restored EXCEPT ![r] = download(r)]
  /\ admitted' = IF download(r) = None THEN [admitted EXCEPT ![r] = None] ELSE admitted
  /\ UNCHANGED <<now, store, disk, faults>>

\* Any step of the download may fail, or its body not match: the restore is skipped.
RestoreSkipped(r) ==
  /\ pc[r] \in {"hit", "opening"} /\ Forget(r, "running")
  /\ admitted' = [admitted EXCEPT ![r] = None]
  /\ UNCHANGED <<now, store, restored, disk, faults>>

-----------------------------------------------------------------------------
(* After the run: store_caches *)

\* What a run can have built that the broker would read: at most a repository's quota.
create_archive == {b \in Blobs : Size[b] <= RepositoryQuota}

\* The run failed or was cancelled, built nothing to keep, or more than the
\* repository's quota, which is refused before its body is read.
NothingToStore(r) ==
  /\ pc[r] = "running" /\ Forget(r, "over")
  /\ UNCHANGED <<now, store, got, disk, faults>>

\* A run that passed sends what it built; the broker takes the time before the body.
upload(r) ==
  /\ pc[r] = "running"
  /\ \E b \in create_archive : built' = [built EXCEPT ![r] = b]
  /\ Go(r, "sending") /\ stamp' = [stamp EXCEPT ![r] = now]
  /\ UNCHANGED <<now, store, took, got, disk, faults>>

\* The body ended early: the staged file goes, nothing else.
UploadFails(r) ==
  /\ pc[r] = "sending" /\ Forget(r, "over")
  /\ UNCHANGED <<now, store, got, disk, faults>>

own_row(r) == [digest |-> built[r], made |-> stamp[r], used |-> stamp[r]]

\* The rows an upload leaves: its own is inserted, then age and quotas are applied.
put_rows(r) ==
  LET rows == [expire(row, stamp[r]) EXCEPT ![Key[r]] = own_row(r)]
  IN enforce_quota(expire(rows, stamp[r]), Repository[Key[r]])

\* The entry is there: it stays, and the upload is not stored.
put_exists(r) ==
  LET rows == expire(row, stamp[r]) IN
  /\ pc[r] = "sending" /\ Forget(r, "over")
  /\ rows[Key[r]] # None
  /\ row' = rows
  /\ IF rows # row
     THEN blobs' = collect_blobs(rows, blobs) /\ loose' = {}
     ELSE UNCHANGED <<blobs, loose>>
  /\ UNCHANGED <<now, got, burnt, faults>>

\* The same, undone after the files of expired rows were unlinked: the rows are back.
put_exists_undone(r) ==
  LET rows == expire(row, stamp[r])
      gone == IF rows # row THEN blobs \ collect_blobs(rows, blobs) ELSE {}
  IN
  /\ pc[r] = "sending" /\ Forget(r, "over")
  /\ faults < MaxFaults /\ faults' = faults + 1
  /\ rows[Key[r]] # None
  /\ blobs' = blobs \ gone /\ burnt' = burnt \cup gone
  /\ loose' = IF rows # row THEN {} ELSE loose
  /\ UNCHANGED <<now, row, got>>

\* Mutant: the upload is stored whether or not the entry is there.
put_over(r) ==
  /\ pc[r] = "sending" /\ Forget(r, "over")
  /\ LET rows == put_rows(r) IN
     row' = rows /\ blobs' = collect_blobs(rows, blobs \cup {built[r]}) /\ loose' = {}
  /\ burnt' = burnt \ {built[r]}
  /\ UNCHANGED <<now, got, faults>>

\* The entry is not there, or its time was up when the upload began.
put(r) ==
  /\ pc[r] = "sending" /\ Forget(r, "over")
  /\ expire(row, stamp[r])[Key[r]] = None
  /\ LET rows == put_rows(r) IN
     row' = rows /\ blobs' = collect_blobs(rows, blobs \cup {built[r]}) /\ loose' = {}
  /\ burnt' = burnt \ {built[r]}
  /\ UNCHANGED <<now, got, faults>>

\* The transaction is undone after the rename, or after some of the unlinking too.
put_undone(r) ==
  /\ pc[r] = "sending" /\ Forget(r, "over")
  /\ faults < MaxFaults /\ faults' = faults + 1
  /\ expire(row, stamp[r])[Key[r]] = None
  /\ \E gone \in SUBSET ((blobs \cup {built[r]}) \ referenced(put_rows(r))) :
       /\ blobs' = (blobs \cup {built[r]}) \ gone
       /\ burnt' = (burnt \ {built[r]}) \cup gone
       /\ loose' = loose \cup {built[r]}
  /\ UNCHANGED <<now, row, got>>

-----------------------------------------------------------------------------
\* The broker stops and starts: rows and files stay, requests under way are lost.
Restart ==
  /\ faults < MaxFaults /\ faults' = faults + 1
  /\ LET cut == {r \in Runs : pc[r] \in {"asking", "found", "missing", "opening", "sending"}} IN
     /\ pc' = [r \in Runs |-> IF r \notin cut THEN pc[r]
                              ELSE IF pc[r] = "sending" THEN "over" ELSE "running"]
     /\ stamp' = [r \in Runs |-> IF r \in cut THEN 0 ELSE stamp[r]]
     /\ took' = [r \in Runs |-> IF r \in cut THEN None ELSE took[r]]
     /\ built' = [r \in Runs |-> IF r \in cut THEN None ELSE built[r]]
  /\ UNCHANGED <<now, store, got, disk>>

Tick ==
  /\ now < MaxNow /\ now' = now + 1
  /\ UNCHANGED <<store, run, got, disk, faults>>

Next ==
  \/ \E r \in Runs :
       \/ AskLookup(r) \/ lookup(r) \/ lookup_undone(r)
       \/ FileThere(r) \/ FileGone(r) \/ drop_missing(r)
       \/ open_blob(r) \/ restore_archive(r) \/ RestoreSkipped(r)
       \/ NothingToStore(r) \/ upload(r) \/ UploadFails(r)
       \/ put_exists(r) \/ put_exists_undone(r) \/ put(r) \/ put_undone(r)
  \/ Restart
  \/ Tick

Spec == Init /\ [][Next]_vars

-----------------------------------------------------------------------------
(* Properties *)

\* Rows and files agree: a row's file is there unless a transaction that unlinked it was
\* undone, and a file without a row is one that an undone upload or a late delete left.
\* Contents are shared, so what eviction of one row may unlink depends on every other.
FilesMatchRows ==
  /\ referenced(row) \ blobs \subseteq burnt
  /\ blobs \ referenced(row) \subseteq loose

\* No repository and not the store as a whole holds more than its quota, also when an
\* upload that started earlier commits later; nor do the files, while none is stray.
QuotasHold ==
  /\ weight(row, kept(row)) <= StorageQuota
  /\ \A e \in Entries :
       weight(row, {f \in kept(row) : Repository[f] = Repository[e]}) <= RepositoryQuota
  /\ loose = {} => bytes(blobs) <= StorageQuota

\* A run restores from an entry of its own scope, and the content that entry held when the
\* download was admitted: the lookup's answer is older, and if the entry was dropped and
\* stored again with another content since, the older content is not restored, although
\* another entry may have kept its file (cache.py, open_blob).
RestoredFromScope ==
  \A r \in Runs : restored[r] # None =>
    /\ Scope[restored[r].entry] = Scope[Key[r]]
    /\ restored[r].digest = admitted[r]

\* The content of an entry whose time is not up.
Entry(e) == IF row[e] # None /\ row[e].used >= now - Ttl THEN row[e].digest ELSE None

\* cache.py put: an entry is immutable.  Until it is dropped, an entry keeps the content
\* that was stored first: an upload that began before another one, a lookup whose time is
\* older than the clock's, an undone transaction and the deletion of a row whose file was
\* missing replace no content by another.
Contents == INSTANCE WriteOnceStore
  WITH Keys <- Entries, Values <- Blobs, held <- [e \in Entries |-> Entry(e)]
ImplementsStore == Contents!Spec
=============================================================================
