------------------------------ MODULE Artifacts -----------------------------
(***************************************************************************)
(* One archive per run, kept by the broker (artifact.py, artifactapi.py,   *)
(* artifact_staging.py) and sent by the device before its report           *)
(* (artifact_upload.py, artifact_client.py).                               *)
(*                                                                         *)
(* An upload checks the lease, reads its body with no lock held, publishes *)
(* under the store's lock and checks the lease again.  A reclaim releases  *)
(* a lease in one transaction and drops the run's archive in another.      *)
(* Readers take a row under the lock and open the file without it.         *)
(*                                                                         *)
(* Everything the store does under its lock is one step: a reader without  *)
(* the lock sees of it only the file, which a commit leaves in place.  Two *)
(* attempts of a commit produce the same bytes, so a row is told apart by  *)
(* its publication time only, and that is the attempt that published it.   *)
(***************************************************************************)
EXTENDS Integers, FiniteSets, FiniteSetsExt

CONSTANTS
  Jobs, Devices, Readers,
  Tries,                     \* [Jobs -> Nat], attempts of a run
  Repository, Size,          \* of a run and of its archive
  RepositoryQuota, StorageQuota,
  Stored,                    \* runs that settled with an archive before the model starts
  MaxFaults,                 \* bound: commits that fail, discards that are lost, restarts
  None

Uploads == UNION {{<<j, n>> : n \in 1..Tries[j]} : j \in Jobs}

\* An archive's row: the attempt that published it, when, and whether its time is up.
Row == [n : Nat \ {0}, at : Nat, old : BOOLEAN]

\* The bytes of a set of archives, counted as pairs of run and position.
total(scope) == Cardinality(UNION {{j} \X (1..Size[j]) : j \in scope})

\* A repository's part of a set of runs.
Part(scope, j) == {k \in scope : Repository[k] = Repository[j]}

\* Archives that both quotas have room for.
Fits(scope) == /\ total(scope) <= StorageQuota
               /\ \A j \in Jobs : total(Part(scope, j)) <= RepositoryQuota

ASSUME ArtifactAssumption ==
  /\ IsFiniteSet(Jobs) /\ Tries \in [Jobs -> Nat] /\ Size \in [Jobs -> Nat \ {0}]
  /\ RepositoryQuota \in Nat \ {0} /\ StorageQuota \in Nat \ {0} /\ MaxFaults \in Nat
  /\ None \notin Devices /\ None \notin Row
  /\ Stored \subseteq {j \in Jobs : Tries[j] = 1} /\ Fits(Stored)

VARIABLES
  \* the queue, as far as an upload reads it
  holder, attempts, settled,    \* device with the lease, attempts begun, attempt that reported
  drops,                        \* attempts released whose archive is still to be dropped
  \* the attempts: device, what the agent is doing, where its request is
  dev, work, req,
  \* the store: the row of a run and the attempt whose bytes are its file
  row, file,
  \* the readers: the run and the row each one took
  rpc, rjob, rrow,
  \* observation only: uploads answered 201, runs whose archive was rightly taken
  \* away (quota, age, or a reclaim's discard that ran late), runs one of whose discards
  \* was lost or never reached, files nothing accounts for, faults so far
  acked, taken, undropped, leaked, faults

queue   == <<holder, attempts, settled, drops>>
agents  == <<dev, work>>
store   == <<row, file>>
readers == <<rpc, rjob, rrow>>
seen    == <<acked, taken, undropped, leaked, faults>>
vars    == <<queue, agents, req, store, readers, seen>>

Init ==
  LET kept(j, there, not) == IF j \in Stored THEN there ELSE not IN
  /\ holder = [j \in Jobs |-> None] /\ drops = [j \in Jobs |-> {}]
  /\ attempts = [j \in Jobs |-> kept(j, 1, 0)] /\ settled = attempts
  /\ dev = [u \in Uploads |-> None]
  /\ work = [u \in Uploads |-> kept(u[1], "over", "none")] /\ req = work
  /\ row = [j \in Jobs |-> kept(j, [n |-> 1, at |-> 1, old |-> FALSE], None)]
  /\ file = attempts
  /\ rpc = [r \in Readers |-> "idle"]
  /\ rjob = [r \in Readers |-> None] /\ rrow = [r \in Readers |-> None]
  /\ acked = {u \in Uploads : u[1] \in Stored}
  /\ taken = {} /\ undropped = {} /\ leaked = FALSE /\ faults = 0

-----------------------------------------------------------------------------
(* The queue and the agent, as far as they touch an archive *)

\* jobs.py: the lease is the device's, whichever of its attempts asks.
holds_lease(u) == holder[u[1]] = dev[u]

may_claim(j) == holder[j] = None /\ settled[j] = 0 /\ attempts[j] < Tries[j]

Claim(j, d) ==
  /\ may_claim(j)
  /\ holder' = [holder EXCEPT ![j] = d]
  /\ attempts' = [attempts EXCEPT ![j] = @ + 1]
  /\ dev' = [dev EXCEPT ![<<j, attempts[j] + 1>>] = d]
  /\ work' = [work EXCEPT ![<<j, attempts[j] + 1>>] = "running"]
  /\ UNCHANGED <<settled, drops, req, store, readers, seen>>

\* A lease that is spent is released; its archive is dropped by a later transaction.
release_expired(j) ==
  /\ holder[j] # None
  /\ holder' = [holder EXCEPT ![j] = None]
  /\ drops' = [drops EXCEPT ![j] = @ \cup {attempts[j]}]
  /\ UNCHANGED <<attempts, settled, agents, req, store, readers, seen>>

\* The report follows the upload's answer, or the client's timeout, or a run that
\* left no archive.  A report from a device without the lease changes nothing.
Report(u) ==
  /\ work[u] \in {"running", "sent"} /\ holds_lease(u)
  /\ work' = [work EXCEPT ![u] = "over"]
  /\ settled' = [settled EXCEPT ![u[1]] = u[2]]
  /\ holder' = [holder EXCEPT ![u[1]] = None]
  /\ UNCHANGED <<attempts, drops, dev, req, store, readers, seen>>

\* The device sends its archive; the broker checks the lease before it reads the body.
upload_archive(u) ==
  /\ work[u] = "running"
  /\ work' = [work EXCEPT ![u] = "sent"]
  /\ req' = [req EXCEPT ![u] = IF holds_lease(u) THEN "reading" ELSE "over"]
  /\ UNCHANGED <<queue, dev, store, readers, seen>>

\* The body ends early or is longer than it said: the staged file goes, nothing else.
StageFails(u) ==
  /\ req[u] = "reading"
  /\ req' = [req EXCEPT ![u] = "over"]
  /\ UNCHANGED <<queue, agents, store, readers, seen>>

-----------------------------------------------------------------------------
(* The store, under its lock *)

Kept(rows, j) == rows[j] # None
Live(j) == row[j] # None /\ ~row[j].old

\* The rows whose time is up.
expired_rows(rows) == {j \in Jobs : Kept(rows, j) /\ rows[j].old}

\* Removes a set of rows, or of the files behind them.
drop_rows(rows, gone) == [j \in Jobs |-> IF j \in gone THEN None ELSE rows[j]]
unlink_all(files, gone) == [j \in Jobs |-> IF j \in gone THEN 0 ELSE files[j]]

\* Publication times order the rows; a new one is later than all that stand.
now_at(rows) == 1 + Max({0} \cup {rows[j].at : j \in {k \in Jobs : Kept(rows, k)}})

\* The oldest rows of a scope, as many as have to go for the rest to fit.
evict_to_quota(rows, scope, quota) ==
  LET there == {j \in scope : Kept(rows, j)}
      from(a) == {j \in there : rows[j].at > a}
      cut == CHOOSE a \in {0} \cup {rows[j].at : j \in there} :
               /\ total(from(a)) <= quota
               /\ \A b \in {0} \cup {rows[j].at : j \in there} :
                    total(from(b)) <= quota => a <= b
  IN there \ from(cut)

\* First the repository's quota, then the whole store's.
enforce_quota(rows, repository) ==
  LET mine == {j \in Jobs : Repository[j] = repository}
      first == evict_to_quota(rows, mine, RepositoryQuota)
  IN first \cup evict_to_quota(drop_rows(rows, first), Jobs, StorageQuota)

\* What a put finds: expired rows are gone from the table, their files not yet.
put_finds == drop_rows(row, expired_rows(row))
put_inserts(u) ==
  [put_finds EXCEPT ![u[1]] = [n |-> u[2], at |-> now_at(put_finds), old |-> FALSE]]
put_evicts(u) == enforce_quota(put_inserts(u), Repository[u[1]])

\* Mutant: the staged file takes the run's path whether or not the run has an archive.
rename_always(u) == [file EXCEPT ![u[1]] = u[2]]

\* The files once the staged one took the run's path.
rename(u) == IF put_finds[u[1]] = None THEN [file EXCEPT ![u[1]] = u[2]] ELSE file

\* A put that commits.  A run that has an archive keeps it; otherwise the staged file
\* takes the run's path before the commit, and the files of the rows that went are
\* unlinked after it.  unlinked is FALSE when the commit landed and raised.
Publish(u, unlinked) ==
  LET j == u[1]
      fresh == put_finds[j] = None
      evicted == IF fresh THEN put_evicts(u) ELSE {}
      gone == expired_rows(row) \cup evicted
  IN /\ row' = IF fresh THEN drop_rows(put_inserts(u), evicted) ELSE put_finds
     /\ file' = IF unlinked THEN unlink_all(rename(u), gone) ELSE rename(u)
     /\ taken' = taken \cup evicted
     /\ leaked' = (leaked \/ (~unlinked /\ gone # {}))
     /\ req' = [req EXCEPT ![u] = IF ~unlinked THEN "over"
                                  ELSE IF fresh THEN "created" ELSE "existing"]

put(u) ==
  /\ req[u] = "reading" /\ Publish(u, TRUE)
  /\ UNCHANGED <<queue, agents, readers, acked, undropped, faults>>

\* Mutant: what this call moved into place is left there.
put_undo_nothing(u, files) == files

\* A commit that failed: the moved file goes, unless a row names the run.
put_undo(u, files) == IF row[u[1]] = None THEN [files EXCEPT ![u[1]] = 0] ELSE files

\* The commit raises: it was rolled back, or it landed after all.
put_raises(u) ==
  /\ req[u] = "reading" /\ faults < MaxFaults
  /\ faults' = faults + 1
  /\ \/ /\ req' = [req EXCEPT ![u] = "over"]
        /\ file' = put_undo(u, rename(u))
        /\ UNCHANGED <<row, taken, leaked, undropped>>
     \/ Publish(u, FALSE) /\ undropped' = undropped \cup {u[1]}
  /\ UNCHANGED <<queue, agents, readers, acked>>

\* Mutant: the row's digest is compared and its time is not; two attempts of one
\* commit have the same digest.
compare_digest(j, n) == row[j] # None

compare(j, n) == row[j] # None /\ row[j].n = n

\* Compare-and-delete: the row of publication n and its file, or nothing.
discard_own(j, n) ==
  /\ row' = IF compare(j, n) THEN [row EXCEPT ![j] = None] ELSE row
  /\ file' = IF compare(j, n) THEN [file EXCEPT ![j] = 0] ELSE file

-----------------------------------------------------------------------------
(* The rest of the upload's handler *)

\* Mutant: the archive of an upload whose lease went stays.
refused_upload_keeps(u) == "over"

\* An upload whose lease went drops what it published itself, and only that.
refused_upload(u) == IF req[u] = "created" THEN "dropping" ELSE "over"

Recheck(u) ==
  /\ req[u] \in {"created", "existing"}
  /\ req' = [req EXCEPT ![u] = IF holds_lease(u)
                               THEN IF req[u] = "created" THEN "confirming" ELSE "over"
                               ELSE refused_upload(u)]
  /\ UNCHANGED <<queue, agents, store, readers, seen>>

\* 409; discard_artifact swallows a failure, which leaves the archive standing.
DropOwn(u) ==
  /\ req[u] = "dropping"
  /\ req' = [req EXCEPT ![u] = "over"]
  /\ \/ discard_own(u[1], u[2]) /\ UNCHANGED <<undropped, faults>>
     \/ /\ faults < MaxFaults /\ faults' = faults + 1
        /\ undropped' = undropped \cup {u[1]} /\ UNCHANGED store
  /\ UNCHANGED <<queue, agents, readers, acked, taken, leaked>>

\* 201, or 507 when the archive it published is not there: get expires rows, and
\* drops a row whose file is missing.
Confirm(u) ==
  LET j == u[1]
      rows == drop_rows(row, expired_rows(row))
      files == unlink_all(file, expired_rows(row))
      stored == rows[j] # None /\ files[j] # 0
  IN /\ req[u] = "confirming"
     /\ req' = [req EXCEPT ![u] = "over"]
     /\ row' = IF stored THEN rows ELSE [rows EXCEPT ![j] = None]
     /\ file' = files
     /\ acked' = IF stored THEN acked \cup {u} ELSE acked
     /\ UNCHANGED <<queue, agents, readers, taken, undropped, leaked, faults>>

\* The reclaim's discard: whatever is stored, as the run is about to rerun.
discard_artifact(j) ==
  /\ \E n \in drops[j] :
       /\ drops' = [drops EXCEPT ![j] = @ \ {n}]
       /\ \/ /\ row' = [row EXCEPT ![j] = None]
             /\ file' = IF row[j] # None THEN [file EXCEPT ![j] = 0] ELSE file
             /\ taken' = IF attempts[j] > n THEN taken \cup {j} ELSE taken
             /\ UNCHANGED <<undropped, faults>>
          \/ /\ faults < MaxFaults /\ faults' = faults + 1
             /\ undropped' = undropped \cup {j} /\ UNCHANGED <<store, taken>>
  /\ UNCHANGED <<holder, attempts, settled, agents, req, readers, acked, leaked>>

-----------------------------------------------------------------------------
(* Readers, time, restarts *)

\* get: the row under the lock, expired ones dropped on the way.
ReaderGets(r, j) ==
  /\ rpc[r] = "idle" /\ row[j] # None
  /\ row' = drop_rows(row, expired_rows(row))
  /\ file' = unlink_all(file, expired_rows(row))
  /\ rpc' = IF Live(j) THEN [rpc EXCEPT ![r] = "holding"] ELSE rpc
  /\ rjob' = IF Live(j) THEN [rjob EXCEPT ![r] = j] ELSE rjob
  /\ rrow' = IF Live(j) THEN [rrow EXCEPT ![r] = row[j].n] ELSE rrow
  /\ UNCHANGED <<queue, agents, req, seen>>

\* The file is looked for without the lock: it is served, or its row is dropped.
ReaderLooks(r) ==
  /\ rpc[r] = "holding"
  /\ rpc' = [rpc EXCEPT ![r] = IF file[rjob[r]] # 0 THEN "idle" ELSE "dropping"]
  /\ IF file[rjob[r]] # 0
     THEN rjob' = [rjob EXCEPT ![r] = None] /\ rrow' = [rrow EXCEPT ![r] = None]
     ELSE UNCHANGED <<rjob, rrow>>
  /\ UNCHANGED <<queue, agents, req, store, seen>>

ReaderDrops(r) ==
  /\ rpc[r] = "dropping"
  /\ discard_own(rjob[r], rrow[r])
  /\ rpc' = [rpc EXCEPT ![r] = "idle"]
  /\ rjob' = [rjob EXCEPT ![r] = None] /\ rrow' = [rrow EXCEPT ![r] = None]
  /\ UNCHANGED <<queue, agents, req, seen>>

\* A row reaches the end of its time to live.
Expires(j) ==
  /\ row[j] # None /\ ~row[j].old
  /\ row' = [row EXCEPT ![j].old = TRUE]
  /\ taken' = taken \cup {j}
  /\ UNCHANGED <<queue, agents, req, file, readers, acked, undropped, leaked, faults>>

\* The broker dies, possibly between a put's rename and its commit.  Requests and
\* discards in hand are gone; a staged file is swept later.
Crash ==
  /\ faults < MaxFaults /\ faults' = faults + 1
  /\ \/ UNCHANGED <<file, leaked>>
     \/ \E u \in Uploads :
          req[u] = "reading" /\ file' = rename(u) /\ leaked' = TRUE
  /\ req' = [u \in Uploads |-> IF req[u] = "none" THEN "none" ELSE "over"]
  /\ drops' = [j \in Jobs |-> {}]
  /\ undropped' = undropped \cup {j \in Jobs : drops[j] # {} \/ \E n \in 1..Tries[j] :
                                     req[<<j, n>>] \in {"created", "dropping", "confirming"}}
  /\ rpc' = [r \in Readers |-> "idle"]
  /\ rjob' = [r \in Readers |-> None] /\ rrow' = [r \in Readers |-> None]
  /\ UNCHANGED <<holder, attempts, settled, agents, row, acked, taken>>

-----------------------------------------------------------------------------
UploadStep(u) ==
  \/ upload_archive(u) \/ StageFails(u) \/ put(u) \/ put_raises(u)
  \/ Recheck(u) \/ DropOwn(u) \/ Confirm(u) \/ Report(u)

ReaderStep(r) ==
  \/ \E j \in Jobs : ReaderGets(r, j)
  \/ ReaderLooks(r) \/ ReaderDrops(r)

Next ==
  \/ \E j \in Jobs, d \in Devices : Claim(j, d)
  \/ \E j \in Jobs : release_expired(j) \/ discard_artifact(j) \/ Expires(j)
  \/ \E u \in Uploads : UploadStep(u)
  \/ \E r \in Readers : ReaderStep(r)
  \/ Crash

Spec == Init /\ [][Next]_vars

-----------------------------------------------------------------------------
(* Properties *)

\* The attempt that has the run, or whose verdict stands.
Current(u) ==
  /\ u[2] = attempts[u[1]]
  /\ settled[u[1]] = u[2] \/ (settled[u[1]] = 0 /\ holds_lease(u))

\* artifactapi.py, artifact.py discard: an archive its device was told is stored (201)
\* stands, with its own bytes, as long as that attempt has the run or settled it.  Only
\* age, a quota, or a reclaim's discard that comes after the next claim take it: never
\* another attempt's refused upload, a failed put, or a reader that found no file.
AckedArchiveStands ==
  \A u \in acked :
    Current(u) /\ u[1] \notin taken => /\ compare(u[1], u[2])
                                       /\ file[u[1]] = u[2]

\* artifactapi.py discard_artifact: once a settled run's uploads and discards are done,
\* an archive that is served is not "the first attempt's bytes under the second
\* attempt's verdict", provided its attempts ran on different devices and every
\* discard the code reached was carried out.
VerdictOwnsArchive ==
  \A j \in Jobs :
    LET n == settled[j] IN
      /\ n # 0 /\ row[j] # None /\ drops[j] = {} /\ j \notin undropped
      /\ \A m \in 1..Tries[j] : /\ req[<<j, m>>] \in {"none", "over"}
                                /\ m # n => dev[<<j, m>>] # dev[<<j, n>>]
      => row[j].n = n

\* What stands to be served for a run: the attempt of its row and that of its bytes.
Archive == {x \in [row : Nat, bytes : Nat] : x.row = x.bytes}
Served(j) ==
  IF Live(j) /\ file[j] # 0 THEN [row |-> row[j].n, bytes |-> file[j]] ELSE None

\* artifact.py ArtifactStore: "One immutable archive per job".  What is served for a run
\* is the bytes published with its row and never another attempt's, and stays what it is
\* until it is dropped: a put over an expired row, a put that is undone, a restart between
\* the rename and the commit and the discards replace no archive by another.
Contents == INSTANCE WriteOnceStore
  WITH Keys <- Jobs, Values <- Archive, held <- [j \in Jobs |-> Served(j)]
ImplementsStore == Contents!Spec

\* artifact.py put: "what a rolled-back commit leaves is disk nothing accounts for": as
\* long as no process died in the store and no landed commit raised, every file has a
\* row, and so the files obey both quotas.
DiskIsAccounted ==
  LET filed == {j \in Jobs : file[j] # 0} IN
    ~leaked => (\A j \in filed : row[j] # None) /\ Fits(filed)
=============================================================================
