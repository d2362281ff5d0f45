------------------------------ MODULE Execution -----------------------------
(***************************************************************************)
(* One device running attempts of one job (executor.py, process.py), up to *)
(* the step records the broker keeps of each (Steps).                      *)
(*                                                                         *)
(* Everything an attempt makes on the device is named after the job: its   *)
(* workspace, its log, its network and its containers.  A second attempt   *)
(* may be claimed by another slot of the same device while the first one,  *)
(* whose lease has lapsed, is still running or cleaning up.  Cancelling    *)
(* kills the docker client that is running within a second, unless it is   *)
(* done first; the daemon may have done what it was asked for, or not.     *)
(* Nothing that is removed is sure to go: the results of docker rm, docker *)
(* network rm and the removal of files decide nothing in the code.         *)
(***************************************************************************)
EXTENDS Steps, CheckSummary

CONSTANTS
  Attempts,
  Script,                    \* the job's steps, as the costs each may print
  MaxCrashes, MaxLeft,       \* bounds
  None

ASSUME ExecutionAssumption ==
  /\ Script \in Seq(SUBSET Nat) /\ MaxCrashes \in Nat /\ MaxLeft \in Nat
  /\ None \notin Attempts /\ None \notin Nat

VARIABLES
  pc, cancel,                \* of an attempt: what it does, its cancel event
  code,                      \* its exit code so far, or None
  services,                  \* it has a service to remove
  declares,                  \* the job's contract declares a service
  log,                       \* the marks of its script in its log
  workspace,                 \* the device: the attempt whose checkout is in the workspace,
  network, service, job,     \* whose network and containers have the job's names,
  archive, packed,           \* whose archive has; attempts that were given its path
  stored,                    \* the step records the broker has of an attempt
  \* observation only: marks printed, checkout the container saw, how the container ended,
  \* attempts that met another on the device, what is there because its maker was cut or
  \* its removal failed, crashes
  printed, mounted, exited, met, left, crashes

flow    == <<pc, cancel, code, services>>
docker  == <<network, service, job>>
packing == <<archive, packed>>
seen    == <<mounted, exited, met, left>>
vars    == <<flow, log, workspace, docker, packing, stored, printed, seen, declares, crashes>>

Init ==
  /\ pc = [a \in Attempts |-> "idle"] /\ cancel = [a \in Attempts |-> FALSE]
  /\ code = [a \in Attempts |-> None] /\ services = [a \in Attempts |-> FALSE]
  /\ log = [a \in Attempts |-> <<>>] /\ stored = [a \in Attempts |-> <<>>]
  /\ workspace = None /\ network = None /\ service = None /\ job = None
  /\ archive = None /\ packed = {}
  /\ printed = [a \in Attempts |-> <<>>] /\ mounted = [a \in Attempts |-> None]
  /\ exited = [a \in Attempts |-> None] /\ met = {} /\ left = {} /\ crashes = 0
  /\ declares \in BOOLEAN

Go(a, step) == pc' = [pc EXCEPT ![a] = step]
Busy == {a \in Attempts : pc[a] \notin {"idle", "over"}}

\* What there is under the job's name.
Device == [network |-> network, service |-> service, job |-> job, workspace |-> workspace,
           archive |-> archive]
Held == {x \in DOMAIN Device : Device[x] # None}

\* A thing stays that nobody has in hand any more (a bounded number at a time); one is
\* gone, or made anew.
Stays(x) == Cardinality(left \cup {x}) <= MaxLeft /\ left' = left \cup {x}
Removed(x) == left' = left \ {x}

\* The attempt goes on to a step with an exit code.
Ends(a, c, step) == code' = [code EXCEPT ![a] = c] /\ Go(a, step)

\* Nothing is left of a set of attempts but what they made on the device.
Forget(those) ==
  LET reset(f, v) == [a \in Attempts |-> IF a \in those THEN v ELSE f[a]] IN
  /\ pc' = reset(pc, "over") /\ cancel' = reset(cancel, FALSE)
  /\ code' = reset(code, None) /\ services' = reset(services, FALSE)
  /\ log' = reset(log, <<>>) /\ stored' = reset(stored, <<>>)
  /\ printed' = reset(printed, <<>>) /\ mounted' = reset(mounted, None)
  /\ exited' = reset(exited, None)
  /\ met' = met \ those /\ packed' = packed \ those

-----------------------------------------------------------------------------
(* Preparing: __call__, _execute, _checkout, _load_contract, _image *)

\* The log is opened anew and the workspace made anew, whoever has them.  One that does
\* not go raises before anything was run.
execute(a) ==
  /\ pc[a] = "idle"
  /\ \/ Go(a, "preparing")
     \/ workspace # None /\ Go(a, "cleaning")
  /\ workspace' = a /\ Removed("workspace")
  /\ log' = [b \in Attempts |-> IF b \in Busy THEN <<>> ELSE log[b]]
  /\ met' = IF Busy = {} THEN met ELSE met \cup Busy \cup {a}
  /\ UNCHANGED <<cancel, code, services, docker, packing, stored, printed, mounted, exited,
                 declares, crashes>>

\* Checkout, contract, labels and image; a command that fails or is killed ends the run.
prepare(a) ==
  /\ pc[a] = "preparing"
  /\ \/ Go(a, "network") /\ UNCHANGED code
     \/ Ends(a, 1, "cleaning")
  /\ UNCHANGED <<cancel, services, log, workspace, docker, packing, stored, printed, seen,
                 declares, crashes>>

-----------------------------------------------------------------------------
(* Running: _run_steps *)

\* Mutant: the network is made inside the block that is cleaned up after.
refused_network_cleans(a) == Ends(a, 1, "rm_job")

\* The run ends before anything that its cleanup would remove is its own.
refused_network(a) == Ends(a, 1, "cleaning")

\* A name that is taken fails; so does a client that is killed, which may have made it.
create_network(a) ==
  /\ pc[a] = "network"
  /\ \/ /\ network = None /\ workspace # None
        /\ network' = a /\ Go(a, "services") /\ UNCHANGED <<code, left>>
     \/ refused_network(a) /\ UNCHANGED <<network, left>>
     \/ /\ cancel[a] /\ network = None
        /\ refused_network(a) /\ network' = a /\ Stays("network")
  /\ UNCHANGED <<cancel, services, log, workspace, service, job, packing, stored, printed,
                 mounted, exited, met, declares, crashes>>

\* The service's container is remembered once its command succeeded.  A client that is
\* killed, or a container that is made and does not start, leaves one that is not.
start_service(a) ==
  /\ pc[a] = "services"
  /\ \/ /\ ~declares
        /\ Go(a, "starting") /\ UNCHANGED <<code, services, service, left>>
     \/ /\ declares /\ service = None
        /\ service' = a /\ services' = [services EXCEPT ![a] = TRUE]
        /\ Go(a, "health") /\ UNCHANGED <<code, left>>
     \/ /\ declares /\ Ends(a, 1, "rm_job")
        /\ UNCHANGED <<services, service, left>>
     \/ /\ declares /\ service = None /\ Ends(a, 1, "rm_job")
        /\ service' = a /\ Stays("service") /\ UNCHANGED services
  /\ UNCHANGED <<cancel, log, workspace, network, job, packing, stored, printed, mounted,
                 exited, met, declares, crashes>>

\* Healthy, cancelled while waiting, or out of time.
wait_for_services(a) ==
  /\ pc[a] = "health"
  /\ \/ Go(a, "starting") /\ UNCHANGED code
     \/ cancel[a] /\ Ends(a, 130, "rm_job")
     \/ Ends(a, 1, "rm_job")
  /\ UNCHANGED <<cancel, services, log, workspace, docker, packing, stored, printed, seen,
                 declares, crashes>>

\* The job's container is started in the workspace that is there by then, or is made and
\* not started, or is not made.
start_job(a) ==
  /\ pc[a] = "starting"
  /\ \/ /\ job = None /\ job' = a /\ Go(a, "running") /\ UNCHANGED code
        /\ mounted' = [mounted EXCEPT ![a] = workspace]
     \/ /\ Ends(a, IF cancel[a] THEN 130 ELSE 125, "rm_job")
        /\ job' \in IF job = None THEN {a, None} ELSE {job}
        /\ UNCHANGED mounted
  /\ UNCHANGED <<cancel, services, log, workspace, network, service, packing, stored,
                 printed, exited, met, left, declares, crashes>>

Live(a) == pc[a] = "running" /\ job = a /\ exited[a] = None
Open(marks) == marks # <<>> /\ ~Last(marks).completed

\* run_script: a step announces itself, and when it passes it prints its end marker.
announce(a) ==
  /\ Live(a) /\ ~Open(printed[a]) /\ Len(printed[a]) < Len(Script)
  /\ \E cost \in Script[Len(printed[a]) + 1] :
       LET mark == [index |-> Len(printed[a]) + 1, cost |-> cost, completed |-> FALSE] IN
       /\ printed' = [printed EXCEPT ![a] = Append(@, mark)]
       /\ log' = [log EXCEPT ![a] = Append(@, mark)]
  /\ UNCHANGED <<flow, workspace, docker, packing, stored, seen, declares, crashes>>

step_passes(a) ==
  /\ Live(a) /\ Open(printed[a])
  /\ printed' = [printed EXCEPT ![a][Len(printed[a])].completed = TRUE]
  /\ log' = IF log[a] = <<>> THEN log ELSE [log EXCEPT ![a][Len(log[a])].completed = TRUE]
  /\ UNCHANGED <<flow, workspace, docker, packing, stored, seen, declares, crashes>>

\* The container ends: after the last step with 0, in a step that fails with 1.  A
\* workspace that another attempt replaced may end it anyhow.
container_exits(a) ==
  /\ Live(a)
  /\ \E c \in {0, 1} :
       /\ \/ c = 0 /\ Len(printed[a]) = Len(Script) /\ ~Open(printed[a])
          \/ c = 1 /\ Open(printed[a])
          \/ mounted[a] # a \/ workspace # a
       /\ exited' = [exited EXCEPT ![a] = c]
  /\ UNCHANGED <<flow, log, workspace, docker, packing, stored, printed, mounted, met, left,
                 declares, crashes>>

\* Mutant: the container's own code is returned whether or not the run was cancelled.
exit_code_own(a) == IF exited[a] = None THEN 137 ELSE exited[a]

\* A cancelled run is 130, however its container ended; one that was taken away is not 0.
exit_code(a) == IF cancel[a] THEN 130 ELSE IF exited[a] = None THEN 137 ELSE exited[a]

\* The client returns: the container ended, was removed, or the client was killed.
client_returns(a) ==
  /\ pc[a] = "running"
  /\ exited[a] # None \/ job # a \/ cancel[a]
  /\ Ends(a, exit_code(a), "rm_job")
  /\ UNCHANGED <<cancel, services, log, workspace, docker, packing, stored, printed, seen,
                 declares, crashes>>

-----------------------------------------------------------------------------
(* Cleaning up: the finally blocks *)

\* Removed by name, or docker rm fails.
rm_job(a) ==
  /\ pc[a] = "rm_job" /\ Go(a, "rm_services")
  /\ \/ job' = None /\ Removed("job")
     \/ job # None /\ Stays("job") /\ UNCHANGED job
  /\ UNCHANGED <<cancel, code, services, log, workspace, network, service, packing, stored,
                 printed, mounted, exited, met, declares, crashes>>

\* Mutant: only a service that was waited for is remembered.
remembered_none(a) == FALSE

remembered(a) == services[a]

rm_services(a) ==
  /\ pc[a] = "rm_services" /\ Go(a, "rm_network")
  /\ \/ remembered(a) /\ service' = None /\ Removed("service")
     \/ remembered(a) /\ Stays("service") /\ UNCHANGED service
     \/ ~remembered(a) /\ UNCHANGED <<service, left>>
  /\ services' = [services EXCEPT ![a] = FALSE]
  /\ UNCHANGED <<cancel, code, log, workspace, network, job, packing, stored,
                 printed, mounted, exited, met, declares, crashes>>

\* _run_steps raised rather than returned: a service could not be had.
raised(a) == code[a] = 1 /\ exited[a] = None

\* A network with a container that runs on it is not removed, and docker may fail to
\* remove any; nothing says so but the log.  Whether a container left runs is not kept.
rm_network(a) ==
  /\ pc[a] = "rm_network" /\ Go(a, IF raised(a) THEN "cleaning" ELSE "packing")
  /\ \/ network' = None /\ Removed("network")
     \/ Stays("network") /\ UNCHANGED network
  /\ UNCHANGED <<cancel, code, services, log, workspace, service, job, packing, stored,
                 printed, mounted, exited, met, declares, crashes>>

\* The archive is written beside the workspace, over what has its name.  A run without
\* the directory leaves the name alone; one that packs nothing, or fails to, frees it,
\* and when it cannot the run has failed.
pack_artifacts(a) ==
  /\ pc[a] = "packing"
  /\ \/ /\ workspace # None /\ archive' = a /\ packed' = packed \cup {a}
        /\ Go(a, "cleaning") /\ Removed("archive") /\ UNCHANGED code
     \/ Go(a, "cleaning") /\ UNCHANGED <<packing, left, code>>
     \/ /\ workspace # None /\ archive' = None /\ UNCHANGED packed
        /\ Go(a, "cleaning") /\ Removed("archive") /\ UNCHANGED code
     \/ /\ workspace # None /\ archive' = a /\ UNCHANGED packed
        /\ Ends(a, 1, "cleaning") /\ Stays("archive")
  /\ UNCHANGED <<cancel, services, log, workspace, docker, stored, printed, mounted, exited,
                 met, declares, crashes>>

\* The marks an attempt reads back from its whole log.  What is left of them in a log that
\* two attempts wrote is left out: no property reads the records of such an attempt.
completed_log(a) == IF a \in met THEN <<>> ELSE log[a]

\* The workspace is removed, whosever it is; then the log is read and reported.  What
\* cannot be removed, or is kept because the device does not clean up, is as this attempt
\* left it.
cleanup_workspace(a) ==
  /\ pc[a] = "cleaning" /\ Go(a, "reporting")
  /\ \/ workspace' = None /\ Removed("workspace")
     \/ workspace # None /\ workspace' = a /\ Stays("workspace")
  /\ stored' = [stored EXCEPT ![a] = encode_steps(parse_steps(completed_log(a)))]
  /\ log' = [log EXCEPT ![a] = <<>>]
  /\ UNCHANGED <<cancel, code, services, docker, packing, printed, mounted, exited, met,
                 declares, crashes>>

\* The agent sends the archive, unless its lease is gone, and removes it in any case, if
\* it can; then it reports.  What the attempt was is forgotten.
report(a) ==
  /\ pc[a] = "reporting" /\ Forget({a})
  /\ \/ a \in packed /\ archive' = None /\ Removed("archive")
     \/ a \in packed /\ archive # None /\ Stays("archive") /\ UNCHANGED archive
     \/ a \notin packed /\ UNCHANGED <<archive, left>>
  /\ UNCHANGED <<workspace, docker, declares, crashes>>

-----------------------------------------------------------------------------
(* What happens to an attempt *)

\* The time limit runs while services and the job's container do.
timer(a) ==
  /\ pc[a] \in {"services", "health", "starting", "running"} /\ ~cancel[a]
  /\ cancel' = [cancel EXCEPT ![a] = TRUE]
  /\ UNCHANGED <<pc, code, services, log, workspace, docker, packing, stored, printed, seen,
                 declares, crashes>>

\* External: a renewal is refused, and the heartbeat cancels the run.
LoseLease(a) ==
  /\ a \in Busy /\ ~cancel[a] /\ code[a] = None
  /\ cancel' = [cancel EXCEPT ![a] = TRUE]
  /\ UNCHANGED <<pc, code, services, log, workspace, docker, packing, stored, printed, seen,
                 declares, crashes>>

\* External: the agent's process dies; what it made on the device stays.
Crash ==
  /\ crashes < MaxCrashes /\ crashes' = crashes + 1 /\ Busy # {} /\ left' = Held
  /\ Forget(Busy)
  /\ UNCHANGED <<workspace, docker, archive, declares>>

Next ==
  \/ \E a \in Attempts :
       \/ execute(a) \/ prepare(a) \/ create_network(a) \/ start_service(a)
       \/ wait_for_services(a) \/ start_job(a)
       \/ announce(a) \/ step_passes(a) \/ container_exits(a) \/ client_returns(a)
       \/ rm_job(a) \/ rm_services(a) \/ rm_network(a) \/ pack_artifacts(a)
       \/ cleanup_workspace(a) \/ report(a)
       \/ timer(a) \/ LoseLease(a)
  \/ Crash

Spec == Init /\ [][Next]_vars

-----------------------------------------------------------------------------
(* Properties *)

\* executor.py _run_steps: an attempt is green only when its own container ended with 0
\* and neither its time nor its lease was up before the client returned; and unless
\* another attempt of the job was on the device with it, that container saw the
\* attempt's own checkout and finished every step of the script.
GreenIsEarned ==
  \A a \in Attempts : code[a] = 0 =>
    /\ exited[a] = 0 /\ ~cancel[a]
    /\ a \notin met => /\ mounted[a] = a /\ Len(printed[a]) = Len(Script)
                       /\ \A i \in 1..Len(Script) : printed[a][i].completed

\* executor.py _run_steps, finally: cleanup goes by names that every attempt of the
\* job shares, and still takes only what the attempt made, or a job container of one
\* that failed to remove it and went on: creating the network is what lets one attempt
\* in at a time.
CleanupTakesItsOwn ==
  [][\A a \in Attempts :
       /\ pc[a] = "rm_job" /\ pc'[a] = "rm_services" /\ job \in Attempts \ {a}
          => pc[job] \in {"packing", "cleaning", "reporting", "over"}
       /\ pc[a] = "rm_services" /\ pc'[a] = "rm_network"
          => service' = service \/ service = a]_vars

\* executor.py _run_steps, _cleanup_workspace, __call__: once a job's attempts are over,
\* each thing that is there under its name is there because that thing's own command
\* failed: its client was killed or failed in the middle of making it, its removal was
\* tried and failed or is not done on this device, or the agent died while it was there.
LeftoversHaveACause == Busy = {} => Held \subseteq left

\* The record of a run that an attempt reported.
Reported(a) ==
  [status |-> IF code[a] = 0 THEN "success" ELSE "failure", exit |-> code[a],
   attempts |-> 1, error |-> "none", steps |-> stored[a]]

\* steps.py parse_steps, encode_steps; check_summary.py verdict_for: the check of a run
\* names the step its script stopped in, in its title, its headline, its table and its
\* annotation, and accounts for every step that ran, whatever the device's bounds and the
\* broker's left out.
StopIsNamed ==
  \A a \in Attempts \ met :
    pc[a] = "reporting" /\ printed[a] # <<>> =>
      LET stop == IF Open(printed[a]) THEN Len(printed[a]) ELSE NoStep
          shown == verdict_for(Reported(a))
          rows == shown.summary.table
      IN /\ Len(rows) + shown.summary.missing = Len(printed[a])
         /\ \A i \in 1..Len(rows) : (rows[i] = "passed") = (stop = NoStep \/ i < Len(rows))
         /\ shown.title[2] = stop /\ shown.summary.headline[2] = stop
         /\ shown.annotations = IF code[a] = 0 THEN {} ELSE {stop}
=============================================================================
