--------------------------- MODULE ExecutionProofs ----------------------------
(***************************************************************************)
(* Proofs about Execution for any number of attempts and crashes and any   *)
(* script: a green attempt is earned, cleanup by shared names takes only   *)
(* what is the attempt's own, what is left behind has a cause, and the     *)
(* check of a run names the step it stopped in, whatever the bounds.       *)
(***************************************************************************)
EXTENDS Execution, FiniteSetTheorems, WellFoundedInduction, TLAPS

Before == {"idle", "preparing", "network", "services", "health", "starting", "running"}
Inside == {"services", "health", "starting", "running", "rm_job", "rm_services", "rm_network"}
Past   == {"packing", "cleaning", "reporting", "over"}
Started == {"running", "rm_job", "rm_services", "rm_network"} \cup Past
Places == Before \cup Inside \cup {"packing", "cleaning", "reporting", "over"}
Mark   == [index : Nat, cost : Nat, completed : BOOLEAN]
Rec    == [index : Nat, cost : Nat, completed : BOOLEAN, dropped : Nat]

ExecTypes ==
  /\ pc \in [Attempts -> Places] /\ cancel \in [Attempts -> BOOLEAN]
  /\ code \in [Attempts -> Nat \cup {None}] /\ services \in [Attempts -> BOOLEAN]
  /\ printed \in [Attempts -> Seq(Mark)] /\ exited \in [Attempts -> Nat \cup {None}]
  /\ mounted \in [Attempts -> Attempts \cup {None}] /\ workspace \in Attempts \cup {None}
  /\ network \in Attempts \cup {None} /\ service \in Attempts \cup {None}
  /\ job \in Attempts \cup {None} /\ archive \in Attempts \cup {None}
  /\ met \in SUBSET Attempts /\ packed \in SUBSET Attempts

\* Creating the network is what lets an attempt in; a service that an attempt remembers is
\* its own, and a job's container is of one that started it.
NetworkGuards ==
  /\ \A a \in Attempts :
       /\ pc[a] \in Inside => network = a
       /\ services[a] => /\ service = a
                         /\ pc[a] \in {"health", "starting", "running", "rm_job", "rm_services"}
  /\ job # None => pc[job] \in Started

\* Whatever has the job's name and is not left is of an attempt that has yet to remove it,
\* and that attempt knows.
MadeIsRemembered ==
  /\ network # None /\ "network" \notin left => pc[network] \in Inside
  /\ job # None /\ "job" \notin left => pc[job] \in {"running", "rm_job"}
  /\ service # None /\ "service" \notin left => services[service]
  /\ workspace # None /\ "workspace" \notin left
       => pc[workspace] \notin {"idle", "reporting", "over"}
  /\ archive # None /\ "archive" \notin left
       => pc[archive] \in {"cleaning", "reporting"} /\ archive \in packed

\* An attempt that met no other is alone on the device, in its own checkout.
AloneInItsCheckout ==
  \A a \in Attempts \ met :
    /\ a \in Busy => Busy = {a}
    /\ a \in Busy /\ pc[a] # "reporting" => workspace = a
    /\ pc[a] = "running" => mounted[a] = a

\* The script goes on only after a step that passed; an exit code is had once, from the
\* container, and no time limit or lost lease comes after it.
CodeIsEarned ==
  \A a \in Attempts :
    /\ \A i \in 1..Len(printed[a]) - 1 : printed[a][i].completed
    /\ exited[a] = 0 /\ a \notin met =>
         /\ mounted[a] = a /\ Len(printed[a]) = Len(Script)
         /\ \A i \in 1..Len(Script) : printed[a][i].completed
    /\ pc[a] \in Before => code[a] = None
    /\ code[a] = 0 => exited[a] = 0 /\ ~cancel[a]

\* Steps are announced by their number; and of an attempt that met no other, the log has
\* what its script printed until it is read, and then the records are of that.
RecordsAreTrue ==
  \A a \in Attempts :
    /\ \A i \in 1..Len(printed[a]) : printed[a][i].index = i
    /\ a \notin met =>
         /\ pc[a] # "reporting" => log[a] = printed[a]
         /\ pc[a] = "reporting" => stored[a] = encode_steps(parse_steps(printed[a]))

EInv == ExecTypes /\ NetworkGuards /\ MadeIsRemembered /\ AloneInItsCheckout /\ CodeIsEarned

USE ExecutionAssumption

-----------------------------------------------------------------------------
(* The steps *)

\* A sequence with one element replaced.
LEMMA Replaced ==
  ASSUME NEW S, NEW s \in Seq(S), NEW i \in 1..Len(s), NEW x \in S
  PROVE  [s EXCEPT ![i] = x] \in Seq(S) /\ Len([s EXCEPT ![i] = x]) = Len(s)
OBVIOUS

LEMMA InitE == Init => EInv
<1> SUFFICES ASSUME Init PROVE EInv
  OBVIOUS
<1>1. ExecTypes
  <2>1. <<>> \in Seq(Mark)
    OBVIOUS
  <2> QED BY <2>1 DEF Init, ExecTypes, Places, Before
<1>2. NetworkGuards /\ MadeIsRemembered
  BY DEF Init, NetworkGuards, MadeIsRemembered, Inside
<1>3. AloneInItsCheckout /\ CodeIsEarned
  BY DEF Init, AloneInItsCheckout, CodeIsEarned, Busy
<1> QED BY <1>1, <1>2, <1>3 DEF EInv

\* An attempt under way that stays under way.
LEMMA Moved ==
  ASSUME EInv, NEW a \in Attempts, NEW step \in Places \ {"idle", "over"}, Go(a, step),
         pc[a] \notin {"idle", "over"}
  PROVE  /\ pc' \in [Attempts -> Places] /\ pc'[a] = step /\ Busy' = Busy /\ a \in Busy
         /\ \A b \in Attempts \ {a} : pc'[b] = pc[b]
<1>1. /\ pc' \in [Attempts -> Places] /\ pc'[a] = step
      /\ \A b \in Attempts \ {a} : pc'[b] = pc[b]
  BY DEF Go, EInv, ExecTypes
<1> QED BY <1>1 DEF Busy

\* Where a command's outcome takes an attempt that makes and removes nothing by it.
Leads(from, to) ==
  \/ from = "preparing" /\ to \in {"network", "cleaning"}
  \/ from = "network" /\ to = "cleaning"
  \/ from \in {"services", "health"} /\ to \in {"starting", "rm_job"}
  \/ from \in {"starting", "running"} /\ to = "rm_job"

\* A step of the flow: an exit code is given when the attempt turns to its cleanup.
LEMMA FlowStep ==
  ASSUME EInv, NEW a \in Attempts, NEW step, Leads(pc[a], step), Go(a, step),
         code' \in [Attempts -> Nat \cup {None}],
         \A b \in Attempts \ {a} : code'[b] = code[b],
         step \in Before => code'[a] = code[a],
         code'[a] = 0 => exited[a] = 0 /\ ~cancel[a],
         UNCHANGED <<cancel, services, workspace, docker, packing, printed, seen>>
  PROVE  EInv'
<1> USE DEF EInv, docker, packing, seen
<1>1. step \in Places \ {"idle", "over"} /\ pc[a] \notin {"idle", "over"}
  BY DEF Leads, Places, Before, Inside
<1>2. /\ pc' \in [Attempts -> Places] /\ pc'[a] = step /\ Busy' = Busy
      /\ \A b \in Attempts \ {a} : pc'[b] = pc[b]
  BY <1>1, Moved
<1>4. ExecTypes'
  BY <1>2 DEF ExecTypes
<1>5. NetworkGuards'
  BY <1>2 DEF NetworkGuards, Leads, Inside, Started, Past, ExecTypes
<1>6. MadeIsRemembered'
  BY <1>2 DEF MadeIsRemembered, Leads, Inside, ExecTypes, NetworkGuards
<1>7. AloneInItsCheckout'
  BY <1>1, <1>2 DEF AloneInItsCheckout, Leads, Busy
<1>8. CodeIsEarned'
  BY <1>2 DEF CodeIsEarned, Leads, Before
<1> QED BY <1>4, <1>5, <1>6, <1>7, <1>8

LEMMA EndsWith ==
  ASSUME EInv, NEW a \in Attempts, NEW c \in Nat, NEW step, Ends(a, c, step)
  PROVE  /\ Go(a, step) /\ code' \in [Attempts -> Nat \cup {None}] /\ code'[a] = c
         /\ \A b \in Attempts \ {a} : code'[b] = code[b]
BY DEF Ends, EInv, ExecTypes

LEMMA KeepsCode ==
  ASSUME EInv
  PROVE  /\ code \in [Attempts -> Nat \cup {None}]
         /\ \A a \in Attempts : code[a] = 0 => exited[a] = 0 /\ ~cancel[a]
BY DEF EInv, ExecTypes, CodeIsEarned

LEMMA FlowSteps ==
  ASSUME EInv, NEW a \in Attempts, prepare(a) \/ wait_for_services(a) \/ client_returns(a)
  PROVE  EInv'
<1>1. UNCHANGED <<cancel, services, workspace, docker, packing, printed, seen>>
  BY DEF prepare, wait_for_services, client_returns
<1>2. CASE prepare(a)
  <2>1. CASE Ends(a, 1, "cleaning")
    BY <1>1, <1>2, <2>1, EndsWith, FlowStep DEF prepare, Leads, Before
  <2>2. CASE Go(a, "network") /\ code' = code
    BY <1>1, <1>2, <2>2, KeepsCode, FlowStep DEF prepare, Leads, Before
  <2> QED BY <1>2, <2>1, <2>2 DEF prepare
<1>3. CASE wait_for_services(a)
  <2>1. CASE Ends(a, 1, "rm_job") \/ Ends(a, 130, "rm_job")
    BY <1>1, <1>3, <2>1, EndsWith, FlowStep DEF wait_for_services, Leads, Before
  <2>2. CASE Go(a, "starting") /\ code' = code
    BY <1>1, <1>3, <2>2, KeepsCode, FlowStep DEF wait_for_services, Leads, Before
  <2> QED BY <1>3, <2>1, <2>2 DEF wait_for_services
<1>4. CASE client_returns(a)
  <2>1. exit_code(a) \in Nat /\ (exit_code(a) = 0 => exited[a] = 0 /\ ~cancel[a])
    BY DEF exit_code, EInv, ExecTypes
  <2>2. Leads(pc[a], "rm_job") /\ "rm_job" \notin Before /\ Ends(a, exit_code(a), "rm_job")
    BY <1>4 DEF client_returns, Leads, Before
  <2> QED BY <1>1, <2>1, <2>2, EndsWith, FlowStep
<1> QED BY <1>2, <1>3, <1>4

\* execute: whoever is on the device by then has met the attempt, and it them.
LEMMA ExecuteStep == ASSUME EInv, NEW a \in Attempts, execute(a) PROVE EInv'
<1> USE DEF EInv
<1>1. /\ pc[a] = "idle" /\ workspace' = a /\ left' = left \ {"workspace"}
      /\ Go(a, "preparing") \/ Go(a, "cleaning")
      /\ met' = IF Busy = {} THEN met ELSE met \cup Busy \cup {a}
      /\ UNCHANGED <<cancel, code, services, network, service, job, archive, packed, printed,
                     mounted, exited>>
  BY DEF execute, docker, packing, Removed
<1>2. /\ pc' \in [Attempts -> Places] /\ pc'[a] \in {"preparing", "cleaning"}
      /\ \A b \in Attempts \ {a} : pc'[b] = pc[b]
  BY <1>1 DEF Go, ExecTypes, Places, Before
<1>3. Busy' = Busy \cup {a} /\ a \notin Busy /\ Busy \subseteq Attempts
  BY <1>1, <1>2 DEF Busy
<1>4. ExecTypes'
  BY <1>1, <1>2, <1>3 DEF ExecTypes
<1>5. NetworkGuards'
  BY <1>1, <1>2 DEF NetworkGuards, Inside, Started, Past, ExecTypes
<1>6. MadeIsRemembered'
  BY <1>1, <1>2 DEF MadeIsRemembered, Inside, ExecTypes
<1>7. AloneInItsCheckout'
  BY <1>1, <1>2, <1>3 DEF AloneInItsCheckout, Busy
<1>8. CodeIsEarned'
  BY <1>1, <1>2 DEF CodeIsEarned, Before
<1> QED BY <1>4, <1>5, <1>6, <1>7, <1>8

\* create_network: a name that is free lets the attempt in; nobody else is in then.
LEMMA NetworkStep == ASSUME EInv, NEW a \in Attempts, create_network(a) PROVE EInv'
<1> USE DEF EInv
<1>1. /\ pc[a] = "network"
      /\ UNCHANGED <<cancel, services, workspace, service, job, archive, packed, printed,
                     mounted, exited, met>>
  BY DEF create_network, packing
<1>2. CASE refused_network(a) /\ network' = network /\ left' = left
  <2>1. Leads(pc[a], "cleaning") /\ "cleaning" \notin Before
    BY <1>1 DEF Leads, Before
  <2>2. Ends(a, 1, "cleaning")
    BY <1>2 DEF refused_network
  <2>3. UNCHANGED <<cancel, services, workspace, docker, packing, printed, seen>>
    BY <1>1, <1>2 DEF docker, packing, seen
  <2> QED BY <2>1, <2>2, <2>3, EndsWith, FlowStep
<1>3. ASSUME network = None, network' = a, NEW step \in {"services", "cleaning"}, Go(a, step),
             \/ step = "services" /\ UNCHANGED <<code, left>>
             \/ /\ step = "cleaning" /\ code' = [code EXCEPT ![a] = 1]
                /\ left' = left \cup {"network"}
      PROVE  EInv'
  <2>1. /\ pc' \in [Attempts -> Places] /\ pc'[a] = step /\ Busy' = Busy
        /\ \A b \in Attempts \ {a} : pc'[b] = pc[b]
    BY <1>1, <1>3, Moved DEF Places, Inside
  <2>2. /\ code' \in [Attempts -> Nat \cup {None}] /\ (code'[a] = 0 => code[a] = 0)
        /\ (step = "services" => code' = code /\ left' = left)
        /\ (step # "services" => left' = left \cup {"network"})
        /\ \A b \in Attempts \ {a} : code'[b] = code[b]
    <3>1. CASE step = "services"
      BY <1>3, <3>1 DEF ExecTypes
    <3>2. CASE step = "cleaning"
      <4>1. code' = [code EXCEPT ![a] = 1]
        BY <1>3, <3>2
      <4>2. /\ code' \in [Attempts -> Nat \cup {None}] /\ code'[a] = 1
            /\ \A b \in Attempts \ {a} : code'[b] = code[b]
        BY <4>1 DEF ExecTypes
      <4> QED BY <1>3, <3>2, <4>2
    <3> QED BY <1>3, <3>1, <3>2
  <2>3. ExecTypes'
    BY <1>1, <1>3, <2>1, <2>2 DEF ExecTypes
  <2>4. \A b \in Attempts : pc[b] \notin Inside
    BY <1>3 DEF NetworkGuards, ExecTypes
  <2>5. NetworkGuards'
    BY <1>1, <1>3, <2>1, <2>4 DEF NetworkGuards, Inside, Started, Past, ExecTypes
  <2>6. MadeIsRemembered'
    BY <1>1, <1>3, <2>1, <2>2, <2>4 DEF MadeIsRemembered, ExecTypes, Inside
  <2>7. AloneInItsCheckout'
    BY <1>1, <1>3, <2>1 DEF AloneInItsCheckout, Busy
  <2>8. CodeIsEarned'
    BY <1>1, <1>3, <2>1, <2>2 DEF CodeIsEarned, Before
  <2> QED BY <2>3, <2>5, <2>6, <2>7, <2>8
<1> QED BY <1>2, <1>3 DEF create_network, refused_network, Ends, Stays

\* start_service: the container is remembered unless its command failed.
LEMMA ServiceStep == ASSUME EInv, NEW a \in Attempts, start_service(a) PROVE EInv'
<1> USE DEF EInv
<1>1. /\ pc[a] = "services"
      /\ UNCHANGED <<cancel, workspace, network, job, archive, packed, printed, mounted,
                     exited, met>>
  BY DEF start_service, packing
<1>2. ASSUME (Go(a, "starting") /\ code' = code) \/ Ends(a, 1, "rm_job"),
             UNCHANGED <<services, service, left>>
      PROVE  EInv'
  <2>1. /\ Leads(pc[a], "starting") /\ Leads(pc[a], "rm_job") /\ "rm_job" \notin Before
        /\ UNCHANGED <<cancel, services, workspace, docker, packing, printed, seen>>
    BY <1>1, <1>2 DEF Leads, Before, docker, packing, seen
  <2> HIDE DEF EInv
  <2>2. CASE Ends(a, 1, "rm_job")
    BY <2>1, <2>2, EndsWith, FlowStep
  <2>3. CASE Go(a, "starting") /\ code' = code
    BY <2>1, <2>3, KeepsCode, FlowStep
  <2> QED BY <1>2, <2>2, <2>3
<1>3. ASSUME service = None, service' = a, NEW step \in {"health", "rm_job"}, Go(a, step),
             \/ /\ step = "health" /\ services' = [services EXCEPT ![a] = TRUE]
                /\ UNCHANGED <<code, left>>
             \/ /\ step = "rm_job" /\ code' = [code EXCEPT ![a] = 1]
                /\ left' = left \cup {"service"} /\ UNCHANGED services
      PROVE  EInv'
  <2>1. /\ pc' \in [Attempts -> Places] /\ pc'[a] = step /\ Busy' = Busy
        /\ \A b \in Attempts \ {a} : pc'[b] = pc[b]
    BY <1>1, <1>3, Moved DEF Places, Inside
  <2>2. /\ code' \in [Attempts -> Nat \cup {None}] /\ (code'[a] = 0 => code[a] = 0)
        /\ (step = "health" => code' = code /\ left' = left)
        /\ (step # "health" => left' = left \cup {"service"} /\ services' = services)
        /\ \A b \in Attempts \ {a} : code'[b] = code[b]
    <3>1. CASE step = "health"
      BY <1>3, <3>1 DEF ExecTypes
    <3>2. CASE step = "rm_job"
      <4>1. code' = [code EXCEPT ![a] = 1]
        BY <1>3, <3>2
      <4>2. /\ code' \in [Attempts -> Nat \cup {None}] /\ code'[a] = 1
            /\ \A b \in Attempts \ {a} : code'[b] = code[b]
        BY <4>1 DEF ExecTypes
      <4> QED BY <1>3, <3>2, <4>2
    <3> QED BY <1>3, <3>1, <3>2
  <2>3. /\ services' \in [Attempts -> BOOLEAN] /\ (step = "health" => services'[a])
        /\ \A b \in Attempts : ~services[b]
        /\ \A b \in Attempts \ {a} : services'[b] = services[b]
    <3>1. \A b \in Attempts : ~services[b]
      BY <1>3 DEF NetworkGuards, ExecTypes
    <3> QED BY <1>3, <3>1 DEF ExecTypes
  <2>4. ExecTypes'
    BY <1>1, <1>3, <2>1, <2>2, <2>3 DEF ExecTypes
  <2>5. network = a
    BY <1>1 DEF NetworkGuards, Inside
  <2>6. NetworkGuards'
    BY <1>1, <1>3, <2>1, <2>2, <2>3, <2>5 DEF NetworkGuards, Inside, Started, Past, ExecTypes
  <2>7. MadeIsRemembered'
    BY <1>1, <1>3, <2>1, <2>2, <2>3, <2>5 DEF MadeIsRemembered, ExecTypes, Inside
  <2>8. AloneInItsCheckout'
    BY <1>1, <1>3, <2>1 DEF AloneInItsCheckout, Busy
  <2>9. CodeIsEarned'
    BY <1>1, <1>3, <2>1, <2>2 DEF CodeIsEarned, Before
  <2> QED BY <2>4, <2>6, <2>7, <2>8, <2>9
<1> QED BY <1>2, <1>3 DEF start_service, Ends, Stays

\* start_job: an attempt that is alone starts its container in its own checkout.
LEMMA StartStep == ASSUME EInv, NEW a \in Attempts, start_job(a) PROVE EInv'
<1> USE DEF EInv
<1>1. /\ pc[a] = "starting"
      /\ UNCHANGED <<cancel, services, workspace, network, service, archive, packed, printed,
                     exited, met, left>>
  BY DEF start_job, packing
<1>2. ASSUME Ends(a, IF cancel[a] THEN 130 ELSE 125, "rm_job"), UNCHANGED <<job, mounted>>
      PROVE  EInv'
  <2>1. Leads(pc[a], "rm_job") /\ "rm_job" \notin Before
    BY <1>1 DEF Leads, Before
  <2>2. Ends(a, 130, "rm_job") \/ Ends(a, 125, "rm_job")
    BY <1>2
  <2>3. UNCHANGED <<cancel, services, workspace, docker, packing, printed, seen>>
    BY <1>1, <1>2 DEF docker, packing, seen
  <2> QED BY <2>1, <2>2, <2>3, EndsWith, FlowStep
<1>4. ASSUME Ends(a, IF cancel[a] THEN 130 ELSE 125, "rm_job"), job = None, job' = a,
             UNCHANGED mounted
      PROVE  EInv'
  <2>1. /\ pc' \in [Attempts -> Places] /\ pc'[a] = "rm_job" /\ Busy' = Busy /\ a \in Busy
        /\ \A b \in Attempts \ {a} : pc'[b] = pc[b]
    BY <1>1, <1>4, Moved DEF Places, Inside, Ends
  <2>2. /\ code' \in [Attempts -> Nat \cup {None}] /\ code'[a] # 0
        /\ \A b \in Attempts \ {a} : code'[b] = code[b]
    <3> HIDE DEF EInv
    <3>1. Ends(a, 130, "rm_job") \/ Ends(a, 125, "rm_job")
      BY <1>4
    <3> QED BY <3>1, EndsWith
  <2>3. ExecTypes'
    BY <1>1, <1>4, <2>1, <2>2 DEF ExecTypes
  <2>4. NetworkGuards'
    BY <1>1, <1>4, <2>1 DEF NetworkGuards, Inside, Started, Past, ExecTypes
  <2>5. MadeIsRemembered'
    BY <1>1, <1>4, <2>1 DEF MadeIsRemembered, ExecTypes, Inside
  <2>6. AloneInItsCheckout'
    BY <1>1, <1>4, <2>1 DEF AloneInItsCheckout, Busy
  <2>7. CodeIsEarned'
    BY <1>1, <1>4, <2>1, <2>2 DEF CodeIsEarned, Before
  <2> QED BY <2>3, <2>4, <2>5, <2>6, <2>7
<1>3. ASSUME job = None, job' = a, Go(a, "running"), code' = code,
             mounted' = [mounted EXCEPT ![a] = workspace]
      PROVE  EInv'
  <2>1. /\ pc' \in [Attempts -> Places] /\ pc'[a] = "running" /\ Busy' = Busy /\ a \in Busy
        /\ \A b \in Attempts \ {a} : pc'[b] = pc[b]
    BY <1>1, <1>3, Moved DEF Places, Inside
  <2>2. /\ mounted' \in [Attempts -> Attempts \cup {None}] /\ mounted'[a] = workspace
        /\ \A b \in Attempts \ {a} : mounted'[b] = mounted[b]
    BY <1>3 DEF ExecTypes
  <2>3. ExecTypes'
    BY <1>1, <1>3, <2>1, <2>2 DEF ExecTypes
  <2>4. network = a
    BY <1>1 DEF NetworkGuards, Inside
  <2>5. NetworkGuards'
    BY <1>1, <1>3, <2>1, <2>4 DEF NetworkGuards, Inside, Started, Past, ExecTypes
  <2>6. MadeIsRemembered'
    BY <1>1, <1>3, <2>1, <2>4 DEF MadeIsRemembered, ExecTypes, Inside
  <2>7. a \notin met => workspace = a
    BY <1>1, <2>1 DEF AloneInItsCheckout
  <2>8. AloneInItsCheckout'
    BY <1>1, <1>3, <2>1, <2>2, <2>7 DEF AloneInItsCheckout, Busy
  <2>9. CodeIsEarned'
    BY <1>1, <1>3, <2>1, <2>2, <2>7 DEF CodeIsEarned, Before
  <2> QED BY <2>3, <2>5, <2>6, <2>8, <2>9
<1> QED BY <1>2, <1>3, <1>4 DEF start_job

\* The script prints: a step is announced after the last one passed.
LEMMA ScriptStep ==
  ASSUME EInv, NEW a \in Attempts, announce(a) \/ step_passes(a)
  PROVE  EInv'
<1> USE DEF EInv
<1>1. /\ exited[a] = None
      /\ UNCHANGED <<pc, cancel, code, services, workspace, network, service, job, archive,
                     packed, mounted, exited, met, left>>
  BY DEF announce, step_passes, Live, flow, docker, packing, seen
<1>2. printed[a] \in Seq(Mark)
  BY DEF ExecTypes
<1>3. /\ printed' \in [Attempts -> Seq(Mark)]
      /\ \A b \in Attempts \ {a} : printed'[b] = printed[b]
      /\ \A i \in 1..Len(printed'[a]) - 1 : printed'[a][i].completed
  <2>1. CASE announce(a)
    <3>1. PICK mark \in Mark : printed' = [printed EXCEPT ![a] = Append(@, mark)]
      <4>1. PICK cost \in Script[Len(printed[a]) + 1] : printed' =
              [printed EXCEPT ![a] = Append(@, [index |-> Len(printed[a]) + 1, cost |-> cost,
                                                completed |-> FALSE])]
        BY <2>1 DEF announce
      <4>2. cost \in Nat
        <5>1. Len(printed[a]) + 1 \in 1..Len(Script)
          BY <1>2, <2>1 DEF announce
        <5>2. Script[Len(printed[a]) + 1] \in SUBSET Nat
          BY <5>1
        <5> QED BY <5>2
      <4>3. Len(printed[a]) + 1 \in Nat
        BY <1>2
      <4> QED BY <4>1, <4>2, <4>3 DEF Mark
    <3>2. /\ printed'[a] = Append(printed[a], mark) /\ printed'[a] \in Seq(Mark)
          /\ \A b \in Attempts \ {a} : printed'[b] = printed[b]
          /\ printed' \in [Attempts -> Seq(Mark)]
      BY <1>2, <3>1 DEF ExecTypes
    <3>3. printed[a] # <<>> => printed[a][Len(printed[a])].completed
      BY <2>1 DEF announce, Open, Last
    <3>4. ASSUME NEW i \in 1..Len(printed[a]) PROVE printed[a][i].completed
      <4>1. CASE i = Len(printed[a])
        BY <1>2, <3>3, <4>1
      <4>2. CASE i # Len(printed[a])
        BY <1>2, <4>2 DEF CodeIsEarned
      <4> QED BY <4>1, <4>2
    <3> QED BY <1>2, <3>2, <3>4
  <2>2. CASE step_passes(a)
    <3> DEFINE n == Len(printed[a])
    <3>1. n \in 1..n /\ printed' = [printed EXCEPT ![a][n].completed = TRUE]
      BY <1>2, <2>2 DEF step_passes, Open
    <3>2. printed[a][n] \in Mark
      BY <1>2, <3>1
    <3>3. PICK m \in Mark : m = [printed[a][n] EXCEPT !.completed = TRUE]
      BY <3>2 DEF Mark
    <3>4. /\ printed'[a] = [printed[a] EXCEPT ![n] = m]
          /\ \A b \in Attempts \ {a} : printed'[b] = printed[b]
      BY <3>1, <3>3 DEF ExecTypes
    <3>5. printed'[a] \in Seq(Mark) /\ Len(printed'[a]) = n
      <4>1. /\ [printed[a] EXCEPT ![n] = m] \in Seq(Mark)
            /\ Len([printed[a] EXCEPT ![n] = m]) = Len(printed[a])
        <5>1. Len(printed[a]) \in 1..Len(printed[a])
          BY <3>1
        <5> HIDE DEF EInv
        <5> QED BY <1>2, <3>3, <5>1, Replaced
      <4> QED BY <3>4, <4>1
    <3>6. printed' \in [Attempts -> Seq(Mark)]
      BY <3>1, <3>4, <3>5 DEF ExecTypes
    <3>7. \A i \in 1..n - 1 : printed'[a][i] = printed[a][i]
      BY <1>2, <3>4
    <3> QED BY <3>4, <3>5, <3>6, <3>7 DEF CodeIsEarned
  <2> QED BY <2>1, <2>2
<1>4. Busy' = Busy
  BY <1>1 DEF Busy
<1>5. ExecTypes'
  BY <1>1, <1>3 DEF ExecTypes
<1>6. NetworkGuards' /\ MadeIsRemembered' /\ AloneInItsCheckout'
  BY <1>1, <1>4 DEF NetworkGuards, MadeIsRemembered, AloneInItsCheckout
<1>7. CodeIsEarned'
  <2>1. exited[a] # 0
    BY <1>1
  <2>2. ASSUME NEW b \in Attempts
        PROVE  /\ \A i \in 1..Len(printed'[b]) - 1 : printed'[b][i].completed
               /\ exited'[b] = 0 /\ b \notin met' =>
                    /\ mounted'[b] = b /\ Len(printed'[b]) = Len(Script)
                    /\ \A i \in 1..Len(Script) : printed'[b][i].completed
               /\ pc'[b] \in Before => code'[b] = None
               /\ code'[b] = 0 => exited'[b] = 0 /\ ~cancel'[b]
    <3>1. /\ pc' = pc /\ code' = code /\ cancel' = cancel /\ exited' = exited
          /\ mounted' = mounted /\ met' = met
      BY <1>1
    <3>2. /\ pc[b] \in Before => code[b] = None
          /\ code[b] = 0 => exited[b] = 0 /\ ~cancel[b]
      BY DEF CodeIsEarned
    <3>3. CASE b = a
      BY <1>3, <2>1, <3>1, <3>2, <3>3
    <3>4. CASE b # a
      <4>1. printed'[b] = printed[b]
        BY <1>3, <3>4
      <4> QED BY <3>1, <3>2, <4>1 DEF CodeIsEarned
    <3> QED BY <3>3, <3>4
  <2> QED BY <2>2 DEF CodeIsEarned
<1> QED BY <1>5, <1>6, <1>7

\* The container ends: with 0 after the last step, unless its checkout is another's.
LEMMA ExitStep == ASSUME EInv, NEW a \in Attempts, container_exits(a) PROVE EInv'
<1> USE DEF EInv
<1>1. /\ pc[a] = "running" /\ exited[a] = None /\ printed[a] \in Seq(Mark)
      /\ UNCHANGED <<pc, cancel, code, services, workspace, network, service, job, archive,
                     packed, printed, mounted, met, left>>
  BY DEF container_exits, Live, flow, docker, packing, ExecTypes
<1>2. PICK c \in {0, 1} :
        /\ \/ c = 0 /\ Len(printed[a]) = Len(Script) /\ ~Open(printed[a])
           \/ c = 1 /\ Open(printed[a])
           \/ mounted[a] # a \/ workspace # a
        /\ exited' = [exited EXCEPT ![a] = c]
  BY DEF container_exits
<1>3. /\ exited' \in [Attempts -> Nat \cup {None}] /\ exited'[a] = c
      /\ \A b \in Attempts \ {a} : exited'[b] = exited[b]
  BY <1>2 DEF ExecTypes
<1>4. Busy' = Busy /\ a \in Busy
  BY <1>1 DEF Busy
<1>5. ExecTypes'
  BY <1>1, <1>3 DEF ExecTypes
<1>6. NetworkGuards' /\ MadeIsRemembered' /\ AloneInItsCheckout'
  BY <1>1, <1>4 DEF NetworkGuards, MadeIsRemembered, AloneInItsCheckout
<1>7. ASSUME c = 0, a \notin met
      PROVE  /\ mounted[a] = a /\ Len(printed[a]) = Len(Script)
             /\ \A i \in 1..Len(Script) : printed[a][i].completed
  <2>1. mounted[a] = a /\ workspace = a
    BY <1>1, <1>4, <1>7 DEF AloneInItsCheckout
  <2>2. Len(printed[a]) = Len(Script) /\ ~Open(printed[a])
    BY <1>2, <1>7, <2>1
  <2>3. ASSUME NEW i \in 1..Len(Script) PROVE printed[a][i].completed
    <3>1. CASE i = Len(printed[a])
      BY <1>1, <2>2, <3>1 DEF Open, Last
    <3>2. CASE i # Len(printed[a])
      BY <1>1, <2>2, <3>2 DEF CodeIsEarned
    <3> QED BY <3>1, <3>2
  <2> QED BY <2>1, <2>2, <2>3
<1>8. code[a] = None /\ code[a] # 0
  BY <1>1 DEF CodeIsEarned, Before
<1>9. CodeIsEarned'
  BY <1>1, <1>3, <1>7, <1>8 DEF CodeIsEarned
<1> QED BY <1>5, <1>6, <1>9

\* The finally blocks, by names that every attempt of the job shares: what is not removed
\* is left.
LEMMA RemoveStep ==
  ASSUME EInv, NEW a \in Attempts, rm_job(a) \/ rm_services(a) \/ rm_network(a)
  PROVE  EInv'
<1> USE DEF EInv
<1>1. UNCHANGED <<cancel, code, workspace, archive, packed, printed, mounted, exited, met>>
  BY DEF rm_job, rm_services, rm_network, packing
<1>2. pc[a] \in {"rm_job", "rm_services", "rm_network"} /\ network = a
  BY DEF rm_job, rm_services, rm_network, NetworkGuards, Inside
<1>3. \A b \in Attempts \ {a} : pc[b] \notin Inside /\ ~services[b]
  BY <1>2 DEF NetworkGuards, Inside
<1>4. ASSUME NEW step \in {"rm_services", "rm_network", "packing", "cleaning"}, Go(a, step),
             step \in Inside => network' = network /\ ("network" \in left' <=> "network" \in left),
             step \notin Inside => pc[a] = "rm_network",
             network' \in {network, None}, job' \in {job, None}, service' \in {service, None},
             services' \in [Attempts -> BOOLEAN],
             \A b \in Attempts \ {a} : services'[b] = services[b],
             services'[a] => services[a] /\ step = "rm_services" /\ service' = service,
             "workspace" \in left' <=> "workspace" \in left,
             "archive" \in left' <=> "archive" \in left,
             step \notin Inside => network' = None \/ "network" \in left',
             job' = None \/ "job" \in left',
             service' # None /\ "service" \notin left'
               => service # None /\ "service" \notin left /\ services'[a]
      PROVE  EInv'
  <2>1. /\ pc' \in [Attempts -> Places] /\ pc'[a] = step /\ Busy' = Busy /\ a \in Busy
        /\ \A b \in Attempts \ {a} : pc'[b] = pc[b]
    BY <1>2, <1>4, Moved DEF Places, Inside
  <2>2. ExecTypes'
    BY <1>1, <1>4, <2>1 DEF ExecTypes
  <2>3. NetworkGuards'
    BY <1>2, <1>3, <1>4, <2>1 DEF NetworkGuards, Inside, Started, Past, ExecTypes
  <2>4. MadeIsRemembered'
    <3>1. network' # None /\ "network" \notin left' => pc'[network'] \in Inside
      BY <1>2, <1>4, <2>1
    <3>2. service' # None /\ "service" \notin left' => services'[service']
      BY <1>3, <1>4 DEF MadeIsRemembered, ExecTypes
    <3>3. workspace' # None /\ "workspace" \notin left'
            => pc'[workspace'] \notin {"idle", "reporting", "over"}
      BY <1>1, <1>2, <1>4, <2>1 DEF MadeIsRemembered, ExecTypes
    <3>4. archive' # None /\ "archive" \notin left'
            => pc'[archive'] \in {"cleaning", "reporting"} /\ archive' \in packed'
      BY <1>1, <1>2, <1>4, <2>1 DEF MadeIsRemembered, ExecTypes
    <3> QED BY <1>4, <3>1, <3>2, <3>3, <3>4 DEF MadeIsRemembered
  <2>5. AloneInItsCheckout'
    BY <1>1, <1>2, <1>4, <2>1 DEF AloneInItsCheckout, Busy
  <2>6. CodeIsEarned'
    BY <1>1, <1>4, <2>1 DEF CodeIsEarned, Before
  <2> QED BY <2>2, <2>3, <2>4, <2>5, <2>6
<1>5. /\ services \in [Attempts -> BOOLEAN]
      /\ service # None /\ "service" \notin left => services[a]
      /\ pc[a] # "rm_job" => job = None \/ "job" \in left
  <2>1. job # None /\ "job" \notin left => pc[job] \in Inside /\ pc[job] \in {"running", "rm_job"}
    BY DEF MadeIsRemembered, Inside
  <2>2. service # None => service \in Attempts
    BY DEF ExecTypes
  <2>3. job # None => job \in Attempts
    BY DEF ExecTypes
  <2> QED BY <1>2, <1>3, <2>1, <2>2, <2>3 DEF MadeIsRemembered, ExecTypes
<1>6. CASE rm_job(a)
  <2>1. /\ pc[a] = "rm_job" /\ Go(a, "rm_services") /\ UNCHANGED <<services, network, service>>
        /\ \/ job' = None /\ left' = left \ {"job"}
           \/ job' = job /\ left' = left \cup {"job"}
    BY <1>6 DEF rm_job, Stays, Removed
  <2>2. /\ \A x \in {"network", "service", "workspace", "archive"} : x \in left' <=> x \in left
        /\ job' \in {job, None} /\ (job' = None \/ "job" \in left')
    BY <2>1
  <2>3. /\ "network" \in left' <=> "network" \in left
        /\ "service" \in left' <=> "service" \in left
        /\ "workspace" \in left' <=> "workspace" \in left
        /\ "archive" \in left' <=> "archive" \in left
    BY <2>2
  <2> HIDE DEF EInv
  <2> QED BY <1>4, <1>5, <2>1, <2>2, <2>3 DEF Inside
<1>7. CASE rm_services(a)
  <2>1. /\ pc[a] = "rm_services" /\ Go(a, "rm_network") /\ UNCHANGED <<network, job>>
        /\ \/ services[a] /\ service' = None /\ left' = left \ {"service"}
           \/ services[a] /\ service' = service /\ left' = left \cup {"service"}
           \/ ~services[a] /\ service' = service /\ left' = left
        /\ services' = [services EXCEPT ![a] = FALSE]
    BY <1>7 DEF rm_services, remembered, Stays, Removed
  <2>2. /\ services' \in [Attempts -> BOOLEAN] /\ ~services'[a]
        /\ \A b \in Attempts \ {a} : services'[b] = services[b]
    BY <1>5, <2>1
  <2>3. /\ "network" \in left' <=> "network" \in left
        /\ "job" \in left' <=> "job" \in left
        /\ "workspace" \in left' <=> "workspace" \in left
        /\ "archive" \in left' <=> "archive" \in left
    BY <2>1
  <2>4. service' \in {service, None} /\ (service' = None \/ "service" \in left')
    BY <1>5, <2>1
  <2>5. job = None \/ "job" \in left
    BY <1>5, <2>1
  <2> HIDE DEF EInv
  <2> QED BY <1>4, <2>1, <2>2, <2>3, <2>4, <2>5 DEF Inside
<1>8. CASE rm_network(a)
  <2>1. /\ pc[a] = "rm_network" /\ (Go(a, "cleaning") \/ Go(a, "packing"))
        /\ UNCHANGED <<services, service, job>>
        /\ \/ network' = None /\ left' = left \ {"network"}
           \/ network' = network /\ left' = left \cup {"network"}
    BY <1>8 DEF rm_network, Stays, Removed
  <2>2. /\ network' \in {network, None} /\ (network' = None \/ "network" \in left')
        /\ "service" \in left' <=> "service" \in left
        /\ "job" \in left' <=> "job" \in left
        /\ "workspace" \in left' <=> "workspace" \in left
        /\ "archive" \in left' <=> "archive" \in left
    BY <2>1
  <2>3. ~services[a] /\ (job = None \/ "job" \in left)
    BY <1>5, <2>1 DEF NetworkGuards
  <2> HIDE DEF EInv
  <2> QED BY <1>4, <1>5, <2>1, <2>2, <2>3 DEF Inside
<1> QED BY <1>6, <1>7, <1>8

\* After the containers: the archive is packed, the workspace removed, whosever it is.
LEMMA PackStep ==
  ASSUME EInv, NEW a \in Attempts, pack_artifacts(a) \/ cleanup_workspace(a)
  PROVE  EInv'
<1> USE DEF EInv
<1>1. UNCHANGED <<cancel, services, network, service, job, printed, mounted, exited, met>>
  BY DEF pack_artifacts, cleanup_workspace, docker
<1>2. ASSUME NEW step, \/ pc[a] = "packing" /\ step = "cleaning"
                       \/ pc[a] = "cleaning" /\ step = "reporting",
             Go(a, step), step = "reporting" => archive' = archive /\ packed' = packed,
             code' \in [Attempts -> Nat \cup {None}], code'[a] \in {code[a], 1},
             \A b \in Attempts \ {a} : code'[b] = code[b],
             step = "cleaning" => workspace' = workspace,
             step = "reporting" => workspace' \in {a, None},
             archive' \in {archive, a, None}, packed' \in SUBSET Attempts,
             packed \subseteq packed',
             "network" \in left' <=> "network" \in left,
             "service" \in left' <=> "service" \in left,
             "job" \in left' <=> "job" \in left,
             step = "cleaning" => ("workspace" \in left' <=> "workspace" \in left),
             step = "reporting" => ("archive" \in left' <=> "archive" \in left),
             step = "reporting" => workspace' = None \/ "workspace" \in left',
             step = "cleaning" /\ archive' # None /\ "archive" \notin left'
               => \/ archive' = archive /\ "archive" \notin left
                  \/ archive' = a /\ a \in packed'
      PROVE  EInv'
  <2>1. /\ pc' \in [Attempts -> Places] /\ pc'[a] = step /\ Busy' = Busy /\ a \in Busy
        /\ \A b \in Attempts \ {a} : pc'[b] = pc[b]
    BY <1>2, Moved DEF Places, Inside
  <2>2. ExecTypes'
    BY <1>1, <1>2, <2>1 DEF ExecTypes
  <2>3. NetworkGuards'
    BY <1>1, <1>2, <2>1 DEF NetworkGuards, Inside, Started, Past, ExecTypes
  <2>4. MadeIsRemembered'
    BY <1>1, <1>2, <2>1 DEF MadeIsRemembered, ExecTypes, Inside
  <2>5. AloneInItsCheckout'
    BY <1>1, <1>2, <2>1 DEF AloneInItsCheckout, Busy
  <2>6. CodeIsEarned'
    BY <1>1, <1>2, <2>1 DEF CodeIsEarned, Before
  <2> QED BY <2>2, <2>3, <2>4, <2>5, <2>6
<1>3. packed \in SUBSET Attempts /\ code \in [Attempts -> Nat \cup {None}]
  BY DEF ExecTypes
<1>4. CASE pack_artifacts(a)
  <2>1. /\ pc[a] = "packing" /\ Go(a, "cleaning") /\ workspace' = workspace
        /\ code' = code \/ code' = [code EXCEPT ![a] = 1]
    BY <1>4 DEF pack_artifacts, Ends
  <2>2. \/ archive' = a /\ packed' = packed \cup {a} /\ left' = left \ {"archive"}
        \/ archive' = archive /\ packed' = packed /\ left' = left
        \/ archive' = None /\ packed' = packed /\ left' = left \ {"archive"}
        \/ archive' = a /\ packed' = packed /\ left' = left \cup {"archive"}
    BY <1>4 DEF pack_artifacts, packing, Stays, Removed
  <2>3. packed' \in SUBSET Attempts /\ packed \subseteq packed' /\ archive' \in {archive, a, None}
    BY <1>3, <2>2
  <2>4. /\ "network" \in left' <=> "network" \in left
        /\ "service" \in left' <=> "service" \in left
        /\ "job" \in left' <=> "job" \in left
        /\ "workspace" \in left' <=> "workspace" \in left
    BY <2>2
  <2>5. archive' # None /\ "archive" \notin left'
          => \/ archive' = archive /\ "archive" \notin left
             \/ archive' = a /\ a \in packed'
    BY <2>2
  <2>6. /\ code' \in [Attempts -> Nat \cup {None}] /\ code'[a] \in {code[a], 1}
        /\ \A b \in Attempts \ {a} : code'[b] = code[b]
    BY <1>3, <2>1
  <2> HIDE DEF EInv
  <2> QED BY <1>2, <2>1, <2>3, <2>4, <2>5, <2>6
<1>5. CASE cleanup_workspace(a)
  <2>1. /\ pc[a] = "cleaning" /\ Go(a, "reporting") /\ UNCHANGED <<archive, packed, code>>
        /\ \/ workspace' = None /\ left' = left \ {"workspace"}
           \/ workspace' = a /\ left' = left \cup {"workspace"}
    BY <1>5 DEF cleanup_workspace, packing, Stays, Removed
  <2>2. /\ "network" \in left' <=> "network" \in left
        /\ "service" \in left' <=> "service" \in left
        /\ "job" \in left' <=> "job" \in left
        /\ "archive" \in left' <=> "archive" \in left
        /\ workspace' \in {a, None} /\ (workspace' = None \/ "workspace" \in left')
    BY <2>1
  <2> HIDE DEF EInv
  <2> QED BY <1>2, <1>3, <2>1, <2>2
<1> QED BY <1>4, <1>5

\* The time limit, or a lost lease: only before an exit code is had.
LEMMA CancelStep == ASSUME EInv, NEW a \in Attempts, timer(a) \/ LoseLease(a) PROVE EInv'
<1> USE DEF EInv
<1>1. /\ cancel' = [cancel EXCEPT ![a] = TRUE]
      /\ UNCHANGED <<pc, code, services, workspace, network, service, job, archive, packed,
                     printed, mounted, exited, met, left>>
  BY DEF timer, LoseLease, docker, packing, seen
<1>2. code[a] = None
  BY DEF timer, LoseLease, CodeIsEarned, Before
<1>3. ExecTypes' /\ \A b \in Attempts \ {a} : cancel'[b] = cancel[b]
  BY <1>1 DEF ExecTypes
<1>4. Busy' = Busy
  BY <1>1 DEF Busy
<1>5. NetworkGuards' /\ MadeIsRemembered' /\ AloneInItsCheckout'
  BY <1>1, <1>4 DEF NetworkGuards, MadeIsRemembered, AloneInItsCheckout
<1>6. code[a] # 0
  BY <1>2
<1>7. CodeIsEarned'
  BY <1>1, <1>3, <1>6 DEF CodeIsEarned
<1> QED BY <1>3, <1>5, <1>7

\* An attempt has reported, or the agent died with those under way.
LEMMA ForgetStep ==
  ASSUME EInv, NEW those \in SUBSET Busy, Forget(those),
         UNCHANGED <<workspace, network, service, job>>, archive' \in {archive, None},
         \/ Held' \subseteq left'
         \/ /\ those = {} \/ \E a \in Attempts : those = {a} /\ pc[a] = "reporting"
            /\ left \ {"archive"} \subseteq left'
            /\ archive' # None /\ "archive" \notin left'
                 => "archive" \notin left /\ archive \notin those
  PROVE  EInv'
<1> USE DEF EInv
<1>1. /\ those \subseteq Attempts
      /\ \A a \in those : pc[a] \notin {"idle", "over"}
  BY DEF Busy
<1>2. /\ \A a \in those : /\ pc'[a] = "over" /\ code'[a] = None /\ printed'[a] = <<>>
                          /\ exited'[a] = None /\ mounted'[a] = None
      /\ \A a \in Attempts \ those :
           /\ pc'[a] = pc[a] /\ code'[a] = code[a] /\ printed'[a] = printed[a]
           /\ exited'[a] = exited[a] /\ mounted'[a] = mounted[a]
           /\ cancel'[a] = cancel[a] /\ services'[a] = services[a]
      /\ met' = met \ those /\ packed' = packed \ those
  BY <1>1 DEF Forget
<1>3. ExecTypes'
  <2>1. /\ pc' \in [Attempts -> Places] /\ code' \in [Attempts -> Nat \cup {None}]
        /\ exited' \in [Attempts -> Nat \cup {None}]
        /\ mounted' \in [Attempts -> Attempts \cup {None}]
    BY DEF Forget, ExecTypes, Places
  <2>2. cancel' \in [Attempts -> BOOLEAN] /\ services' \in [Attempts -> BOOLEAN]
    BY DEF Forget, ExecTypes
  <2>3. <<>> \in Seq(Mark)
    OBVIOUS
  <2>4. printed' \in [Attempts -> Seq(Mark)]
    BY <2>3 DEF Forget, ExecTypes
  <2>5. met' \in SUBSET Attempts /\ packed' \in SUBSET Attempts
    BY <1>2 DEF ExecTypes
  <2> QED BY <2>1, <2>2, <2>4, <2>5 DEF ExecTypes
<1>4. NetworkGuards'
  <2>1. \A a \in those : ~services'[a]
    BY <1>1 DEF Forget
  <2> QED BY <1>1, <1>2, <2>1 DEF NetworkGuards, Inside, Started, Past, ExecTypes
<1>5. MadeIsRemembered'
  <2>1. CASE Held' \subseteq left'
    BY <2>1 DEF MadeIsRemembered, Held, Device
  <2>2. CASE /\ those = {} \/ \E a \in Attempts : those = {a} /\ pc[a] = "reporting"
             /\ left \ {"archive"} \subseteq left'
             /\ archive' # None /\ "archive" \notin left'
                  => "archive" \notin left /\ archive \notin those
    <3>1. \A a \in those : pc[a] = "reporting" /\ ~services[a]
      BY <2>2 DEF NetworkGuards
    <3>2. /\ "network" \in left => "network" \in left'
          /\ "service" \in left => "service" \in left'
          /\ "job" \in left => "job" \in left'
          /\ "workspace" \in left => "workspace" \in left'
      BY <2>2
    <3> QED BY <1>1, <1>2, <2>2, <3>1, <3>2 DEF MadeIsRemembered, ExecTypes, Inside
  <2> QED BY <2>1, <2>2
<1>6. Busy' = Busy \ those
  BY <1>1, <1>2 DEF Busy
<1>7. AloneInItsCheckout'
  BY <1>1, <1>2, <1>6 DEF AloneInItsCheckout, Busy
<1>8. CodeIsEarned'
  <2> SUFFICES ASSUME NEW a \in Attempts
               PROVE  /\ \A i \in 1..Len(printed'[a]) - 1 : printed'[a][i].completed
                      /\ exited'[a] = 0 /\ a \notin met' =>
                           /\ mounted'[a] = a /\ Len(printed'[a]) = Len(Script)
                           /\ \A i \in 1..Len(Script) : printed'[a][i].completed
                      /\ pc'[a] \in Before => code'[a] = None
                      /\ code'[a] = 0 => exited'[a] = 0 /\ ~cancel'[a]
    BY DEF CodeIsEarned
  <2>1. CASE a \in those
    BY <1>2, <2>1
  <2>2. CASE a \notin those
    BY <1>2, <2>2 DEF CodeIsEarned
  <2> QED BY <2>1, <2>2
<1> QED BY <1>3, <1>4, <1>5, <1>7, <1>8

LEMMA EndStep == ASSUME EInv, Crash \/ \E a \in Attempts : report(a) PROVE EInv'
<1>1. CASE Crash
  <2>1. UNCHANGED <<workspace, network, service, job, archive>> /\ left' = Held /\ Forget(Busy)
    BY <1>1 DEF Crash, docker
  <2>2. Held' = Held
    BY <2>1 DEF Held, Device
  <2> QED BY <2>1, <2>2, ForgetStep
<1>2. ASSUME NEW a \in Attempts, report(a) PROVE EInv'
  <2>1. /\ pc[a] = "reporting" /\ Forget({a}) /\ {a} \in SUBSET Busy
        /\ UNCHANGED <<workspace, network, service, job>>
        /\ \/ archive' = None /\ left' = left \ {"archive"}
           \/ archive' = archive /\ left' = left \cup {"archive"}
           \/ a \notin packed /\ archive' = archive /\ left' = left
    BY <1>2 DEF report, docker, Busy, Stays, Removed
  <2>2. archive' # None /\ "archive" \notin left' => "archive" \notin left /\ archive # a
    BY <2>1 DEF EInv, MadeIsRemembered
  <2>3. archive' \in {archive, None} /\ left \ {"archive"} \subseteq left'
    BY <2>1
  <2> QED BY <2>1, <2>2, <2>3, ForgetStep
<1> QED BY <1>1, <1>2

LEMMA NextE == EInv /\ [Next]_vars => EInv'
<1> SUFFICES ASSUME EInv, [Next]_vars PROVE EInv'
  OBVIOUS
<1>1. CASE UNCHANGED vars
  <2>1. /\ Busy' = Busy
        /\ UNCHANGED <<pc, cancel, code, services, workspace, network, service, job, archive,
                       packed, printed, mounted, exited, met, left>>
    BY <1>1 DEF vars, flow, docker, packing, seen, Busy
  <2> QED BY <2>1 DEF EInv, ExecTypes, NetworkGuards, MadeIsRemembered, AloneInItsCheckout,
                      CodeIsEarned
<1>2. CASE Next
  BY <1>2, ExecuteStep, FlowSteps, NetworkStep, ServiceStep, StartStep, ScriptStep, ExitStep,
     RemoveStep, PackStep, CancelStep, EndStep DEF Next
<1> QED BY <1>1, <1>2

-----------------------------------------------------------------------------
(* The records of an attempt's script *)

LogTypes == log \in [Attempts -> Seq(Mark)] /\ DOMAIN stored = Attempts
RecInv == EInv /\ LogTypes /\ RecordsAreTrue

LEMMA InitRec == Init => LogTypes /\ RecordsAreTrue
<1> SUFFICES ASSUME Init PROVE LogTypes /\ RecordsAreTrue
  OBVIOUS
<1>1. <<>> \in Seq(Mark) /\ Len(<<>>) = 0
  OBVIOUS
<1> QED BY <1>1 DEF Init, LogTypes, RecordsAreTrue

\* A step that writes no log and neither begins nor ends a report.
LEMMA QuietRec ==
  ASSUME LogTypes, RecordsAreTrue, UNCHANGED <<log, stored, printed, met>>,
         \A a \in Attempts : pc'[a] = "reporting" <=> pc[a] = "reporting"
  PROVE  LogTypes' /\ RecordsAreTrue'
BY DEF LogTypes, RecordsAreTrue

LEMMA QuietStepsRec ==
  ASSUME RecInv, NEW a \in Attempts,
         \/ prepare(a) \/ create_network(a) \/ start_service(a) \/ wait_for_services(a)
         \/ start_job(a) \/ container_exits(a) \/ client_returns(a) \/ rm_job(a)
         \/ rm_services(a) \/ rm_network(a) \/ pack_artifacts(a) \/ timer(a) \/ LoseLease(a)
  PROVE  LogTypes' /\ RecordsAreTrue'
<1>1. UNCHANGED <<log, stored, printed, met>>
  BY DEF prepare, create_network, start_service, wait_for_services, start_job, container_exits,
         client_returns, rm_job, rm_services, rm_network, pack_artifacts, timer, LoseLease, seen
<1>2. \/ pc' = pc
      \/ \E step : step # "reporting" /\ Go(a, step) /\ pc[a] # "reporting"
  BY DEF prepare, create_network, start_service, wait_for_services, start_job, container_exits,
         client_returns, rm_job, rm_services, rm_network, pack_artifacts, timer, LoseLease,
         flow, Ends, refused_network
<1>3. \A b \in Attempts : pc'[b] = "reporting" <=> pc[b] = "reporting"
  BY <1>2 DEF Go, RecInv, EInv, ExecTypes
<1> QED BY <1>1, <1>3, QuietRec DEF RecInv

\* execute: the log is opened anew under those who are on the device, and they have met.
LEMMA ExecuteRec ==
  ASSUME RecInv, NEW a \in Attempts, execute(a)
  PROVE  LogTypes' /\ RecordsAreTrue'
<1> USE DEF RecInv
<1>1. /\ pc[a] = "idle"
      /\ Go(a, "preparing") \/ Go(a, "cleaning")
      /\ UNCHANGED <<stored, printed>>
      /\ log' = [b \in Attempts |-> IF b \in Busy THEN <<>> ELSE log[b]]
      /\ met' = IF Busy = {} THEN met ELSE met \cup Busy \cup {a}
  BY DEF execute
<1>2. \A b \in Attempts : pc'[b] = "reporting" <=> pc[b] = "reporting"
  BY <1>1 DEF Go, EInv, ExecTypes
<1>3. LogTypes'
  <2>1. <<>> \in Seq(Mark)
    OBVIOUS
  <2> QED BY <1>1, <2>1 DEF LogTypes
<1>4. \A b \in Attempts \ met' : b \notin met /\ log'[b] = log[b]
  BY <1>1
<1> QED BY <1>1, <1>2, <1>3, <1>4 DEF RecordsAreTrue

\* announce, step_passes: what the script prints is in its log.
LEMMA PrintRec ==
  ASSUME RecInv, NEW a \in Attempts, NEW marks \in Seq(Mark), NEW lines \in Seq(Mark),
         printed' = [printed EXCEPT ![a] = marks], log' = [log EXCEPT ![a] = lines],
         \A i \in 1..Len(marks) : marks[i].index = i,
         log[a] = printed[a] => lines = marks,
         pc[a] # "reporting", UNCHANGED <<pc, stored, met>>
  PROVE  LogTypes' /\ RecordsAreTrue'
<1> USE DEF RecInv
<1>1. LogTypes'
  BY DEF LogTypes
<1>2. /\ printed'[a] = marks /\ log'[a] = lines
      /\ \A b \in Attempts \ {a} : printed'[b] = printed[b] /\ log'[b] = log[b]
  BY DEF LogTypes, EInv, ExecTypes
<1> QED BY <1>1, <1>2 DEF RecordsAreTrue

LEMMA AnnounceRec ==
  ASSUME RecInv, NEW a \in Attempts, announce(a)
  PROVE  LogTypes' /\ RecordsAreTrue'
<1> DEFINE n == Len(printed[a])
           mark(c) == [index |-> n + 1, cost |-> c, completed |-> FALSE]
<1>1. printed[a] \in Seq(Mark) /\ log[a] \in Seq(Mark) /\ n \in Nat
  BY DEF RecInv, EInv, ExecTypes, LogTypes
<1>2. PICK c \in Script[n + 1] :
        /\ printed' = [printed EXCEPT ![a] = Append(printed[a], mark(c))]
        /\ log' = [log EXCEPT ![a] = Append(log[a], mark(c))]
  BY DEF announce
<1>3. mark(c) \in Mark
  <2>1. n + 1 \in 1..Len(Script)
    BY <1>1 DEF announce
  <2>2. Script[n + 1] \subseteq Nat
    BY <2>1
  <2> QED BY <1>1, <2>2 DEF Mark
<1> DEFINE marks == Append(printed[a], mark(c))
           lines == Append(log[a], mark(c))
<1>4. marks \in Seq(Mark) /\ lines \in Seq(Mark)
  <2> HIDE DEF mark
  <2> QED BY <1>1, <1>3
<1>5. \A i \in 1..Len(marks) : marks[i].index = i
  <2>1. \A i \in 1..n : printed[a][i].index = i
    BY DEF RecInv, RecordsAreTrue
  <2>2. mark(c).index = n + 1
    OBVIOUS
  <2> HIDE DEF mark
  <2>3. Len(marks) = n + 1 /\ marks[n + 1] = mark(c) /\ \A i \in 1..n : marks[i] = printed[a][i]
    BY <1>1, <1>3
  <2> HIDE DEF marks
  <2> QED BY <1>1, <2>1, <2>2, <2>3
<1>6. pc[a] # "reporting" /\ UNCHANGED <<pc, stored, met>>
  BY DEF announce, Live, flow, seen
<1> HIDE DEF mark
<1> QED BY <1>2, <1>4, <1>5, <1>6, PrintRec

LEMMA PassRec ==
  ASSUME RecInv, NEW a \in Attempts, step_passes(a)
  PROVE  LogTypes' /\ RecordsAreTrue'
<1> DEFINE closed(s) == [s EXCEPT ![Len(s)].completed = TRUE]
           marks == closed(printed[a])
           lines == IF log[a] = <<>> THEN <<>> ELSE closed(log[a])
<1>1. printed[a] \in Seq(Mark) /\ log[a] \in Seq(Mark) /\ printed[a] # <<>>
  BY DEF RecInv, EInv, ExecTypes, LogTypes, step_passes, Open
<1>2. ASSUME NEW s \in Seq(Mark), s # <<>>
      PROVE  /\ closed(s) \in Seq(Mark) /\ Len(closed(s)) = Len(s)
             /\ \A i \in 1..Len(s) : closed(s)[i].index = s[i].index
  <2>1. Len(s) \in 1..Len(s) /\ s[Len(s)] \in Mark
    BY <1>2
  <2> DEFINE x == [s[Len(s)] EXCEPT !.completed = TRUE]
  <2>2. x \in Mark /\ x.index = s[Len(s)].index
    BY <2>1 DEF Mark
  <2>3. closed(s) = [s EXCEPT ![Len(s)] = x]
    OBVIOUS
  <2> HIDE DEF x, closed
  <2>4. closed(s) \in Seq(Mark) /\ Len(closed(s)) = Len(s)
    BY <2>1, <2>2, <2>3, Replaced
  <2>5. \A i \in 1..Len(s) : closed(s)[i] = IF i = Len(s) THEN x ELSE s[i]
    BY <1>2, <2>3
  <2> QED BY <2>2, <2>4, <2>5
<1>3. /\ printed' = [printed EXCEPT ![a] = marks]
      /\ log' = [log EXCEPT ![a] = lines]
  <2>1. printed' = [printed EXCEPT ![a] = marks]
    BY DEF step_passes
  <2>2. CASE log[a] = <<>>
    BY <2>2 DEF step_passes, RecInv, LogTypes
  <2>3. CASE log[a] # <<>>
    BY <2>3 DEF step_passes
  <2> QED BY <2>1, <2>2, <2>3
<1> HIDE DEF closed
<1>4. /\ marks \in Seq(Mark) /\ Len(marks) = Len(printed[a])
      /\ \A i \in 1..Len(marks) : marks[i].index = printed[a][i].index
  BY <1>1, <1>2
<1>5. lines \in Seq(Mark)
  <2>1. <<>> \in Seq(Mark)
    OBVIOUS
  <2> QED BY <1>1, <1>2, <2>1
<1>6. \A i \in 1..Len(marks) : marks[i].index = i
  BY <1>4 DEF RecInv, RecordsAreTrue
<1>7. pc[a] # "reporting" /\ UNCHANGED <<pc, stored, met>>
  BY DEF step_passes, Live, flow, seen
<1>8. log[a] = printed[a] => lines = marks
  BY <1>1
<1> HIDE DEF marks, lines
<1> QED BY <1>3, <1>4, <1>5, <1>6, <1>7, <1>8, PrintRec

\* cleanup_workspace: the whole log is read, and what comes of it is stored.
LEMMA CleanupRec ==
  ASSUME RecInv, NEW a \in Attempts, cleanup_workspace(a)
  PROVE  LogTypes' /\ RecordsAreTrue'
<1> USE DEF RecInv
<1> DEFINE marks == completed_log(a)
<1>1. stored' = [stored EXCEPT ![a] = encode_steps(parse_steps(marks))]
  BY DEF cleanup_workspace
<1>2. /\ pc[a] = "cleaning" /\ Go(a, "reporting") /\ log' = [log EXCEPT ![a] = <<>>]
      /\ UNCHANGED <<printed, met>>
  BY DEF cleanup_workspace, seen
<1>3. a \notin met => marks = printed[a]
  BY <1>1, <1>2 DEF completed_log, RecordsAreTrue
<1>4. LogTypes'
  <2>1. <<>> \in Seq(Mark)
    OBVIOUS
  <2> QED BY <1>1, <1>2, <2>1 DEF LogTypes
<1>5. /\ pc'[a] = "reporting" /\ \A b \in Attempts \ {a} : pc'[b] = pc[b] /\ log'[b] = log[b]
      /\ stored'[a] = encode_steps(parse_steps(marks))
      /\ \A b \in Attempts \ {a} : stored'[b] = stored[b]
  BY <1>1, <1>2 DEF Go, LogTypes, EInv, ExecTypes
<1> QED BY <1>2, <1>3, <1>4, <1>5 DEF RecordsAreTrue

\* report, Crash: nothing is left of those who are over.
LEMMA ForgetRec ==
  ASSUME RecInv, NEW those \in SUBSET Busy, Forget(those)
  PROVE  LogTypes' /\ RecordsAreTrue'
<1> USE DEF RecInv
<1>1. /\ those \subseteq Attempts
      /\ \A a \in those : pc'[a] = "over" /\ log'[a] = <<>> /\ printed'[a] = <<>>
      /\ \A a \in Attempts \ those :
           /\ pc'[a] = pc[a] /\ log'[a] = log[a] /\ printed'[a] = printed[a]
           /\ stored'[a] = stored[a]
      /\ met' = met \ those
  BY DEF Forget, Busy
<1>2. LogTypes'
  <2>1. <<>> \in Seq(Mark)
    OBVIOUS
  <2> QED BY <2>1 DEF LogTypes, Forget
<1>3. ASSUME NEW a \in Attempts
      PROVE  /\ \A i \in 1..Len(printed'[a]) : printed'[a][i].index = i
             /\ a \notin met' =>
                  /\ pc'[a] # "reporting" => log'[a] = printed'[a]
                  /\ pc'[a] = "reporting" =>
                       stored'[a] = encode_steps(parse_steps(printed'[a]))
  <2>1. CASE a \in those
    <3>1. Len(<<>>) = 0
      OBVIOUS
    <3> QED BY <1>1, <2>1, <3>1
  <2>2. CASE a \notin those
    BY <1>1, <2>2 DEF RecordsAreTrue
  <2> QED BY <2>1, <2>2
<1> QED BY <1>2, <1>3 DEF RecordsAreTrue

LEMMA NextRec == RecInv /\ [Next]_vars => RecInv'
<1> SUFFICES ASSUME RecInv, [Next]_vars PROVE LogTypes' /\ RecordsAreTrue'
  BY NextE DEF RecInv
<1>1. CASE UNCHANGED vars
  BY <1>1, QuietRec DEF RecInv, vars, flow, seen
<1>2. ASSUME NEW a \in Attempts, report(a) PROVE LogTypes' /\ RecordsAreTrue'
  <2>1. {a} \in SUBSET Busy /\ Forget({a})
    BY <1>2 DEF report, Busy
  <2> QED BY <2>1, ForgetRec
<1>3. CASE Crash
  BY <1>3, ForgetRec DEF Crash
<1>4. CASE Next
  BY <1>2, <1>3, <1>4, QuietStepsRec, ExecuteRec, AnnounceRec, PassRec, CleanupRec DEF Next
<1> QED BY <1>1, <1>4

-----------------------------------------------------------------------------
(* What the records say: Steps and CheckSummary as operators *)

\* Of any numbers one is the least.
LEMMA LeastOf ==
  ASSUME NEW S \in SUBSET Nat, S # {}
  PROVE  \E x \in S : \A y \in S : x <= y
<1> DEFINE Less == {p \in Nat \X Nat : p[1] < p[2]}
<1>1. IsWellFoundedOn(Less, Nat)
  BY NatLessThanWellFounded DEF OpToRel
<1>2. \E m \in S : \A x \in S : ~(<<x, m>> \in Less)
  <2> HIDE DEF Less
  <2> QED BY <1>1, WFMin
<1>3. PICK m \in S : \A x \in S : ~(x < m)
  BY <1>2
<1>4. \A x \in S : x \in Nat /\ m \in Nat
  OBVIOUS
<1> QED BY <1>3, <1>4

\* Of numbers up to a bound one is the greatest.
LEMMA GreatestOf ==
  ASSUME NEW b \in Nat, NEW S \in SUBSET (0..b), S # {}
  PROVE  \E x \in S : \A y \in S : y <= x
<1> DEFINE Bounds == {x \in Nat : \A y \in S : y <= x}
<1>1. b \in Bounds
  OBVIOUS
<1>2. PICK m \in Bounds : \A x \in Bounds : m <= x
  <2>1. Bounds \in SUBSET Nat /\ Bounds # {}
    BY <1>1
  <2> HIDE DEF Bounds
  <2> QED BY <2>1, LeastOf
<1>3. m \in S
  <2> SUFFICES ASSUME m \notin S PROVE FALSE
    OBVIOUS
  <2>0. m \in Nat /\ \A y \in S : y \in Nat /\ y <= m /\ y # m
    OBVIOUS
  <2>1. m \in Nat /\ m # 0 /\ \A y \in S : y \in Nat /\ y <= m /\ y # m
    <3>1. PICK y \in S : TRUE
      OBVIOUS
    <3> QED BY <2>0, <3>1
  <2>2. m - 1 \in Bounds
    BY <2>1
  <2> QED BY <1>2, <2>1, <2>2
<1> QED BY <1>3

LEMMA CountTo == ASSUME NEW n \in Nat PROVE IsFiniteSet(1..n) /\ Cardinality(1..n) = n
<1>1. n \in Int /\ 1 \in Int
  OBVIOUS
<1>2. IsFiniteSet(1..n) /\ Cardinality(1..n) = IF 1 > n THEN 0 ELSE n - 1 + 1
  BY <1>1, FS_Interval
<1> QED BY <1>2

\* The pairs that a sum over the first numbers of a sequence is counted by.
Cells(n, c) == UNION {{i} \X (1..c[i]) : i \in 1..n}

LEMMA CellsOf ==
  ASSUME NEW n \in Nat, NEW c, \A i \in 1..n : c[i] \in Nat
  PROVE  /\ IsFiniteSet(Cells(n, c)) /\ Cardinality(Cells(n, c)) \in Nat
         /\ n = 0 => Cardinality(Cells(n, c)) = 0
<1> DEFINE f == [i \in 1..n |-> {i} \X (1..c[i])]
           Pieces == {{i} \X (1..c[i]) : i \in 1..n}
<1>1. f \in Surjection(1..n, Pieces)
  BY DEF Surjection
<1>2. IsFiniteSet(Pieces)
  <2>1. IsFiniteSet(1..n)
    BY FS_Interval
  <2> HIDE DEF f, Pieces
  <2> QED BY <1>1, <2>1, FS_Surjection
<1>3. IsFiniteSet(UNION Pieces)
  <2>1. ASSUME NEW T \in Pieces PROVE IsFiniteSet(T)
    <3>1. PICK i \in 1..n : T = {i} \X (1..c[i])
      OBVIOUS
    <3>2. c[i] \in Int /\ 1 \in Int
      OBVIOUS
    <3>3. IsFiniteSet({i}) /\ IsFiniteSet(1..c[i])
      BY <3>2, FS_Singleton, FS_Interval
    <3> QED BY <3>1, <3>3, FS_Product
  <2> HIDE DEF Pieces
  <2> QED BY <1>2, <2>1, FS_UNION
<1>4. ASSUME n = 0 PROVE Cells(n, c) = {}
  BY <1>4 DEF Cells
<1> QED BY <1>3, <1>4, FS_CardinalityType, FS_EmptySet DEF Cells

\* What the last number adds to the sum.
LEMMA CellsMore ==
  ASSUME NEW n \in Nat, NEW c, \A i \in 1..n + 1 : c[i] \in Nat
  PROVE  Cardinality(Cells(n + 1, c)) = Cardinality(Cells(n, c)) + c[n + 1]
<1> DEFINE A == Cells(n, c)
           B == {n + 1} \X (1..c[n + 1])
<1>1. IsFiniteSet(A) /\ Cardinality(A) \in Nat
  <2>1. \A i \in 1..n : c[i] \in Nat
    OBVIOUS
  <2> QED BY <2>1, CellsOf
<1>2. IsFiniteSet(B) /\ Cardinality(B) = c[n + 1]
  <2>1. c[n + 1] \in Nat
    OBVIOUS
  <2>2. IsFiniteSet(1..c[n + 1]) /\ Cardinality(1..c[n + 1]) = c[n + 1]
    BY <2>1, CountTo
  <2>3. IsFiniteSet({n + 1}) /\ Cardinality({n + 1}) = 1
    BY FS_Singleton
  <2>4. IsFiniteSet(B) /\ Cardinality(B) = Cardinality({n + 1}) * Cardinality(1..c[n + 1])
    BY <2>2, <2>3, FS_Product
  <2> QED BY <2>1, <2>2, <2>3, <2>4
<1>3. Cells(n + 1, c) = A \cup B
  <2>1. 1..n + 1 = (1..n) \cup {n + 1}
    OBVIOUS
  <2> QED BY <2>1 DEF Cells
<1>4. A \cap B = {}
  BY DEF Cells
<1>5. Cardinality(A \cup B) = Cardinality(A) + Cardinality(B) - Cardinality(A \cap B)
  <2> HIDE DEF A, B
  <2> QED BY <1>1, <1>2, FS_Union
<1>6. c[n + 1] \in Nat
  OBVIOUS
<1> HIDE DEF A, B
<1>7. Cardinality(A \cup B) = Cardinality(A) + c[n + 1]
  <2>1. Cardinality(A \cap B) = 0
    BY <1>4, FS_EmptySet
  <2> QED BY <1>1, <1>2, <1>5, <1>6, <2>1
<1> QED BY <1>3, <1>7 DEF A

Costs(s) == [i \in 1..Len(s) |-> s[i].cost]

LEMMA CostsOf ==
  ASSUME NEW s \in Seq(Rec)
  PROVE  /\ Len(s) \in Nat
         /\ \A i \in 1..Len(s) : Costs(s)[i] = s[i].cost /\ s[i].cost \in Nat
<1>1. Len(s) \in Nat /\ \A i \in 1..Len(s) : s[i] \in Rec
  OBVIOUS
<1>2. \A r \in Rec : r.cost \in Nat
  BY DEF Rec
<1>3. \A i \in 1..Len(s) : Costs(s)[i] = s[i].cost
  BY DEF Costs
<1> QED BY <1>1, <1>2, <1>3

LEMMA ChargeOf ==
  ASSUME NEW s \in Seq(Rec)
  PROVE  /\ charge(s) = Cardinality(Cells(Len(s), Costs(s))) /\ charge(s) \in Nat
         /\ Len(s) = 0 => charge(s) = 0
<1>1. Len(s) \in Nat /\ \A i \in 1..Len(s) : Costs(s)[i] = s[i].cost /\ s[i].cost \in Nat
  BY CostsOf
<1>2. Cells(Len(s), Costs(s)) = UNION {{i} \X (1..s[i].cost) : i \in 1..Len(s)}
  BY <1>1 DEF Cells
<1>3. \A i \in 1..Len(s) : Costs(s)[i] \in Nat
  BY <1>1
<1> QED BY <1>1, <1>2, <1>3, CellsOf DEF charge

LEMMA ChargeAppend ==
  ASSUME NEW s \in Seq(Rec), NEW x \in Rec
  PROVE  charge(Append(s, x)) = charge(s) + x.cost
<1> DEFINE t == Append(s, x)
           n == Len(s)
<1>1. t \in Seq(Rec) /\ Len(t) = n + 1 /\ n \in Nat /\ t[n + 1] = x
      /\ \A i \in 1..n : t[i] = s[i]
  OBVIOUS
<1> HIDE DEF t
<1>2. \A i \in 1..n + 1 : Costs(t)[i] = t[i].cost /\ t[i].cost \in Nat
  BY <1>1, CostsOf
<1>3. \A i \in 1..n : Costs(s)[i] = Costs(t)[i]
  BY <1>1, <1>2 DEF Costs
<1>4. Cells(n, Costs(s)) = Cells(n, Costs(t))
  BY <1>3 DEF Cells
<1>5. Cardinality(Cells(n + 1, Costs(t))) = Cardinality(Cells(n, Costs(t))) + Costs(t)[n + 1]
  <2>1. \A i \in 1..n + 1 : Costs(t)[i] \in Nat
    BY <1>2
  <2> QED BY <1>1, <2>1, CellsMore
<1>6. Costs(t)[n + 1] = x.cost
  BY <1>1, <1>2
<1> QED BY <1>1, <1>4, <1>5, <1>6, ChargeOf DEF t

LEMMA Prefix ==
  ASSUME NEW S, NEW s \in Seq(S), NEW k \in 0..Len(s)
  PROVE  /\ SubSeq(s, 1, k) \in Seq(S) /\ Len(SubSeq(s, 1, k)) = k
         /\ \A i \in 1..k : SubSeq(s, 1, k)[i] = s[i]
         /\ k = Len(s) => SubSeq(s, 1, k) = s
OBVIOUS

\* As many steps are kept as fit.
LEMMA FittingOf ==
  ASSUME NEW s \in Seq(Rec), NEW r \in 0..StepBudget
  PROVE  /\ fitting(s, r) \in 0..Len(s)
         /\ r + charge(SubSeq(s, 1, fitting(s, r))) <= StepBudget
<1> USE StepsAssumption
<1> DEFINE fits == {k \in 0..Len(s) : r + charge(SubSeq(s, 1, k)) <= StepBudget}
<1>1. Len(s) \in Nat /\ 0 \in 0..Len(s)
  OBVIOUS
<1>2. 0 \in fits
  <2>1. SubSeq(s, 1, 0) \in Seq(Rec) /\ Len(SubSeq(s, 1, 0)) = 0
    BY <1>1, Prefix
  <2>2. charge(SubSeq(s, 1, 0)) = 0
    BY <2>1, ChargeOf
  <2> QED BY <1>1, <2>2
<1>3. \E k \in fits : \A i \in fits : i <= k
  <2>1. fits \in SUBSET (0..Len(s)) /\ fits # {}
    BY <1>2
  <2> HIDE DEF fits
  <2> QED BY <1>1, <2>1, GreatestOf
<1>4. fitting(s, r) = CHOOSE k \in fits : \A i \in fits : i <= k
  BY <1>2 DEF fitting
<1>5. fitting(s, r) \in fits
  <2> HIDE DEF fits
  <2> QED BY <1>3, <1>4
<1> QED BY <1>5

\* All of them are where all of them fit.
LEMMA FittingAll ==
  ASSUME NEW s \in Seq(Rec), charge(s) <= StepBudget
  PROVE  fitting(s, 0) = Len(s)
<1> USE StepsAssumption
<1> DEFINE fits == {k \in 0..Len(s) : 0 + charge(SubSeq(s, 1, k)) <= StepBudget}
<1>1. Len(s) \in fits
  <2>1. Len(s) \in 0..Len(s) /\ SubSeq(s, 1, Len(s)) = s /\ charge(s) \in Nat
    BY ChargeOf
  <2>2. 0 + charge(SubSeq(s, 1, Len(s))) <= StepBudget
    <3>1. 0 + charge(s) = charge(s)
      BY <2>1
    <3> QED BY <2>1, <3>1
  <2> QED BY <2>1, <2>2
<1>2. \A i \in fits : i <= Len(s) /\ i \in Nat
  OBVIOUS
<1>3. fitting(s, 0) = CHOOSE k \in fits : \A i \in fits : i <= k
  BY <1>1 DEF fitting
<1> HIDE DEF fits
<1> DEFINE k == CHOOSE k \in fits : \A i \in fits : i <= k
<1>4. k \in fits /\ \A i \in fits : i <= k
  BY <1>1, <1>2
<1> HIDE DEF k
<1>5. k = Len(s)
  BY <1>1, <1>2, <1>4
<1> QED BY <1>3, <1>5 DEF k

\* encode_steps: what a device's bounds left fits the broker's, which take nothing more.
LEMMA EncodeKeeps ==
  ASSUME NEW s \in Seq(Rec), Len(s) <= StepCount, charge(s) <= StepBudget
  PROVE  encode_steps(s) = s
<1>1. StepCount \in Nat /\ Len(s) \in Nat
  BY StepsAssumption
<1>2. SubSeq(s, 1, Len(s)) = s
  OBVIOUS
<1>3. first(s) = s
  <2>1. (IF Len(s) > StepCount THEN StepCount ELSE Len(s)) = Len(s)
    BY <1>1
  <2> QED BY <1>2, <2>1 DEF first
<1>4. fitting(first(s), 0) = Len(s)
  BY <1>3, FittingAll
<1> QED BY <1>2, <1>4 DEF encode_steps

\* within_budget: the first steps as far as they fit, and the last one, which says how many
\* went.
LEMMA WithinBudgetOf ==
  ASSUME NEW s \in Seq(Rec), s # <<>>, s[Len(s)].cost <= StepBudget
  PROVE  LET w == within_budget(s) IN
         /\ w \in Seq(Rec) /\ Len(w) \in 1..Len(s) /\ Len(w) <= StepCount
         /\ charge(w) <= StepBudget
         /\ \A i \in 1..Len(w) - 1 : w[i] = s[i]
         /\ w[Len(w)] = [s[Len(s)] EXCEPT !.dropped = Len(s) - Len(w)]
<1> DEFINE n == Len(s)
           c == IF n > StepCount THEN StepCount ELSE n
           head == SubSeq(s, 1, c)
           front == SubSeq(first(s), 1, Len(first(s)) - 1)
           k == fitting(front, Last(s).cost)
           x == [s[n] EXCEPT !.dropped = n - k - 1]
           w == Append(SubSeq(front, 1, k), x)
<1>1. n \in Nat \ {0} /\ StepCount \in Nat \ {0} /\ StepBudget \in Nat /\ s[n] \in Rec
  BY StepsAssumption
<1>2. Last(s) = s[n] /\ s[n].cost \in 0..StepBudget
  <2>1. s[n].cost \in Nat
    BY <1>1 DEF Rec
  <2> QED BY <1>1, <2>1 DEF Last
<1>3. c \in 1..n /\ c <= StepCount /\ c - 1 \in 0..c /\ c \in 0..n
  BY <1>1
<1>4. first(s) = head
  BY DEF first
<1>5. head \in Seq(Rec) /\ Len(head) = c /\ \A i \in 1..c : head[i] = s[i]
  <2> HIDE DEF c, n
  <2> QED BY <1>3, Prefix DEF n
<1>6. /\ front \in Seq(Rec) /\ Len(front) = c - 1
      /\ \A i \in 1..c - 1 : front[i] = s[i]
  <2>1. c - 1 \in 0..Len(head)
    BY <1>3, <1>5
  <2>2. front = SubSeq(head, 1, c - 1)
    BY <1>4, <1>5
  <2> HIDE DEF head, c, n, front
  <2>3. \A i \in 1..c - 1 : i \in 1..c
    BY <1>3
  <2> QED BY <1>5, <2>1, <2>2, <2>3, Prefix
<1>7. k \in 0..c - 1 /\ Last(s).cost + charge(SubSeq(front, 1, k)) <= StepBudget
  <2> HIDE DEF front, c, n
  <2> QED BY <1>2, <1>6, FittingOf
<1> DEFINE p == SubSeq(front, 1, k)
<1>8. p \in Seq(Rec) /\ Len(p) = k /\ \A i \in 1..k : p[i] = s[i]
  <2>1. k \in 0..Len(front) /\ \A i \in 1..k : i \in 1..c - 1
    BY <1>3, <1>6, <1>7
  <2> HIDE DEF front, c, n, k
  <2> QED BY <1>6, <2>1, Prefix
<1>9. x \in Rec /\ x.cost = s[n].cost
  <2>1. n - k - 1 \in Nat
    <3> HIDE DEF k
    <3> QED BY <1>1, <1>3, <1>7
  <2> HIDE DEF k, n
  <2> QED BY <1>1, <2>1 DEF Rec
<1> HIDE DEF p, k, front, c, n, x
<1>10. w = Append(p, x) /\ within_budget(s) = w
  <2>1. within_budget(s) = Append(p, x)
    BY <1>2 DEF within_budget, p, front, k, x, n
  <2> QED BY <2>1 DEF p
<1> HIDE DEF w
<1>11. /\ w \in Seq(Rec) /\ Len(w) = k + 1 /\ w[k + 1] = x
       /\ \A i \in 1..k : w[i] = s[i]
  BY <1>7, <1>8, <1>9, <1>10
<1>12. charge(w) <= StepBudget
  <2>1. charge(w) = charge(p) + x.cost /\ charge(p) \in Nat
    BY <1>8, <1>9, <1>10, ChargeAppend, ChargeOf
  <2> QED BY <1>1, <1>2, <1>7, <1>9, <2>1 DEF p
<1>13. k + 1 \in 1..n /\ k + 1 <= StepCount /\ k + 1 - 1 = k /\ n - k - 1 = n - (k + 1)
  BY <1>1, <1>3, <1>7
<1>14. x = [s[n] EXCEPT !.dropped = n - (k + 1)]
  BY <1>13 DEF x
<1>15. /\ Len(w) \in 1..n /\ Len(w) <= StepCount
       /\ \A i \in 1..Len(w) - 1 : w[i] = s[i]
       /\ w[Len(w)] = [s[n] EXCEPT !.dropped = n - Len(w)]
  <2>1. Len(w) = k + 1 /\ Len(w) - 1 = k
    BY <1>7, <1>11
  <2>2. \A i \in 1..Len(w) - 1 : w[i] = s[i]
    BY <1>11, <2>1
  <2>3. w[Len(w)] = [s[n] EXCEPT !.dropped = n - Len(w)]
    BY <1>11, <1>14, <2>1
  <2> QED BY <1>13, <2>1, <2>2, <2>3
<1> QED BY <1>10, <1>11, <1>12, <1>15 DEF n

\* boundaries: marks that count on from one are all kept.
LEMMA BoundariesOf ==
  ASSUME NEW marks \in Seq(Mark), \A i \in 1..Len(marks) : marks[i].index = i
  PROVE  boundaries(marks) = marks
<1> DEFINE n == Len(marks)
<1>1. n \in Nat
  OBVIOUS
<1>2. Counts(marks, 1..n)
  <2>1. ASSUME NEW i \in 1..n
        PROVE  \/ {k \in 1..n : k < i} = {}
               \/ \E k \in {k \in 1..n : k < i} :
                    /\ \A m \in {j \in 1..n : j < i} : m <= k
                    /\ marks[i].index = marks[k].index + 1
    <3>1. CASE i = 1
      BY <1>1, <3>1
    <3>2. CASE i # 1
      <4>1. i - 1 \in {k \in 1..n : k < i} /\ marks[i].index = marks[i - 1].index + 1
        BY <1>1, <3>2
      <4>2. \A m \in {j \in 1..n : j < i} : m <= i - 1
        BY <1>1
      <4> QED BY <4>1, <4>2
    <3> QED BY <3>1, <3>2
  <2> QED BY <2>1 DEF Counts
<1>3. ASSUME NEW kept \in SUBSET (1..n), Counts(marks, kept) PROVE kept = 1..n
  <2> SUFFICES ASSUME kept # 1..n PROVE FALSE
    OBVIOUS
  <2> DEFINE Gone == (1..n) \ kept
  <2>1. Gone \in SUBSET Nat /\ Gone # {}
    <3>1. 1..n \subseteq Nat
      BY <1>1
    <3> HIDE DEF n
    <3> QED BY <3>1
  <2>2. PICK i \in Gone : \A j \in Gone : i <= j
    <3> HIDE DEF Gone
    <3> QED BY <2>1, LeastOf
  <2>3. i \in 1..n /\ i \notin kept /\ \A k \in 1..n : k < i => k \in kept
    BY <1>1, <2>2
  <2> DEFINE before == {k \in kept : k < i}
  <2>4. /\ before # {}
        /\ ~\E k \in before : /\ \A m \in before : m <= k
                              /\ marks[i].index = marks[k].index + 1
    BY <1>3, <2>3 DEF Counts
  <2>5. PICK k \in before : k \in 1..n /\ k < i
    BY <2>4
  <2>6. i - 1 \in before /\ marks[i].index = marks[i - 1].index + 1
    <3>1. i \in 1..n /\ i - 1 \in 1..n /\ i - 1 < i /\ i = (i - 1) + 1
      BY <1>1, <2>3, <2>5
    <3> QED BY <2>3, <3>1
  <2>7. \A m \in before : m <= i - 1
    BY <1>1, <2>3
  <2> HIDE DEF before
  <2> QED BY <2>4, <2>6, <2>7
<1> DEFINE S == CHOOSE kept \in SUBSET (1..n) : Counts(marks, kept)
<1>4. S = 1..n
  <2>1. S \in SUBSET (1..n) /\ Counts(marks, S)
    <3>1. 1..n \in SUBSET (1..n)
      OBVIOUS
    <3> HIDE DEF n
    <3> QED BY <1>2, <3>1
  <2> HIDE DEF S, n
  <2> QED BY <1>3, <2>1
<1>5. boundaries(marks) = only(marks, 1..n)
  BY <1>4 DEF boundaries
<1>6. ASSUME NEW i \in 1..n
      PROVE  (CHOOSE k \in 1..n : Cardinality({m \in 1..n : m <= k}) = i) = i
  <2>1. ASSUME NEW k \in 1..n PROVE Cardinality({m \in 1..n : m <= k}) = k
    <3>1. {m \in 1..n : m <= k} = 1..k /\ k \in Nat
      BY <1>1
    <3> QED BY <3>1, CountTo
  <2> HIDE DEF n
  <2> QED BY <2>1
<1>7. Cardinality(1..n) = n
  BY <1>1, CountTo
<1>8. only(marks, 1..n) = [i \in 1..n |-> marks[i]]
  <2> DEFINE at(i) == CHOOSE k \in 1..n : Cardinality({m \in 1..n : m <= k}) = i
  <2>1. only(marks, 1..n) = [i \in 1..n |-> marks[at(i)]]
    BY <1>7 DEF only
  <2>2. \A i \in 1..n : at(i) = i
    BY <1>6
  <2> HIDE DEF at, n
  <2> QED BY <2>1, <2>2
<1>9. [i \in 1..n |-> marks[i]] = marks
  OBVIOUS
<1> QED BY <1>5, <1>8, <1>9

\* parse_steps, encode_steps: the records of a script that was cut off in its last step, or
\* was not, name that step and account for those that are missing.
LEMMA RecordsOf ==
  ASSUME NEW marks \in Seq(Mark), marks # <<>>,
         \A i \in 1..Len(marks) : marks[i].index = i,
         \A i \in 1..Len(marks) - 1 : marks[i].completed
  PROVE  LET r == encode_steps(parse_steps(marks)) IN
         /\ r \in Seq(Rec) /\ Len(r) \in 1..Len(marks)
         /\ \A i \in 1..Len(r) - 1 : r[i].completed /\ r[i].dropped = 0
         /\ r[Len(r)].index = Len(marks)
         /\ r[Len(r)].completed = marks[Len(marks)].completed
         /\ r[Len(r)].dropped = Len(marks) - Len(r)
<1> DEFINE n == Len(marks)
           done(i) == \/ i < Len(marks)
                      \/ \E m \in Range(marks) : m.index >= marks[i].index /\ m.completed
           rec(i) == [index |-> marks[i].index, cost |-> bound(marks[i].cost),
                      completed |-> done(i), dropped |-> 0]
           s == [i \in 1..n |-> rec(i)]
<1>1. n \in Nat \ {0} /\ \A i \in 1..n : marks[i] \in Mark
  OBVIOUS
<1>2. parse_steps(marks) = within_budget(s)
  <2>1. boundaries(marks) = marks
    BY BoundariesOf
  <2> QED BY <2>1 DEF parse_steps
<1>3. ASSUME NEW i \in 1..n
      PROVE  /\ done(i) \in BOOLEAN /\ (i < n => done(i))
             /\ i = n => done(i) = marks[n].completed
  <2>1. i < n => done(i)
    OBVIOUS
  <2>2. marks[n].completed \in BOOLEAN /\ marks[n].index = n
    <3>1. n \in 1..n /\ marks[n] \in Mark
      BY <1>1
    <3>2. \A m \in Mark : m.completed \in BOOLEAN
      BY DEF Mark
    <3> QED BY <3>1, <3>2
  <2>3. ASSUME i = n, marks[n].completed PROVE done(i)
    <3>1. marks[n] \in Range(marks) /\ marks[n].index >= marks[i].index
      BY <1>1, <2>2, <2>3 DEF Range
    <3> QED BY <2>3, <3>1
  <2>4. ASSUME i = n, done(i) PROVE marks[n].completed
    <3>1. PICK m \in Range(marks) : m.index >= marks[i].index /\ m.completed
      BY <1>1, <2>4
    <3>2. PICK j \in 1..n : m = marks[j]
      BY <3>1 DEF Range
    <3>3. j = n
      BY <1>1, <2>2, <2>4, <3>1, <3>2
    <3> QED BY <3>1, <3>2, <3>3
  <2>5. done(i) \in BOOLEAN
    OBVIOUS
  <2> HIDE DEF done
  <2> QED BY <2>1, <2>2, <2>3, <2>4, <2>5
<1>4. ASSUME NEW i \in 1..n
      PROVE  bound(marks[i].cost) \in Nat /\ bound(marks[i].cost) <= StepBudget
  <2>1. marks[i].cost \in Nat /\ StepCost \in Nat /\ StepBudget \in Nat /\ StepCost <= StepBudget
    BY <1>1, StepsAssumption DEF Mark
  <2> QED BY <2>1 DEF bound
<1> HIDE DEF done
<1>5. ASSUME NEW i \in 1..n PROVE rec(i) \in Rec
  <2>1. marks[i].index \in Nat /\ done(i) \in BOOLEAN /\ bound(marks[i].cost) \in Nat /\ 0 \in Nat
    BY <1>1, <1>3, <1>4 DEF Mark
  <2> QED BY <2>1 DEF Rec
<1>6. /\ s \in Seq(Rec) /\ Len(s) = n /\ s # <<>>
      /\ \A i \in 1..n : /\ s[i].index = i /\ s[i].cost = bound(marks[i].cost)
                         /\ s[i].completed = done(i) /\ s[i].dropped = 0
  <2>1. \A i \in 1..n : s[i] = rec(i)
    OBVIOUS
  <2>2. \A i \in 1..n : /\ rec(i).index = i /\ rec(i).cost = bound(marks[i].cost)
                        /\ rec(i).completed = done(i) /\ rec(i).dropped = 0
    OBVIOUS
  <2>3. s \in Seq(Rec) /\ Len(s) = n
    <3> HIDE DEF rec, n
    <3> QED BY <1>1, <1>5
  <2> HIDE DEF s, rec, n
  <2> QED BY <1>1, <2>1, <2>2, <2>3
<1> HIDE DEF s
<1> DEFINE w == within_budget(s)
<1>7. /\ w \in Seq(Rec) /\ Len(w) \in 1..n /\ Len(w) <= StepCount /\ charge(w) <= StepBudget
      /\ \A i \in 1..Len(w) - 1 : w[i] = s[i]
      /\ w[Len(w)] = [s[n] EXCEPT !.dropped = n - Len(w)]
  <2>1. s[n].cost <= StepBudget
    BY <1>1, <1>4, <1>6
  <2> HIDE DEF n
  <2> QED BY <1>6, <2>1, WithinBudgetOf
<1>8. encode_steps(parse_steps(marks)) = w
  BY <1>2, <1>7, EncodeKeeps
<1> HIDE DEF w
<1>9. \A i \in 1..Len(w) - 1 : w[i].completed /\ w[i].dropped = 0
  <2> TAKE i \in 1..Len(w) - 1
  <2>1. i \in 1..n /\ i < n /\ w[i] = s[i]
    BY <1>1, <1>7
  <2> QED BY <1>3, <1>6, <2>1
<1>10. /\ w[Len(w)].index = n /\ w[Len(w)].completed = marks[n].completed
       /\ w[Len(w)].dropped = n - Len(w)
  <2>1. n \in 1..n /\ s[n] \in Rec /\ s[n].index = n /\ s[n].completed = marks[n].completed
    BY <1>1, <1>3, <1>6
  <2> QED BY <1>7, <2>1 DEF Rec
<1> QED BY <1>7, <1>8, <1>9, <1>10

\* The check of a run of some steps names the one it stopped in, and accounts for all.
Names(run, n, stop) ==
  LET shown == verdict_for(run)
      rows == shown.summary.table
  IN /\ Len(rows) + shown.summary.missing = n
     /\ \A i \in 1..Len(rows) : (rows[i] = "passed") = (stop = NoStep \/ i < Len(rows))
     /\ shown.title[2] = stop /\ shown.summary.headline[2] = stop
     /\ shown.annotations = IF run.status = "success" THEN {} ELSE {stop}

\* What a run's check says of records that name their last step and account for the rest.
LEMMA VerdictOf ==
  ASSUME NEW r \in Seq(Rec), NEW n \in Nat \ {0}, Len(r) \in 1..n,
         \A i \in 1..Len(r) - 1 : r[i].completed /\ r[i].dropped = 0,
         r[Len(r)].index = n, r[Len(r)].dropped = n - Len(r),
         NEW run, run.steps = r, run.status \in {"success", "failure"}, run.error = "none",
         run.status = "success" => r[Len(r)].completed
  PROVE  Names(run, n, IF r[Len(r)].completed THEN NoStep ELSE n)
<1> DEFINE m == Len(r)
           stop == IF r[m].completed THEN NoStep ELSE n
<1>1. /\ m \in 1..n /\ m \in Nat /\ m \in 1..m
      /\ \A i \in 1..m : r[i] \in Rec /\ r[i].completed \in BOOLEAN
  <2>1. \A x \in Rec : x.completed \in BOOLEAN
    BY DEF Rec
  <2> QED BY <2>1
<1>2. \A i \in 1..m : i < m => r[i].completed /\ r[i].dropped = 0
  BY <1>1
<1>3. unfinished_step(r) = stop
  <2>1. CASE r[m].completed
    <3>1. Unfinished(r) = {}
      BY <1>1, <1>2, <2>1 DEF Unfinished
    <3> QED BY <2>1, <3>1 DEF unfinished_step
  <2>2. CASE ~r[m].completed
    <3>1. Unfinished(r) = {m}
      BY <1>1, <1>2, <2>2 DEF Unfinished
    <3>2. m <= m
      BY <1>1
    <3>3. (CHOOSE i \in {m} : \A k \in {m} : k <= i) = m
      BY <3>2
    <3>4. unfinished_step(r) = r[m].index
      BY <3>1, <3>3 DEF unfinished_step
    <3> QED BY <2>2, <3>4
  <2> QED BY <2>1, <2>2
<1>4. disclosed(run) = n - m
  <2> DEFINE d == r[m].dropped
             A == UNION {{i} \X (1..r[i].dropped) : i \in 1..m}
  <2>1. d = n - m /\ d \in Nat
    BY <1>1
  <2>2. A = {m} \X (1..d)
    <3>1. \A i \in 1..m : i # m => 1..r[i].dropped = {}
      BY <1>1, <1>2
    <3> HIDE DEF m
    <3> QED BY <1>1, <3>1
  <2>3. IsFiniteSet(1..d) /\ Cardinality(1..d) = d /\ IsFiniteSet({m}) /\ Cardinality({m}) = 1
    BY <2>1, CountTo, FS_Singleton
  <2>4. Cardinality({m} \X (1..d)) = d
    <3> HIDE DEF d, m
    <3>1. Cardinality({m} \X (1..d)) = Cardinality({m}) * Cardinality(1..d)
      BY <2>3, FS_Product
    <3> QED BY <2>1, <2>3, <3>1
  <2>5. disclosed(run) = Cardinality(A)
    BY DEF disclosed
  <2> HIDE DEF A, d
  <2> QED BY <2>1, <2>2, <2>4, <2>5
<1> HIDE DEF m, stop
<1> DEFINE shown == verdict_for(run)
           rows == table(run)
<1>7. /\ shown.title = title_for(run) /\ shown.annotations = annotations_for(run)
      /\ shown.summary.headline = headline(run) /\ shown.summary.missing = disclosed(run)
      /\ shown.summary.table = rows
  BY DEF verdict_for, summary_for
<1>8. Len(rows) = m /\ \A i \in 1..m : rows[i] = result(run, r[i])
  BY <1>1 DEF table, m
<1>9. ASSUME title_for(run)[2] = stop, headline(run)[2] = stop,
             annotations_for(run) = IF run.status = "success" THEN {} ELSE {stop},
             \A i \in 1..m : (result(run, r[i]) = "passed") = (stop = NoStep \/ i < m)
      PROVE  Names(run, n, stop)
  <2>1. m + (n - m) = n
    BY <1>1
  <2> HIDE DEF shown, rows
  <2>2. Len(shown.summary.table) + shown.summary.missing = n
    BY <1>4, <1>7, <1>8, <2>1
  <2>3. \A i \in 1..Len(rows) : (rows[i] = "passed") = (stop = NoStep \/ i < Len(rows))
    BY <1>8, <1>9
  <2>4. /\ shown.title[2] = stop /\ shown.summary.headline[2] = stop
        /\ shown.annotations = IF run.status = "success" THEN {} ELSE {stop}
    BY <1>7, <1>9
  <2> QED BY <1>7, <2>2, <2>3, <2>4 DEF Names, shown
<1>5. CASE run.status = "success"
  <2>1. state_for(run) = "success" /\ conclusion_for(run) = "success"
    BY <1>5 DEF state_for, conclusion_for
  <2>2. ~Red(run) /\ stop = NoStep
    BY <1>5, <2>1 DEF Red, stop, m
  <2>3. title_for(run) = <<"passed", NoStep>>
    BY <1>5 DEF title_for
  <2>4. running_step(run) = NoStep
    BY <1>5 DEF running_step
  <2>5. headline(run) = <<"passed", NoStep>>
    BY <1>5, <2>1, <2>4 DEF headline
  <2>6. title_for(run)[2] = stop /\ headline(run)[2] = stop /\ annotations_for(run) = {}
    BY <2>2, <2>3, <2>5 DEF annotations_for
  <2>7. \A i \in 1..m : r[i].completed
    BY <1>1, <1>2, <1>5 DEF m
  <2>8. \A i \in 1..m : (result(run, r[i]) = "passed") = (stop = NoStep \/ i < m)
    BY <2>2, <2>7 DEF result
  <2> QED BY <1>5, <1>9, <2>6, <2>8 DEF m, stop
<1>6. CASE run.status = "failure"
  <2>1. /\ state_for(run) = "failure" /\ conclusion_for(run) \in {"timed_out", "failure"}
    BY <1>6 DEF state_for, conclusion_for
  <2>2. Red(run) /\ failed_step(run) = stop
    BY <1>3, <2>1 DEF Red, failed_step
  <2>3. title_for(run) = <<"failed", stop>>
    BY <1>3, <1>6 DEF title_for, failure_description
  <2>4. headline(run) = <<ended(run), stop>>
    BY <2>1, <2>2 DEF headline
  <2>5. title_for(run)[2] = stop /\ headline(run)[2] = stop /\ annotations_for(run) = {stop}
    BY <2>2, <2>3, <2>4 DEF annotations_for
  <2>6. ended(run) # "passed"
    BY DEF ended
  <2>7. \A i \in 1..m : (result(run, r[i]) = "passed") = r[i].completed
    BY <1>1, <2>6 DEF result
  <2>8. \A i \in 1..m : r[i].completed = (stop = NoStep \/ i < m)
    BY <1>1, <1>2 DEF stop, NoStep
  <2>9. \A i \in 1..m : (result(run, r[i]) = "passed") = (stop = NoStep \/ i < m)
    BY <2>7, <2>8
  <2> QED BY <1>6, <1>9, <2>5, <2>9 DEF m, stop
<1> QED BY <1>5, <1>6

-----------------------------------------------------------------------------
(* The theorems *)

\* The inductive invariant of the attempts on a device (executor.py).
THEOREM EInvHolds == Spec => []EInv
BY InitE, NextE, PTL DEF Spec

\* executor.py _run_steps: a green attempt is its own container's 0, had in time, and when
\* it met no other attempt, from every step of the script in its own checkout.
THEOREM GreenIsEarnedHolds == Spec => []GreenIsEarned
<1>1. EInv => GreenIsEarned
  BY DEF EInv, CodeIsEarned, GreenIsEarned
<1> QED BY <1>1, EInvHolds, PTL

\* executor.py _run_steps, _cleanup_workspace, __call__: what stays on the device has its
\* own command's failure, a device that does not clean up or the agent's death for a cause.
THEOREM LeftoversHaveACauseHolds == Spec => []LeftoversHaveACause
<1>1. ASSUME EInv, Busy = {} PROVE Held \subseteq left
  <2>1. \A a \in Attempts : pc[a] \in {"idle", "over"}
    BY <1>1 DEF Busy
  <2>2. /\ network # None => "network" \in left
        /\ job # None => "job" \in left
        /\ service # None => "service" \in left
        /\ workspace # None => "workspace" \in left
        /\ archive # None => "archive" \in left
    BY <1>1, <2>1 DEF EInv, ExecTypes, NetworkGuards, MadeIsRemembered, Inside
  <2> QED BY <2>2 DEF Held, Device
<1>2. EInv => LeftoversHaveACause
  BY <1>1 DEF LeftoversHaveACause
<1> QED BY <1>2, EInvHolds, PTL

\* executor.py _run_steps, finally: cleanup by shared names takes only what the attempt made.
THEOREM CleanupTakesItsOwnHolds == Spec => CleanupTakesItsOwn
<1> DEFINE Own(a) == /\ pc[a] = "rm_job" /\ pc'[a] = "rm_services" /\ job \in Attempts \ {a}
                        => pc[job] \in {"packing", "cleaning", "reporting", "over"}
                     /\ pc[a] = "rm_services" /\ pc'[a] = "rm_network"
                        => service' = service \/ service = a
<1>1. ASSUME EInv, [Next]_vars PROVE [\A a \in Attempts : Own(a)]_vars
  <2> SUFFICES ASSUME Next, NEW a \in Attempts PROVE Own(a)
    BY <1>1
  <2>1. pc[a] \in {"rm_job", "rm_services"} => \A b \in Attempts : pc[b] \in Inside => b = a
    BY <1>1 DEF EInv, NetworkGuards, Inside
  <2>2. pc[a] = "rm_job" /\ job \in Attempts \ {a} => pc[job] \in Past
    BY <1>1, <2>1 DEF EInv, NetworkGuards, Started, Inside
  <2>3. service' = service \/ (\E b \in Attempts : pc[b] = "services")
        \/ \E b \in Attempts : pc[b] = "rm_services" /\ services[b]
    BY DEF Next, execute, prepare, create_network, start_service, wait_for_services, start_job,
           announce, step_passes, container_exits, client_returns, rm_job, rm_services,
           rm_network, pack_artifacts, cleanup_workspace, report, timer, LoseLease, Crash,
           docker, remembered
  <2>4. pc[a] = "rm_services" => service' = service \/ service = a
    BY <1>1, <2>1, <2>3 DEF EInv, NetworkGuards, Inside
  <2> QED BY <2>2, <2>4 DEF Past
<1>2. QED BY <1>1, EInvHolds, PTL DEF Spec, CleanupTakesItsOwn

\* The inductive invariant of the attempts' logs and records (executor.py, steps.py).
THEOREM RecInvHolds == Spec => []RecInv
<1>1. Init => RecInv
  BY InitE, InitRec DEF RecInv
<1> QED BY <1>1, NextRec, PTL DEF Spec

\* steps.py parse_steps, encode_steps; check_summary.py verdict_for: the check of a run names
\* the step its script stopped in and accounts for every step that ran, for any script and
\* any bounds on the number of records and their size.
THEOREM StopIsNamedHolds == Spec => []StopIsNamed
<1>1. ASSUME RecInv, NEW a \in Attempts \ met, pc[a] = "reporting", printed[a] # <<>>
      PROVE  LET stop == IF Open(printed[a]) THEN Len(printed[a]) ELSE NoStep
                 shown == verdict_for(Reported(a))
                 rows == shown.summary.table
             IN /\ Len(rows) + shown.summary.missing = Len(printed[a])
                /\ \A i \in 1..Len(rows) :
                     (rows[i] = "passed") = (stop = NoStep \/ i < Len(rows))
                /\ shown.title[2] = stop /\ shown.summary.headline[2] = stop
                /\ shown.annotations = IF code[a] = 0 THEN {} ELSE {stop}
  <2> DEFINE marks == printed[a]
             n == Len(marks)
             r == stored[a]
             job1 == Reported(a)
  <2>1. /\ marks \in Seq(Mark) /\ marks # <<>> /\ n \in Nat \ {0}
        /\ \A i \in 1..n : marks[i].index = i
        /\ \A i \in 1..n - 1 : marks[i].completed
        /\ r = encode_steps(parse_steps(marks))
    BY <1>1 DEF RecInv, EInv, ExecTypes, CodeIsEarned, RecordsAreTrue
  <2> HIDE DEF marks, r
  <2>2. /\ r \in Seq(Rec) /\ Len(r) \in 1..n
        /\ \A i \in 1..Len(r) - 1 : r[i].completed /\ r[i].dropped = 0
        /\ r[Len(r)].index = n /\ r[Len(r)].completed = marks[n].completed
        /\ r[Len(r)].dropped = n - Len(r)
    BY <2>1, RecordsOf
  <2>3. /\ job1.steps = r /\ job1.error = "none"
        /\ job1.status = IF code[a] = 0 THEN "success" ELSE "failure"
    BY DEF Reported, r
  <2>4. code[a] = 0 => marks[n].completed
    <3>1. ASSUME code[a] = 0 PROVE n = Len(Script) /\ \A i \in 1..Len(Script) : marks[i].completed
      BY <1>1, <3>1 DEF RecInv, EInv, CodeIsEarned, marks
    <3> QED BY <2>1, <3>1
  <2>5. Open(marks) <=> ~marks[n].completed
    BY <2>1 DEF Open, Last
  <2> HIDE DEF n, job1
  <2> DEFINE stop == IF r[Len(r)].completed THEN NoStep ELSE n
  <2>6. Names(job1, n, stop)
    <3>1. /\ job1.status \in {"success", "failure"}
          /\ job1.status = "success" => r[Len(r)].completed
      BY <2>2, <2>3, <2>4
    <3>2. /\ r \in Seq(Rec) /\ n \in Nat \ {0} /\ Len(r) \in 1..n
          /\ \A i \in 1..Len(r) - 1 : r[i].completed /\ r[i].dropped = 0
          /\ r[Len(r)].index = n /\ r[Len(r)].dropped = n - Len(r)
      BY <2>1, <2>2 DEF n
    <3> QED BY <2>3, <3>1, <3>2, VerdictOf
  <2>7. stop = IF Open(marks) THEN n ELSE NoStep
    BY <2>2, <2>5
  <2>8. (job1.status = "success") <=> (code[a] = 0)
    BY <2>3
  <2> HIDE DEF stop
  <2> QED BY <2>6, <2>7, <2>8 DEF Names, marks, n, job1
<1>2. RecInv => StopIsNamed
  BY <1>1 DEF StopIsNamed
<1> QED BY <1>2, RecInvHolds, PTL
===============================================================================
