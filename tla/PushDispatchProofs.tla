-------------------------- MODULE PushDispatchProofs --------------------------
(***************************************************************************)
(* Proofs about PushDispatch for every set of deliveries, requests and     *)
(* direct callers, every ceiling, and every bound on redeliveries, faults  *)
(* and restarts: a push is sent to GitHub at most once, and handed to the  *)
(* device pool after a refusal at most once and only if GitHub runs        *)
(* nothing for it.                                                         *)
(***************************************************************************)
EXTENDS PushDispatch, FiniteSetTheorems, WellFoundedInduction, TLAPS

Steps == {"idle", "looking", "diverting", "holding", "choosing", "registering",
          "claiming", "lost", "sending", "handing", "calling"} \cup Answers

\* A counter per delivery stays one, whatever it is raised at.
LEMMA Counts ==
  ASSUME NEW f \in [Deliveries -> Nat], NEW d, NEW n \in Nat
  PROVE  [f EXCEPT ![d] = @ + n] \in [Deliveries -> Nat]
<1> DEFINE g == [f EXCEPT ![d] = @ + n]
<1>1. CASE d \in Deliveries
  <2>1. f[d] + n \in Nat
    BY <1>1
  <2> QED BY <2>1
<1>2. CASE d \notin Deliveries
  <2>1. \A e \in Deliveries : g[e] = f[e]
    BY <1>2
  <2>2. g = [e \in Deliveries |-> g[e]]
    OBVIOUS
  <2>3. \A e \in Deliveries : g[e] \in Nat
    BY <2>1
  <2> HIDE DEF g
  <2>4. g \in [Deliveries -> Nat]
    BY <2>2, <2>3
  <2> QED BY <2>4 DEF g
<1> QED BY <1>1, <1>2

\* The part of the type invariant the argument needs.
Shape ==
  /\ state \in [Deliveries -> {"absent", "ready", "attempting"} \cup Terminal]
  /\ asked \in [Deliveries -> Nat] /\ runs \in [Deliveries -> Nat]
  /\ queued \in [Deliveries -> Nat]
  /\ pc \in [Threads \cup Callers -> Steps]
  /\ rec = [w \in Threads |-> rec[w]]

\* A dispatch that is about to be sent is the first of its delivery.
SentOnce ==
  /\ OneAttempt
  /\ \A w \in Threads, d \in Deliveries : rec[w] = d /\ pc[w] = "sending" => asked[d] = 0

\* No run exists of a push that was not sent, that GitHub just refused, or whose row
\* says rejected.
RefusedRunsNothing ==
  \A d \in Deliveries :
    /\ asked[d] = 0 => runs[d] = 0
    /\ state[d] = "rejected" => runs[d] = 0
    /\ \A w \in Threads : rec[w] = d /\ pc[w] = "refused" => runs[d] = 0

\* One thread hands a push over, and only a rejected one nobody handed over before.
HandsOverAlone ==
  \A d \in Deliveries, w \in Threads : rec[w] = d /\ pc[w] = "handing" =>
    /\ state[d] = "rejected" /\ queued[d] = 0
    /\ \A v \in Threads : rec[v] = d /\ pc[v] = "handing" => v = w

\* A push handed over after a refusal was handed over once, and runs nowhere else.
QueuedOnce ==
  \A d \in Deliveries : queued[d] > 0 => queued[d] = 1 /\ runs[d] = 0 /\ state[d] = "rejected"

\* The inductive invariant: OneAttempt needs the claim to be exclusive, and
\* QueuedOnce needs both, since a hand-over rests on what the claim's winner heard.
DInv == /\ Shape /\ ClaimIsExclusive /\ SentOnce
        /\ RefusedRunsNothing /\ HandsOverAlone /\ QueuedOnce

\* The steps of a thread that matter: the attempt, and the hand-over.
Decisive == {"sending", "handing"} \cup Answers

\* Only thread w moves.
Others(w) == \A v \in Threads \ {w} : pc'[v] = pc[v] /\ rec'[v] = rec[v]

\* A step that leaves the row and what was sent alone, and starts neither an attempt
\* nor a hand-over, keeps the invariant.
LEMMA QuietStep ==
  ASSUME DInv, Shape', UNCHANGED <<state, asked, runs, queued>>,
         \A w \in Threads : \/ pc'[w] = pc[w] /\ rec'[w] = rec[w]
                            \/ pc'[w] \notin Decisive
  PROVE  DInv'
<1>1. ClaimIsExclusive'
  BY DEF DInv, ClaimIsExclusive, Sending, Decisive
<1>2. SentOnce'
  BY DEF DInv, SentOnce, OneAttempt, Decisive
<1>3. RefusedRunsNothing'
  BY DEF DInv, RefusedRunsNothing, Decisive, Answers
<1>4. HandsOverAlone'
  BY DEF DInv, HandsOverAlone, Decisive
<1>5. QueuedOnce'
  BY DEF DInv, QueuedOnce
<1> QED BY <1>1, <1>2, <1>3, <1>4, <1>5 DEF DInv

\* A ready row is rejected, by one thread, which may go on to hand the push over.
LEMMA RejectStep ==
  ASSUME DInv, Shape', UNCHANGED <<asked, runs, queued>>, NEW w \in Threads, NEW d,
         Others(w), state[d] = "ready", state' = [state EXCEPT ![d] = "rejected"],
         pc'[w] \notin Decisive \/ (pc'[w] = "handing" /\ rec'[w] = d)
  PROVE  DInv'
<1>1. \A e \in Deliveries : IF e = d THEN state[e] = "ready" /\ state'[e] = "rejected"
                                     ELSE state'[e] = state[e]
  BY DEF DInv, Shape
<1>2. ClaimIsExclusive'
  BY <1>1 DEF DInv, ClaimIsExclusive, Sending, Decisive, Others, Answers
<1>3. SentOnce'
  BY DEF DInv, SentOnce, OneAttempt, Decisive, Others
<1>4. RefusedRunsNothing'
  BY <1>1 DEF DInv, Shape, RefusedRunsNothing, ClaimIsExclusive, Decisive, Others, Answers
<1>5. HandsOverAlone'
  BY <1>1 DEF DInv, Shape, HandsOverAlone, QueuedOnce, Decisive, Others
<1>6. QueuedOnce'
  BY <1>1 DEF DInv, QueuedOnce
<1> QED BY <1>2, <1>3, <1>4, <1>5, <1>6 DEF DInv

\* The steps of the attempt: the claim, the dispatch, the result, the hand-over.
LEMMA ClaimStep ==
  ASSUME DInv, NEW w \in Threads, Claim(w), state[rec[w]] = "ready"
  PROVE  DInv'
<1> DEFINE d == rec[w]
<1>1. /\ Shape' /\ Others(w) /\ pc'[w] = "sending" /\ rec'[w] = d
      /\ UNCHANGED <<asked, runs, queued>>
  BY DEF Claim, goes, observed, DInv, Shape, Threads, Steps, Others
<1>2. \A e \in Deliveries : IF e = d THEN state[e] = "ready" /\ state'[e] = "attempting"
                                     ELSE state'[e] = state[e]
  BY DEF Claim, DInv, Shape
<1> HIDE DEF d
<1>3. ClaimIsExclusive'
  BY <1>1, <1>2 DEF DInv, Shape, ClaimIsExclusive, Sending, Others
<1>4. SentOnce'
  BY <1>1, <1>2 DEF DInv, Shape, SentOnce, OneAttempt, ClaimIsExclusive, Others
<1>5. RefusedRunsNothing'
  BY <1>1, <1>2 DEF DInv, RefusedRunsNothing, Others
<1>6. HandsOverAlone'
  BY <1>1, <1>2 DEF DInv, HandsOverAlone, Others
<1>7. QueuedOnce'
  BY <1>1, <1>2 DEF DInv, QueuedOnce
<1> QED BY <1>1, <1>3, <1>4, <1>5, <1>6, <1>7 DEF DInv

LEMMA SendStep ==
  ASSUME DInv, NEW w \in Threads, NEW o \in Answers, Send(w, o)
  PROVE  DInv'
<1> DEFINE d == rec[w]
<1>1. /\ Others(w) /\ pc[w] = "sending" /\ pc'[w] = o /\ rec'[w] = d
      /\ UNCHANGED <<state, queued>>
  BY DEF Send, goes, ledger, DInv, Shape, Threads, Others
<1>2. \A e \in Deliveries : IF e = d THEN asked'[e] = asked[e] + 1
                                     ELSE asked'[e] = asked[e] /\ runs'[e] = runs[e]
  BY DEF Send, DInv, Shape
<1>3. Shape'
  <2>1. PICK n \in {0, 1} : runs' = [runs EXCEPT ![d] = @ + n]
    BY DEF Send, started
  <2>2. runs' \in [Deliveries -> Nat]
    BY <2>1, Counts DEF DInv, Shape
  <2>3. asked' = [asked EXCEPT ![d] = @ + 1]
    BY DEF Send
  <2>4. asked' \in [Deliveries -> Nat]
    BY <2>3, Counts DEF DInv, Shape
  <2>5. pc' \in [Threads \cup Callers -> Steps] /\ rec' = rec /\ UNCHANGED <<state, queued>>
    BY DEF Send, goes, ledger, DInv, Shape, Threads, Steps
  <2> QED BY <2>2, <2>4, <2>5 DEF DInv, Shape
<1>4. \A e \in Deliveries : e = d /\ o = "refused" => runs'[e] = runs[e]
  BY DEF Send, started, DInv, Shape
<1> HIDE DEF d
<1>5. \A e \in Deliveries : e = d => asked[e] = 0 /\ state[e] = "attempting"
  BY <1>1 DEF d, DInv, SentOnce, ClaimIsExclusive, Sending
<1>6. ClaimIsExclusive'
  BY <1>1, <1>2, <1>5 DEF d, DInv, ClaimIsExclusive, Sending, Others
<1>7. \A v \in Threads, e \in Deliveries :
        e = d /\ rec[v] = e /\ pc[v] \in {"sending"} \cup Answers => v = w
  BY <1>1 DEF d, DInv, ClaimIsExclusive, Sending
<1>8. SentOnce'
  BY <1>1, <1>2, <1>5, <1>7 DEF DInv, Shape, SentOnce, OneAttempt, Others, Answers
<1>9. RefusedRunsNothing'
  BY <1>1, <1>2, <1>4, <1>5, <1>7 DEF DInv, Shape, RefusedRunsNothing, Others, Answers
<1>10. HandsOverAlone'
  BY <1>1 DEF DInv, HandsOverAlone, Others, Answers
<1>11. QueuedOnce'
  BY <1>1, <1>2, <1>5 DEF DInv, QueuedOnce
<1> QED BY <1>3, <1>6, <1>8, <1>9, <1>10, <1>11 DEF DInv

LEMMA FinishStep ==
  ASSUME DInv, NEW w \in Threads, NEW o \in Answers, Finish(w, o, TRUE)
  PROVE  DInv'
<1> DEFINE d == rec[w]
<1>1. /\ Others(w) /\ pc[w] = o /\ UNCHANGED <<asked, runs, queued>>
      /\ \/ pc'[w] = "idle"
         \/ pc'[w] = "handing" /\ rec'[w] = d /\ o = "refused"
  BY DEF Finish, refused_to, finished, goes, result, observed, DInv, Shape, Threads, Others, Answers
<1>2. \A e \in Deliveries :
        state'[e] = IF e = d THEN (IF o = "accepted" THEN "accepted"
                                   ELSE IF o = "refused" THEN "rejected" ELSE "uncertain")
                    ELSE state[e]
  BY DEF Finish, result, DInv, Shape, Answers
<1>3. Shape'
  BY DEF Finish, refused_to, finished, goes, result, observed, DInv, Shape, Threads, Steps,
     Terminal, Answers
<1> HIDE DEF d
<1>4. \A e \in Deliveries : e = d => state[e] = "attempting"
  BY <1>1 DEF d, DInv, ClaimIsExclusive, Sending
<1>5. \A v \in Threads, e \in Deliveries :
        e = d /\ rec[v] = e /\ pc[v] \in {"sending"} \cup Answers => v = w
  BY <1>1 DEF d, DInv, ClaimIsExclusive, Sending
<1>6. ClaimIsExclusive'
  BY <1>1, <1>2, <1>5 DEF DInv, ClaimIsExclusive, Sending, Others, Answers
<1>7. SentOnce'
  BY <1>1 DEF DInv, SentOnce, OneAttempt, Others
<1>8. RefusedRunsNothing'
  BY <1>1, <1>2, <1>4 DEF d, DInv, RefusedRunsNothing, Others
<1>9. HandsOverAlone'
  BY <1>1, <1>2, <1>4 DEF DInv, Shape, HandsOverAlone, QueuedOnce, Others
<1>10. QueuedOnce'
  BY <1>1, <1>2, <1>4 DEF DInv, QueuedOnce
<1> QED BY <1>3, <1>6, <1>7, <1>8, <1>9, <1>10 DEF DInv

LEMMA HandOffStep ==
  ASSUME DInv, NEW w \in Threads, HandOff(w, TRUE)
  PROVE  DInv'
<1> DEFINE d == rec[w]
<1>1. /\ Others(w) /\ pc[w] = "handing" /\ pc'[w] = "idle"
      /\ UNCHANGED <<state, asked, runs>>
  BY DEF HandOff, finished, ledger, DInv, Shape, Threads, Others
<1>2. \A e \in Deliveries : queued'[e] = IF e = d THEN queued[e] + 1 ELSE queued[e]
  BY DEF HandOff, DInv, Shape
<1>3. Shape'
  <2>1. queued' = [queued EXCEPT ![d] = @ + 1]
    BY DEF HandOff
  <2>2. queued' \in [Deliveries -> Nat]
    BY <2>1, Counts DEF DInv, Shape
  <2>3. /\ pc' \in [Threads \cup Callers -> Steps] /\ rec' = [rec EXCEPT ![w] = None]
        /\ UNCHANGED <<state, asked, runs>>
    BY DEF HandOff, finished, ledger, DInv, Shape, Threads, Steps
  <2>4. rec' = [v \in Threads |-> rec'[v]]
    BY <2>3 DEF DInv, Shape
  <2> QED BY <2>2, <2>3, <2>4 DEF DInv, Shape
<1> HIDE DEF d
<1>4. \A e \in Deliveries : e = d =>
        /\ state[e] = "rejected" /\ queued[e] = 0 /\ runs[e] = 0
        /\ \A v \in Threads : rec[v] = e /\ pc[v] = "handing" => v = w
  BY <1>1 DEF d, DInv, HandsOverAlone, RefusedRunsNothing
<1>5. ClaimIsExclusive'
  BY <1>1 DEF DInv, ClaimIsExclusive, Sending, Others, Answers
<1>6. SentOnce'
  BY <1>1 DEF DInv, SentOnce, OneAttempt, Others
<1>7. RefusedRunsNothing'
  BY <1>1 DEF DInv, RefusedRunsNothing, Others
<1>8. HandsOverAlone'
  BY <1>1, <1>2, <1>4 DEF DInv, HandsOverAlone, Others
<1>9. QueuedOnce'
  BY <1>1, <1>2, <1>4 DEF DInv, QueuedOnce
<1> QED BY <1>3, <1>5, <1>6, <1>7, <1>8, <1>9 DEF DInv

\* A restart ends every attempt and every hand-over.
LEMMA RestartStep ==
  ASSUME DInv, Restart
  PROVE  DInv'
<1>1. \A w \in Threads : pc'[w] = "idle"
  BY DEF Restart
<1>2. \A d \in Deliveries : state'[d] = IF state[d] = "attempting" THEN "uncertain" ELSE state[d]
  BY DEF Restart, recover
<1>3. Shape'
  BY <1>2 DEF Restart, recover, observed, DInv, Shape, Steps, Terminal
<1>4. UNCHANGED <<asked, runs, queued>>
  BY DEF Restart, observed
<1>5. ClaimIsExclusive'
  BY <1>1, <1>2, <1>4 DEF DInv, ClaimIsExclusive, Sending, Answers
<1>6. SentOnce' /\ RefusedRunsNothing' /\ HandsOverAlone'
  BY <1>1, <1>2, <1>4 DEF DInv, SentOnce, OneAttempt, RefusedRunsNothing, HandsOverAlone
<1>7. QueuedOnce'
  BY <1>2, <1>4 DEF DInv, QueuedOnce
<1> QED BY <1>3, <1>5, <1>6, <1>7 DEF DInv

\* A request registers its row, or finds another's.
LEMMA RegisterStep ==
  ASSUME DInv, NEW h \in Handlers, Register(h)
  PROVE  DInv'
<1>1. h \in Threads /\ Others(h) /\ pc'[h] = "claiming" /\ UNCHANGED <<asked, runs, queued>>
  BY DEF Register, goes, observed, DInv, Shape, Threads, Others
<1>2. \A d \in Deliveries : state'[d] = state[d] \/ (state[d] = "absent" /\ state'[d] = "ready")
  BY DEF Register, DInv, Shape
<1>3. Shape'
  BY DEF Register, goes, observed, DInv, Shape, Threads, Steps
<1>4. ClaimIsExclusive'
  BY <1>1, <1>2 DEF DInv, ClaimIsExclusive, Sending, Others, Answers
<1>5. SentOnce'
  BY <1>1 DEF DInv, SentOnce, OneAttempt, Others
<1>6. RefusedRunsNothing' /\ HandsOverAlone'
  BY <1>1, <1>2 DEF DInv, RefusedRunsNothing, HandsOverAlone, Others
<1>7. QueuedOnce'
  BY <1>1, <1>2 DEF DInv, QueuedOnce
<1> QED BY <1>3, <1>4, <1>5, <1>6, <1>7 DEF DInv

\* Every action keeps the invariant.
LEMMA DInvInductive ==
  ASSUME DInv, [Next]_vars
  PROVE  DInv'
<1> DEFINE quiet == \A w \in Threads : \/ pc'[w] = pc[w] /\ rec'[w] = rec[w]
                                       \/ pc'[w] \notin Decisive
<1> USE DEF Decisive, Answers
<1>1. ASSUME NEW h \in Handlers, NEW d \in Deliveries, Receive(h, d) PROVE DInv'
  <2>1. Shape' /\ quiet
    BY <1>1 DEF Receive, ledger, observed, DInv, Shape, Threads, Steps
  <2> QED BY <1>1, <2>1, QuietStep DEF Receive, ledger, observed
<1>2. ASSUME NEW w \in Threads, LookupFails(w) \/ Divert(w) \/ StoreFails(w) \/ AnswerDuplicate(w)
      PROVE  DInv'
  <2>1. finished(w) /\ UNCHANGED <<state, asked, runs, queued>>
    BY <1>2 DEF LookupFails, Divert, StoreFails, AnswerDuplicate, ledger, observed
  <2>2. Shape' /\ quiet
    BY <2>1 DEF finished, DInv, Shape, Threads, Steps
  <2> QED BY <2>1, <2>2, QuietStep
<1>3. ASSUME NEW w \in Threads, TakeHold(w) PROVE DInv'
  <2>1. /\ goes(w, "choosing") \/ goes(w, "claiming") \/ finished(w)
           \/ \E p \in {"choosing", "claiming"} : pc' = [pc EXCEPT ![w] = p] /\ rec' = rec
        /\ UNCHANGED <<state, asked, runs, queued>>
    BY <1>3 DEF TakeHold, ledger, observed
  <2>2. Shape' /\ quiet
    BY <2>1 DEF finished, goes, DInv, Shape, Threads, Steps
  <2> QED BY <2>1, <2>2, QuietStep
<1>4. ASSUME NEW h \in Handlers, NEW found \in BOOLEAN,
             ChooseHosted(h) \/ ChooseLocal(h, found)
      PROVE  DInv'
  <2>1. Shape' /\ quiet
    BY <1>4 DEF ChooseHosted, ChooseLocal, finished, ledger, observed, DInv, Shape, Threads, Steps
  <2> QED BY <1>4, <2>1, QuietStep DEF ChooseHosted, ChooseLocal, ledger, observed
<1>5. ASSUME NEW c \in Callers,
             \/ Call(c) \/ CallElsewhere(c) \/ CallRaises(c)
             \/ \E pull \in BOOLEAN, o \in Answers : CallSends(c, pull, o)
      PROVE  DInv'
  <2>1. Shape' /\ quiet
    BY <1>5 DEF Call, CallElsewhere, CallRaises, CallSends, ledger, observed, DInv, Shape, Threads,
       Steps
  <2> QED BY <1>5, <2>1, QuietStep DEF Call, CallElsewhere, CallRaises, CallSends, ledger, observed
<1>6. CASE StartPass \/ Preview \/ MonthTurns \/ UNCHANGED vars
  <2>1. Shape' /\ quiet
    BY <1>6 DEF StartPass, Preview, MonthTurns, vars, ledger, observed, threads, DInv, Shape
  <2> QED
    BY <1>6, <2>1, QuietStep DEF StartPass, Preview, MonthTurns, vars, ledger, observed
<1>7. CASE NextRecord
  <2>0. PICK d, to, next :
          /\ state' = [state EXCEPT ![d] = IF d \notin permitted /\ state[d] = "ready"
                                           THEN "rejected" ELSE @]
          /\ pc' = [pc EXCEPT ![Replay] = to] /\ to \in {"looking", "idle", "handing"}
          /\ rec' = [rec EXCEPT ![Replay] = next] /\ (to = "handing" => next = d)
          /\ to = "handing" => d \notin permitted /\ state[d] = "ready"
          /\ UNCHANGED <<asked, runs, queued>>
    BY <1>7 DEF NextRecord, observed
  <2>1. /\ Shape' /\ Others(Replay) /\ Replay \in Threads /\ UNCHANGED <<asked, runs, queued>>
        /\ pc'[Replay] \in {"looking", "idle"} \/ (pc'[Replay] = "handing" /\ rec'[Replay] = d)
    BY <2>0 DEF DInv, Shape, Threads, Steps, Terminal, Others
  <2>2. CASE d \notin permitted /\ state[d] = "ready"
    <3>1. state' = [state EXCEPT ![d] = "rejected"]
      BY <2>0, <2>2
    <3> QED BY <2>1, <2>2, <3>1, RejectStep
  <2>3. CASE d \in permitted \/ state[d] # "ready"
    <3>1. state' = state /\ quiet
      BY <2>0, <2>1, <2>3 DEF DInv, Shape, Others, Threads
    <3> QED BY <2>1, <3>1, QuietStep
  <2> QED BY <2>2, <2>3
<1>8. ASSUME NEW w \in Threads, AdapterMissing(w) PROVE DInv'
  <2>1. Shape' /\ Others(w) /\ UNCHANGED <<asked, runs, queued>>
    BY <1>8 DEF AdapterMissing, refused_to, finished, goes, observed, DInv, Shape, Threads, Steps,
       Terminal, Others
  <2>2. CASE state' = state /\ (finished(w) \/ goes(w, "diverting") \/ goes(w, "holding"))
    <3>1. quiet
      BY <2>1, <2>2 DEF finished, goes, Others, DInv, Shape, Threads
    <3> QED BY <2>1, <2>2, <3>1, QuietStep
  <2>3. CASE /\ state[rec[w]] = "ready" /\ state' = [state EXCEPT ![rec[w]] = "rejected"]
             /\ refused_to(w)
    <3>1. pc'[w] = "idle" \/ (pc'[w] = "handing" /\ rec'[w] = rec[w])
      BY <2>3 DEF refused_to, finished, goes, DInv, Shape, Threads
    <3> QED BY <2>1, <2>3, <3>1, RejectStep
  <2> QED BY <1>8, <2>2, <2>3 DEF AdapterMissing
<1>9. ASSUME NEW w \in Threads, Claim(w) PROVE DInv'
  <2>1. CASE state[rec[w]] # "ready"
    <3>1. Shape' /\ quiet /\ UNCHANGED <<state, asked, runs, queued>>
      BY <1>9, <2>1 DEF Claim, goes, observed, DInv, Shape, Threads, Steps
    <3> QED BY <3>1, QuietStep
  <2> QED BY <1>9, <2>1, ClaimStep
<1>10. ASSUME NEW w \in Threads, NEW o \in Answers, Finish(w, o, FALSE) PROVE DInv'
  <2>1. finished(w) /\ UNCHANGED <<state, asked, runs, queued>>
    BY <1>10 DEF Finish, observed
  <2>2. Shape' /\ quiet
    BY <2>1 DEF finished, DInv, Shape, Threads, Steps
  <2> QED BY <2>1, <2>2, QuietStep
<1>11. ASSUME NEW w \in Threads, HandOff(w, FALSE) PROVE DInv'
  <2>1. finished(w) /\ UNCHANGED <<state, asked, runs, queued>>
    BY <1>11 DEF HandOff, ledger
  <2>2. Shape' /\ quiet
    BY <2>1 DEF finished, DInv, Shape, Threads, Steps
  <2> QED BY <2>1, <2>2, QuietStep
<1> HIDE DEF Answers, quiet
<1>12. ASSUME NEW w \in Threads, ThreadStep(w) PROVE DInv'
  BY <1>2, <1>3, <1>8, <1>9, <1>10, <1>11, <1>12, SendStep, FinishStep, HandOffStep
  DEF ThreadStep
<1>13. ASSUME NEW h \in Handlers, HandlerStep(h) PROVE DInv'
  BY <1>4, <1>12, <1>13, RegisterStep DEF HandlerStep, Threads
<1>14. CASE ReplayStep
  BY <1>6, <1>7, <1>12, <1>14 DEF ReplayStep, Threads
<1> QED
  BY <1>1, <1>5, <1>6, <1>13, <1>14, RestartStep DEF Next

\* An empty ledger with nobody at work satisfies the invariant.
LEMMA DInvInit == Init => DInv
<1> SUFFICES ASSUME Init PROVE DInv
  OBVIOUS
<1>1. Shape
  BY DEF Init, Shape, Steps
<1>2. ClaimIsExclusive /\ SentOnce /\ RefusedRunsNothing /\ HandsOverAlone /\ QueuedOnce
  BY DEF Init, ClaimIsExclusive, SentOnce, OneAttempt, RefusedRunsNothing, HandsOverAlone,
     QueuedOnce, Sending, Answers
<1> QED BY <1>1, <1>2 DEF DInv

\* The invariant holds in every state the dispatcher reaches.
THEOREM DInvHolds == Spec => []DInv
<1> QED BY DInvInit, DInvInductive, PTL DEF Spec

\* One automatic dispatch attempt per delivery (deliveries.py:44), whatever requests,
\* redeliveries, replay passes, store faults and restarts come together.
THEOREM OneAttemptHolds == Spec => []OneAttempt
<1>1. DInv => OneAttempt
  BY DEF DInv, SentOnce
<1> QED BY <1>1, DInvHolds, PTL

\* The claim of a delivery is exclusive, and final: a row that moved past "ready"
\* never comes back to it (DeliveryStore.claim, recover).
THEOREM ClaimIsExclusiveHolds == Spec => []ClaimIsExclusive
<1>1. DInv => ClaimIsExclusive
  BY DEF DInv
<1> QED BY <1>1, DInvHolds, PTL

-----------------------------------------------------------------------------
(* What is held for, and what is handed over *)

\* A thread at one of these steps has its hold still to account for.
Working == {"choosing", "registering", "claiming", "sending", "calling"}
Held == {hold[w] : w \in {v \in Threads \cup Callers : pc[v] \in Working}}
Free == holds \ Held

\* The metered ledger is finite, so that it has a greatest id.
HoldTypes == /\ holds \in SUBSET Nat /\ IsFiniteSet(holds)
             /\ \E b \in Nat : \A n \in holds : n <= b

CountTypes == /\ hold \in [Threads \cup Callers -> Nat \cup {None}]
              /\ atRisk \in Nat /\ previews \in Nat /\ crashes \in Nat /\ faults \in Nat
              /\ unreleased \in Nat

\* What the ledger may go on charging for once nobody is at work.
Charged == atRisk + previews + unreleased

\* A hold is in a thread's hands, or one of the dispatches sent, of the previews and of
\* the holds whose release failed.
HoldsAreAccounted == crashes = 0 => Cardinality(Free) <= Charged

\* The inductive invariant of the budget and of the hand-over; it rests on Shape alone.
RInv == HoldTypes /\ CountTypes /\ HoldsAreAccounted /\ RefusedIsHandedOver

\* Numbers below a bound have a greatest one.
LEMMA GreatestOf ==
  ASSUME NEW S \in SUBSET Nat, S # {}, NEW b \in Nat, \A x \in S : x <= b
  PROVE  \E x \in S : \A y \in S : y <= x
<1> DEFINE Less == {p \in Nat \X Nat : p[1] < p[2]}
           Bounds == {x \in Nat : \A y \in S : y <= x}
<1>1. PICK m \in Bounds : \A x \in Bounds : ~(x < m)
  <2>1. Bounds # {} /\ Bounds \subseteq Nat
    OBVIOUS
  <2>2. IsWellFoundedOn(Less, Nat)
    BY NatLessThanWellFounded DEF OpToRel
  <2>3. \E m \in Bounds : \A x \in Bounds : ~(<<x, m>> \in Less)
    <3> HIDE DEF Bounds, Less
    <3> QED BY <2>1, <2>2, WFMin
  <2> QED BY <2>1, <2>3
<1>2. m \in S
  <2> SUFFICES ASSUME m \notin S PROVE FALSE
    OBVIOUS
  <2>1. m \in Nat /\ \A y \in S : y \in Nat /\ y <= m /\ y # m
    OBVIOUS
  <2>2. PICK y \in S : TRUE
    OBVIOUS
  <2>3. m \in Nat /\ (\A x \in S : x \in Nat /\ x <= m /\ x # m) /\ m # 0
    BY <2>1, <2>2
  <2>4. m - 1 \in Bounds
    BY <2>3
  <2> QED BY <1>1, <2>3, <2>4
<1> QED BY <1>2

\* A new hold has an id of its own.
LEMMA NextIdIsNew ==
  ASSUME HoldTypes
  PROVE  next_id \in Nat /\ \A n \in holds : n < next_id
<1>1. CASE holds = {}
  BY <1>1 DEF next_id
<1>2. CASE holds # {}
  <2>1. PICK b \in Nat : \A n \in holds : n <= b
    BY DEF HoldTypes
  <2>2. holds \in SUBSET Nat
    BY DEF HoldTypes
  <2>3. \E n \in holds : \A m \in holds : m <= n
    BY <1>2, <2>1, <2>2, GreatestOf
  <2> DEFINE top == CHOOSE n \in holds : \A m \in holds : m <= n
  <2>4. top \in holds /\ \A m \in holds : m <= top
    BY <2>3
  <2>5. next_id = 1 + top
    BY <1>2 DEF next_id
  <2> HIDE DEF top
  <2> QED BY <2>2, <2>4, <2>5
<1> QED BY <1>1, <1>2

\* Holds are given back, or one is taken.
LEMMA HoldTypesKept ==
  ASSUME HoldTypes, holds' \subseteq holds \/ holds' = holds \cup {next_id}
  PROVE  HoldTypes'
<1>1. CASE holds' \subseteq holds
  <2>1. IsFiniteSet(holds')
    BY <1>1, FS_Subset DEF HoldTypes
  <2> QED BY <1>1, <2>1 DEF HoldTypes
<1>2. CASE holds' = holds \cup {next_id}
  <2>1. IsFiniteSet(holds')
    BY <1>2, FS_AddElement DEF HoldTypes
  <2>2. next_id \in Nat /\ \A n \in holds' : n <= next_id
    BY <1>2, NextIdIsNew DEF HoldTypes
  <2>3. holds' \in SUBSET Nat
    BY <1>2, <2>2 DEF HoldTypes
  <2> QED BY <2>1, <2>2, <2>3 DEF HoldTypes
<1> QED BY <1>1, <1>2

LEMMA InOrder ==
  ASSUME NEW k \in Nat, NEW l \in Nat, NEW a \in Nat, NEW b \in Nat, k <= a,
         (l <= k /\ a <= b) \/ ((l <= k \/ l <= k + 1) /\ a + 1 <= b)
  PROVE  l <= b
OBVIOUS

LEMMA SumIsNat ==
  ASSUME NEW a \in Nat, NEW b \in Nat, NEW c \in Nat
  PROVE  a + b + c \in Nat
OBVIOUS

LEMMA ChargedType ==
  ASSUME CountTypes
  PROVE  Charged \in Nat
<1>1. atRisk \in Nat /\ previews \in Nat /\ unreleased \in Nat
  BY Zenon DEF CountTypes
<1> QED BY <1>1 DEF Charged

LEMMA ChargedTypeNext ==
  ASSUME CountTypes'
  PROVE  Charged' \in Nat
<1>1. atRisk' \in Nat /\ previews' \in Nat /\ unreleased' \in Nat
  BY Zenon DEF CountTypes
<1>2. Charged' = atRisk' + previews' + unreleased'
  BY DEF Charged
<1> QED BY <1>1, <1>2, SumIsNat

\* The books stay balanced when no hold comes loose, or one does and is charged for.
LEMMA Balanced ==
  ASSUME HoldTypes, HoldTypes', CountTypes, CountTypes', HoldsAreAccounted,
         UNCHANGED crashes, NEW x,
         \/ Free' \subseteq Free /\ Charged <= Charged'
         \/ Free' \subseteq Free \cup {x} /\ Charged + 1 <= Charged'
  PROVE  HoldsAreAccounted'
<1> SUFFICES ASSUME crashes = 0 PROVE Cardinality(Free') <= Charged'
  BY DEF HoldsAreAccounted
<1>1. IsFiniteSet(Free)
  BY FS_Subset DEF Free, HoldTypes
<1>2. IsFiniteSet(Free')
  BY FS_Subset DEF Free, HoldTypes
<1>3. Cardinality(Free) \in Nat /\ Cardinality(Free') \in Nat
  BY <1>1, <1>2, FS_CardinalityType
<1>4. Cardinality(Free) <= Charged
  BY DEF HoldsAreAccounted
<1>5. Charged \in Nat /\ Charged' \in Nat
  BY ChargedType, ChargedTypeNext
<1>6. CASE Free' \subseteq Free /\ Charged <= Charged'
  <2>1. Cardinality(Free') <= Cardinality(Free)
    BY <1>1, <1>6, FS_Subset
  <2> QED BY <1>3, <1>4, <1>5, <1>6, <2>1, InOrder
<1>7. CASE Free' \subseteq Free \cup {x} /\ Charged + 1 <= Charged'
  <2>1. /\ IsFiniteSet(Free \cup {x})
        /\ Cardinality(Free \cup {x}) = Cardinality(Free)
           \/ Cardinality(Free \cup {x}) = Cardinality(Free) + 1
    BY <1>1, FS_AddElement
  <2>2. Cardinality(Free') <= Cardinality(Free \cup {x})
    BY <1>7, <2>1, FS_Subset
  <2>3. Cardinality(Free') <= Cardinality(Free) \/ Cardinality(Free') <= Cardinality(Free) + 1
    BY <2>1, <2>2
  <2> QED BY <1>3, <1>4, <1>5, <1>7, <2>3, InOrder
<1> QED BY <1>6, <1>7

\* Only thread w moves, or changes what it holds.
OthersHold(w) ==
  \A v \in (Threads \cup Callers) \ {w} : pc'[v] = pc[v] /\ hold'[v] = hold[v]

\* What w holds it goes on holding, or it gave it back.
SettlesHold(w) ==
  /\ OthersHold(w) /\ holds' \subseteq holds
  /\ pc[w] \in Working => \/ pc'[w] \in Working /\ hold'[w] = hold[w]
                          \/ hold[w] \notin holds'

\* A thread that settles its hold leaves none loose.
LEMMA SettledStep ==
  ASSUME RInv, CountTypes', UNCHANGED <<crashes, previews, unreleased>>,
         atRisk' = atRisk \/ atRisk' = atRisk + 1,
         NEW w \in Threads \cup Callers, SettlesHold(w)
  PROVE  HoldTypes' /\ HoldsAreAccounted'
<1>1. HoldTypes'
  BY HoldTypesKept DEF RInv, SettlesHold
<1>2. Free' \subseteq Free
  <2> SUFFICES ASSUME NEW n \in Free', n \notin Free PROVE FALSE
    OBVIOUS
  <2>1. n \in holds' /\ n \in holds /\ n \in Held /\ n \notin Held'
    BY DEF Free, SettlesHold
  <2>2. PICK v \in Threads \cup Callers : pc[v] \in Working /\ hold[v] = n
    BY <2>1 DEF Held
  <2>3. ~(pc'[v] \in Working /\ hold'[v] = n)
    BY <2>1 DEF Held
  <2> QED BY <2>1, <2>2, <2>3 DEF SettlesHold, OthersHold
<1>3. Charged <= Charged'
  <2>1. atRisk \in Nat /\ previews \in Nat /\ unreleased \in Nat
    BY DEF RInv, CountTypes
  <2> QED BY <2>1 DEF Charged
<1>4. HoldsAreAccounted'
  BY <1>1, <1>2, <1>3, Balanced DEF RInv
<1> QED BY <1>1, <1>4

\* Thread w takes a hold.
LEMMA HeldStep ==
  ASSUME RInv, CountTypes', UNCHANGED <<crashes, atRisk, previews, unreleased>>,
         NEW w \in Threads \cup Callers, OthersHold(w), holds' = holds \cup {next_id},
         pc[w] \notin Working, pc'[w] \in Working, hold'[w] = next_id
  PROVE  HoldTypes' /\ HoldsAreAccounted'
<1>1. HoldTypes'
  BY HoldTypesKept DEF RInv
<1>2. Free' \subseteq Free
  <2> SUFFICES ASSUME NEW n \in Free', n \notin Free PROVE FALSE
    OBVIOUS
  <2>1. n \in holds' /\ n \notin Held'
    BY DEF Free
  <2>2. n # next_id
    BY <2>1 DEF Held
  <2>3. n \in holds /\ n \in Held
    BY <2>1, <2>2 DEF Free
  <2>4. PICK v \in Threads \cup Callers : pc[v] \in Working /\ hold[v] = n
    BY <2>3 DEF Held
  <2>5. ~(pc'[v] \in Working /\ hold'[v] = n)
    BY <2>1 DEF Held
  <2> QED BY <2>4, <2>5 DEF OthersHold
<1>3. Charged <= Charged'
  <2>1. Charged' = Charged
    BY DEF Charged
  <2> QED BY <2>1, ChargedType DEF RInv
<1>4. HoldsAreAccounted'
  BY <1>1, <1>2, <1>3, Balanced DEF RInv
<1> QED BY <1>1, <1>4

\* Thread w sends its dispatch, or fails to release its hold, and leaves it in the ledger.
LEMMA ChargedStep ==
  ASSUME RInv, CountTypes', UNCHANGED crashes, Charged + 1 <= Charged',
         NEW w \in Threads \cup Callers, OthersHold(w), holds' = holds
  PROVE  HoldTypes' /\ HoldsAreAccounted'
<1>1. HoldTypes'
  BY HoldTypesKept DEF RInv
<1>2. Free' \subseteq Free \cup {hold[w]}
  <2> SUFFICES ASSUME NEW n \in Free', n \notin Free, n # hold[w] PROVE FALSE
    OBVIOUS
  <2>1. n \in Held /\ n \notin Held'
    BY DEF Free
  <2>2. PICK v \in Threads \cup Callers : pc[v] \in Working /\ hold[v] = n
    BY <2>1 DEF Held
  <2>3. ~(pc'[v] \in Working /\ hold'[v] = n)
    BY <2>1 DEF Held
  <2> QED BY <2>2, <2>3 DEF OthersHold
<1>3. HoldsAreAccounted'
  BY <1>1, <1>2, Balanced DEF RInv
<1> QED BY <1>1, <1>3

\* Thread w releases its hold, or cannot.
LEMMA ReleasedStep ==
  ASSUME RInv, CountTypes', UNCHANGED <<crashes, previews>>,
         atRisk' = atRisk \/ atRisk' = atRisk + 1,
         NEW w \in Threads \cup Callers, OthersHold(w), release(hold[w])
  PROVE  HoldTypes' /\ HoldsAreAccounted'
<1>1. CASE hold[w] \notin holds'
  <2>1. UNCHANGED unreleased /\ holds' \subseteq holds
    BY <1>1 DEF release, given_back, stays
  <2>2. SettlesHold(w)
    BY <1>1, <2>1 DEF SettlesHold
  <2> QED BY <2>1, <2>2, SettledStep
<1>2. CASE hold[w] \in holds'
  <2>1. unreleased' = unreleased + 1 /\ holds' = holds
    BY <1>2 DEF release, given_back, stays
  <2>2. atRisk \in Nat /\ previews \in Nat /\ unreleased \in Nat
    BY DEF RInv, CountTypes
  <2>3. Charged + 1 <= Charged'
    BY <2>1, <2>2 DEF Charged
  <2> QED BY <2>1, <2>3, ChargedStep
<1> QED BY <1>1, <1>2

LEMMA ReleaseTypes ==
  ASSUME CountTypes, NEW id, release(id)
  PROVE  unreleased' \in Nat
BY DEF CountTypes, release, given_back, stays

\* Whoever was handing a push over goes on doing so.
HandsOn == \A v \in Threads : pc[v] = "handing" => pc'[v] = "handing" /\ rec'[v] = rec[v]

\* A row becomes rejected in the hands of a thread that hands the push over.
RejectsInHand ==
  \A d \in DeviceOK : state'[d] = "rejected" =>
    state[d] = "rejected" \/ \E w \in Threads : rec'[w] = d /\ pc'[w] = "handing"

LEMMA HandingStep ==
  ASSUME CountTypes, RefusedIsHandedOver, HandsOn, RejectsInHand,
         UNCHANGED <<queued, crashes>>, faults' = faults \/ faults' = faults + 1
  PROVE  RefusedIsHandedOver'
<1>1. crashes + faults > 0 => (crashes + faults > 0)'
  BY DEF CountTypes
<1> SUFFICES ASSUME NEW d \in DeviceOK, state'[d] = "rejected", ~(crashes + faults > 0)',
                    ~(queued[d] > 0)
             PROVE  \E w \in Threads : rec'[w] = d /\ pc'[w] = "handing"
  BY DEF RefusedIsHandedOver
<1>2. CASE state[d] = "rejected"
  <2>1. PICK w \in Threads : rec[w] = d /\ pc[w] = "handing"
    BY <1>1, <1>2 DEF RefusedIsHandedOver
  <2> QED BY <2>1 DEF HandsOn
<1>3. CASE state[d] # "rejected"
  BY <1>3 DEF RejectsInHand
<1> QED BY <1>2, <1>3

\* Every action keeps the invariant.
LEMMA RInvInductive ==
  ASSUME DInv, RInv, [Next]_vars
  PROVE  RInv'
<1>0. /\ Shape /\ HoldTypes /\ CountTypes /\ HoldsAreAccounted /\ RefusedIsHandedOver
      /\ None \notin holds
  BY DispatchAssumption DEF RInv, DInv, HoldTypes
<1>1. ASSUME NEW h \in Handlers, NEW d \in Deliveries, Receive(h, d) PROVE RInv'
  <2>1. CountTypes' /\ UNCHANGED <<crashes, atRisk, previews, unreleased, faults, queued>>
    BY <1>0, <1>1 DEF Receive, metered, observed, CountTypes
  <2>2. SettlesHold(h) /\ h \in Threads \cup Callers
    BY <1>0, <1>1 DEF Receive, metered, Shape, CountTypes, Threads, SettlesHold, OthersHold, Working
  <2>3. HandsOn /\ RejectsInHand
    BY <1>0, <1>1 DEF Receive, ledger, Shape, Threads, HandsOn, RejectsInHand
  <2> QED BY <1>0, <2>1, <2>2, <2>3, SettledStep, HandingStep DEF RInv
<1>2. ASSUME NEW w \in Threads, LookupFails(w) \/ Divert(w) PROVE RInv'
  <2>1. CountTypes' /\ UNCHANGED <<crashes, atRisk, previews, unreleased, queued>>
        /\ (faults' = faults \/ faults' = faults + 1)
    BY <1>0, <1>2 DEF LookupFails, Divert, finished, metered, observed, bounds, CountTypes, Threads
  <2>2. SettlesHold(w) /\ w \in Threads \cup Callers
    BY <1>0, <1>2 DEF LookupFails, Divert, finished, metered, Shape, CountTypes, Threads,
       SettlesHold, OthersHold, Working
  <2>3. HandsOn /\ RejectsInHand
    BY <1>0, <1>2 DEF LookupFails, Divert, finished, ledger, Shape, Threads, HandsOn, RejectsInHand
  <2> QED BY <1>0, <2>1, <2>2, <2>3, SettledStep, HandingStep DEF RInv
<1>3. ASSUME NEW w \in Threads, StoreFails(w) PROVE RInv'
  <2>1. CountTypes' /\ UNCHANGED <<crashes, atRisk, previews, queued>> /\ faults' = faults + 1
    BY <1>0, <1>3, ReleaseTypes DEF StoreFails, finished, observed, CountTypes, Threads
  <2>2. release(hold[w]) /\ OthersHold(w) /\ w \in Threads \cup Callers
    BY <1>0, <1>3 DEF StoreFails, finished, Shape, CountTypes, Threads, OthersHold
  <2>3. HandsOn /\ RejectsInHand
    BY <1>0, <1>3 DEF StoreFails, finished, ledger, Shape, Threads, HandsOn, RejectsInHand
  <2> QED BY <1>0, <2>1, <2>2, <2>3, ReleasedStep, HandingStep DEF RInv
<1>4. ASSUME NEW w \in Threads, AnswerDuplicate(w) PROVE RInv'
  <2>1. CountTypes' /\ UNCHANGED <<crashes, atRisk, previews, queued, faults>>
    BY <1>0, <1>4, ReleaseTypes DEF AnswerDuplicate, finished, metered, observed, bounds, CountTypes,
       Threads
  <2>2. OthersHold(w) /\ w \in Threads \cup Callers /\ pc[w] \notin Working
    BY <1>0, <1>4 DEF AnswerDuplicate, finished, Shape, CountTypes, Threads, OthersHold, Working
  <2>3. HandsOn /\ RejectsInHand
    BY <1>0, <1>4 DEF AnswerDuplicate, finished, ledger, Shape, Threads, HandsOn, RejectsInHand
  <2>4. CASE release(hold[w])
    BY <1>0, <2>1, <2>2, <2>3, <2>4, ReleasedStep, HandingStep DEF RInv
  <2>5. CASE UNCHANGED metered
    <3>1. SettlesHold(w) /\ UNCHANGED unreleased
      BY <2>2, <2>5 DEF SettlesHold, metered
    <3> QED BY <1>0, <2>1, <2>2, <2>3, <3>1, SettledStep, HandingStep DEF RInv
  <2> QED BY <1>4, <2>4, <2>5 DEF AnswerDuplicate
<1>5. ASSUME NEW w \in Threads, TakeHold(w) PROVE RInv'
  <2>1. /\ UNCHANGED <<crashes, atRisk, previews, unreleased, queued, faults>>
        /\ HandsOn /\ RejectsInHand /\ w \in Threads \cup Callers /\ pc[w] \notin Working
    BY <1>0, <1>5 DEF TakeHold, reserve, metered, goes, finished, ledger, observed, bounds, Shape, Threads,
       HandsOn, RejectsInHand, Working
  <2>2. CASE pays(w) /\ room
    <3>1. /\ OthersHold(w) /\ holds' = holds \cup {next_id} /\ pc'[w] \in Working
          /\ hold'[w] = next_id /\ hold' = [hold EXCEPT ![w] = next_id]
      BY <1>0, <1>5, <2>1, <2>2 DEF TakeHold, reserve, Shape, CountTypes, OthersHold, Working
    <3>2. CountTypes'
      BY <1>0, <2>1, <3>1, NextIdIsNew DEF CountTypes
    <3> QED BY <1>0, <2>1, <3>1, <3>2, HeldStep, HandingStep DEF RInv
  <2>3. CASE holds' = holds /\ (goes(w, "choosing") \/ goes(w, "claiming") \/ finished(w))
    <3>1. CountTypes' /\ SettlesHold(w)
      BY <1>0, <2>1, <2>3 DEF goes, finished, Shape, CountTypes, SettlesHold, OthersHold
    <3> QED BY <1>0, <2>1, <3>1, SettledStep, HandingStep DEF RInv
  <2> QED BY <1>5, <2>2, <2>3 DEF TakeHold, metered
<1>6. ASSUME NEW h \in Handlers, ChooseHosted(h) \/ Register(h) PROVE RInv'
  <2>1. CountTypes' /\ UNCHANGED <<crashes, atRisk, previews, unreleased, queued, faults>>
    BY <1>0, <1>6 DEF ChooseHosted, Register, goes, metered, observed, bounds, CountTypes
  <2>2. SettlesHold(h) /\ h \in Threads \cup Callers
    BY <1>0, <1>6 DEF ChooseHosted, Register, goes, metered, Shape, CountTypes, Threads,
       SettlesHold, OthersHold, Working
  <2>3. HandsOn
    BY <1>0, <1>6 DEF ChooseHosted, Register, goes, Shape, Threads, HandsOn
  <2>4. \A d \in Deliveries : state'[d] = "rejected" => state[d] = "rejected"
    BY <1>0, <1>6 DEF ChooseHosted, Register, ledger, Shape
  <2>5. RejectsInHand
    BY <2>4, DispatchAssumption DEF RejectsInHand
  <2> QED BY <1>0, <2>1, <2>2, <2>3, <2>5, SettledStep, HandingStep DEF RInv
<1>7. ASSUME NEW h \in Handlers, NEW found \in BOOLEAN, ChooseLocal(h, found) PROVE RInv'
  <2>1. CountTypes' /\ UNCHANGED <<crashes, atRisk, previews, queued, faults>>
    BY <1>0, <1>7, ReleaseTypes DEF ChooseLocal, release, finished, observed, bounds, CountTypes, Threads
  <2>2. release(hold[h]) /\ OthersHold(h) /\ h \in Threads \cup Callers
    BY <1>0, <1>7 DEF ChooseLocal, finished, release, Shape, CountTypes, Threads, OthersHold
  <2>3. HandsOn /\ RejectsInHand
    BY <1>0, <1>7 DEF ChooseLocal, finished, ledger, Shape, Threads, HandsOn, RejectsInHand
  <2> QED BY <1>0, <2>1, <2>2, <2>3, ReleasedStep, HandingStep DEF RInv
<1>8. ASSUME NEW w \in Threads, AdapterMissing(w) PROVE RInv'
  <2>1. /\ UNCHANGED <<crashes, atRisk, previews, unreleased, queued, faults, holds>>
        /\ w \in Threads \cup Callers /\ pc[w] \notin Working
    BY <1>8 DEF AdapterMissing, metered, observed, bounds, Working
  <2>2. CountTypes' /\ SettlesHold(w) /\ HandsOn
    BY <1>0, <1>8, <2>1 DEF AdapterMissing, refused_to, goes, finished, Shape, CountTypes, Threads,
       SettlesHold, OthersHold, HandsOn
  <2>3. RejectsInHand
    <3> SUFFICES ASSUME NEW d \in DeviceOK, state'[d] = "rejected", state[d] # "rejected"
                 PROVE  rec'[w] = d /\ pc'[w] = "handing"
      BY DEF RejectsInHand
    <3>1. d \in Deliveries
      BY DispatchAssumption
    <3>2. d = rec[w] /\ refused_to(w)
      BY <1>0, <1>8, <3>1 DEF AdapterMissing, Shape
    <3> QED BY <1>0, <3>2 DEF refused_to, goes, Shape
  <2> QED BY <1>0, <2>1, <2>2, <2>3, SettledStep, HandingStep DEF RInv
<1>9. ASSUME NEW w \in Threads, Claim(w) PROVE RInv'
  <2>1. CountTypes' /\ UNCHANGED <<crashes, atRisk, previews, queued, faults>>
    BY <1>0, <1>9, ReleaseTypes DEF Claim, goes, metered, observed, bounds, CountTypes
  <2>2. OthersHold(w) /\ w \in Threads \cup Callers
    BY <1>0, <1>9 DEF Claim, goes, Shape, CountTypes, Threads, OthersHold
  <2>3. HandsOn
    BY <1>0, <1>9 DEF Claim, goes, Shape, Threads, HandsOn
  <2>4. \A d \in Deliveries : state'[d] = "rejected" => state[d] = "rejected"
    BY <1>0, <1>9 DEF Claim, Shape
  <2>5. RejectsInHand
    BY <2>4, DispatchAssumption DEF RejectsInHand
  <2>6. CASE release(hold[w])
    BY <1>0, <2>1, <2>2, <2>3, <2>5, <2>6, ReleasedStep, HandingStep DEF RInv
  <2>7. CASE goes(w, "sending") /\ UNCHANGED metered
    <3>1. SettlesHold(w) /\ UNCHANGED unreleased
      BY <1>0, <2>2, <2>7 DEF SettlesHold, goes, metered, Shape, Working
    <3> QED BY <1>0, <2>1, <2>2, <2>3, <2>5, <3>1, SettledStep, HandingStep DEF RInv
  <2> QED BY <1>9, <2>6, <2>7 DEF Claim
<1>10. ASSUME NEW w \in Threads, NEW o \in Answers, Send(w, o) PROVE RInv'
  <2>1. /\ UNCHANGED <<crashes, previews, queued, faults, state>>
        /\ w \in Threads \cup Callers /\ HandsOn /\ OthersHold(w) /\ hold' = hold
    BY <1>0, <1>10 DEF Send, goes, ledger, bounds, Shape, HandsOn, OthersHold
  <2>2. RejectsInHand
    BY <2>1 DEF RejectsInHand
  <2>3. CASE o # "refused" /\ hold[w] # None
    <3>1. atRisk' = atRisk + 1 /\ holds' = holds /\ UNCHANGED unreleased
      BY <1>10, <2>3 DEF Send, metered
    <3>2. CountTypes'
      BY <1>0, <2>1, <3>1 DEF CountTypes
    <3>3. Charged + 1 <= Charged'
      <4>1. atRisk \in Nat /\ previews \in Nat /\ unreleased \in Nat
        BY <1>0 DEF CountTypes
      <4> QED BY <2>1, <3>1, <4>1 DEF Charged
    <3> QED BY <1>0, <2>1, <2>2, <3>1, <3>2, <3>3, ChargedStep, HandingStep DEF RInv
  <2>4. CASE o # "refused" /\ hold[w] = None
    <3>1. atRisk' = atRisk /\ holds' = holds /\ hold[w] \notin holds' /\ UNCHANGED unreleased
      BY <1>0, <1>10, <2>4 DEF Send, metered
    <3>2. CountTypes' /\ SettlesHold(w)
      BY <1>0, <2>1, <3>1 DEF CountTypes, SettlesHold
    <3> QED BY <1>0, <2>1, <2>2, <3>1, <3>2, SettledStep, HandingStep DEF RInv
  <2>5. CASE o = "refused"
    <3>1. atRisk' = atRisk /\ release(hold[w])
      BY <1>10, <2>5 DEF Send
    <3>2. CountTypes'
      BY <1>0, <2>1, <3>1, ReleaseTypes DEF CountTypes
    <3> QED BY <1>0, <2>1, <2>2, <3>1, <3>2, ReleasedStep, HandingStep DEF RInv
  <2> QED BY <2>3, <2>4, <2>5
<1>11. ASSUME NEW w \in Threads, NEW o \in Answers, NEW written \in BOOLEAN,
              Finish(w, o, written)
       PROVE  RInv'
  <2>1. /\ UNCHANGED <<crashes, atRisk, previews, unreleased, queued, holds>>
        /\ faults' = faults \/ faults' = faults + 1
        /\ w \in Threads \cup Callers /\ pc[w] \notin Working /\ pc[w] # "handing"
    BY <1>11 DEF Finish, metered, observed, Working, Answers
  <2>2. goes(w, "handing") \/ finished(w)
    BY <1>11 DEF Finish, refused_to
  <2>3. CountTypes' /\ SettlesHold(w) /\ HandsOn
    <3>1. CountTypes'
      BY <1>0, <2>1, <2>2 DEF goes, finished, CountTypes, Threads
    <3>2. SettlesHold(w)
      BY <1>0, <2>1, <2>2 DEF goes, finished, Shape, CountTypes, SettlesHold, OthersHold
    <3>3. HandsOn
      BY <1>0, <2>1, <2>2 DEF goes, finished, Shape, HandsOn
    <3> QED BY <3>1, <3>2, <3>3
  <2>4. RejectsInHand
    <3> SUFFICES ASSUME NEW d \in DeviceOK, state'[d] = "rejected", state[d] # "rejected"
                 PROVE  rec'[w] = d /\ pc'[w] = "handing"
      BY DEF RejectsInHand
    <3>1. d \in Deliveries
      BY DispatchAssumption
    <3>2. d = rec[w] /\ refused_to(w)
      BY <1>0, <1>11, <3>1 DEF Finish, Shape
    <3> QED BY <1>0, <3>2 DEF refused_to, goes, Shape
  <2> QED BY <1>0, <2>1, <2>3, <2>4, SettledStep, HandingStep DEF RInv
<1>12. ASSUME NEW w \in Threads, NEW taken \in BOOLEAN, HandOff(w, taken) PROVE RInv'
  <2>1. /\ UNCHANGED <<crashes, atRisk, previews, state>>
        /\ faults' = (IF taken THEN faults ELSE faults + 1)
        /\ w \in Threads \cup Callers /\ pc[w] = "handing"
    BY <1>12 DEF HandOff, ledger
  <2>2. CountTypes' /\ HoldTypes' /\ HoldsAreAccounted'
    <3>1. OthersHold(w) /\ pc[w] \notin Working
      BY <1>0, <1>12, <2>1 DEF HandOff, finished, Shape, CountTypes, Threads, OthersHold, Working
    <3>2. CASE release(hold[w])
      <4>1. CountTypes'
        BY <1>0, <1>12, <2>1, <3>2, ReleaseTypes DEF HandOff, finished, CountTypes, Threads
      <4> QED BY <1>0, <2>1, <3>1, <3>2, <4>1, ReleasedStep DEF RInv
    <3>3. CASE UNCHANGED metered
      <4>1. SettlesHold(w) /\ UNCHANGED unreleased
        BY <3>1, <3>3 DEF SettlesHold, metered
      <4>2. CountTypes'
        BY <1>0, <1>12, <2>1, <4>1 DEF HandOff, finished, CountTypes, Threads
      <4> QED BY <1>0, <2>1, <4>1, <4>2, SettledStep DEF RInv
    <3> QED BY <1>12, <3>2, <3>3 DEF HandOff
  <2>3. CASE ~taken
    <3>1. (crashes + faults > 0)'
      BY <1>0, <2>1, <2>3 DEF CountTypes
    <3>2. RefusedIsHandedOver'
      BY <3>1 DEF RefusedIsHandedOver
    <3> QED BY <2>2, <3>2 DEF RInv
  <2>4. CASE taken
    <3>1. faults' = faults /\ queued' = [queued EXCEPT ![rec[w]] = @ + 1]
      BY <1>12, <2>1, <2>4 DEF HandOff
    <3>2. \A d \in Deliveries : queued'[d] = IF d = rec[w] THEN queued[d] + 1 ELSE queued[d]
      BY <1>0, <3>1 DEF Shape
    <3>3. \A v \in Threads \ {w} : pc'[v] = pc[v] /\ rec'[v] = rec[v]
      BY <1>0, <1>12 DEF HandOff, finished, Shape
    <3>4. RefusedIsHandedOver'
      <4> SUFFICES ASSUME NEW d \in DeviceOK, state'[d] = "rejected", ~(queued'[d] > 0),
                          ~(crashes + faults > 0)'
                   PROVE  \E v \in Threads : rec'[v] = d /\ pc'[v] = "handing"
        BY DEF RefusedIsHandedOver
      <4>1. d \in Deliveries /\ queued[d] \in Nat
        BY <1>0, DispatchAssumption DEF Shape
      <4>2. ~(queued[d] > 0) /\ d # rec[w] /\ ~(crashes + faults > 0)
        BY <2>1, <3>1, <3>2, <4>1
      <4>3. PICK v \in Threads : rec[v] = d /\ pc[v] = "handing"
        BY <1>0, <2>1, <4>2 DEF RefusedIsHandedOver
      <4> QED BY <3>3, <4>2, <4>3
    <3> QED BY <2>2, <3>4 DEF RInv
  <2> QED BY <2>3, <2>4
<1>13. ASSUME NEW c \in Callers, Call(c) \/ CallElsewhere(c) \/ CallRaises(c)
              \/ \E pull \in BOOLEAN, o \in Answers : CallSends(c, pull, o)
       PROVE  RInv'
  <2>1. /\ UNCHANGED <<crashes, previews, queued, faults, state, rec>>
        /\ c \in Threads \cup Callers /\ c \notin Threads
        /\ \A v \in (Threads \cup Callers) \ {c} : pc'[v] = pc[v] /\ hold'[v] = hold[v]
    BY <1>0, <1>13, DispatchAssumption DEF Call, CallElsewhere, CallRaises, CallSends, ledger,
       observed, bounds, Shape, CountTypes
  <2>2. OthersHold(c) /\ HandsOn /\ RejectsInHand
    BY <2>1 DEF OthersHold, HandsOn, RejectsInHand
  <2>3. CASE Call(c)
    <3>1. /\ UNCHANGED <<atRisk, unreleased>> /\ holds' = holds \cup {next_id} /\ hold'[c] = next_id
          /\ pc[c] \notin Working /\ pc'[c] \in Working /\ hold' = [hold EXCEPT ![c] = next_id]
      BY <1>0, <2>3 DEF Call, reserve, observed, Shape, CountTypes, Working
    <3>2. CountTypes'
      BY <1>0, <2>1, <3>1, NextIdIsNew DEF CountTypes
    <3> QED BY <1>0, <2>1, <2>2, <3>1, <3>2, HeldStep, HandingStep DEF RInv
  <2>4. ASSUME NEW pull \in BOOLEAN, NEW o \in Answers, CallSends(c, pull, o), ~gives_back(pull, o)
        PROVE  RInv'
    <3>1. /\ atRisk' = atRisk + 1 /\ holds' = holds /\ hold' = [hold EXCEPT ![c] = None]
          /\ UNCHANGED unreleased
      BY <2>4 DEF CallSends, gives_back, definite, metered
    <3>2. CountTypes'
      BY <1>0, <2>1, <3>1 DEF CountTypes
    <3>3. Charged + 1 <= Charged'
      <4>1. atRisk \in Nat /\ previews \in Nat /\ unreleased \in Nat
        BY <1>0 DEF CountTypes
      <4> QED BY <2>1, <3>1, <4>1 DEF Charged
    <3> QED BY <1>0, <2>1, <2>2, <3>1, <3>2, <3>3, ChargedStep, HandingStep DEF RInv
  <2>5. ASSUME release(hold[c]), hold' = [hold EXCEPT ![c] = None],
               atRisk' = atRisk \/ atRisk' = atRisk + 1
        PROVE  RInv'
    <3>1. CountTypes'
      BY <1>0, <2>1, <2>5, ReleaseTypes DEF CountTypes
    <3> QED BY <1>0, <2>1, <2>2, <2>5, <3>1, ReleasedStep, HandingStep DEF RInv
  <2>6. ASSUME NEW pull \in BOOLEAN, NEW o \in Answers, CallSends(c, pull, o), gives_back(pull, o)
        PROVE  RInv'
    BY <2>5, <2>6 DEF CallSends
  <2>7. CASE CallElsewhere(c) \/ CallRaises(c)
    BY <2>5, <2>7 DEF CallElsewhere, CallRaises, release, observed
  <2> QED BY <1>13, <2>3, <2>4, <2>6, <2>7
<1>14. CASE Preview
  <2>1. /\ UNCHANGED <<crashes, atRisk, unreleased, queued, faults, state, rec, pc, hold>>
        /\ previews' = previews + 1 /\ holds' = holds \cup {next_id}
    BY <1>14 DEF Preview, reserve, ledger, threads, observed
  <2>2. CountTypes' /\ HandsOn /\ RejectsInHand /\ HoldTypes'
    BY <1>0, <2>1, HoldTypesKept DEF CountTypes, HandsOn, RejectsInHand
  <2>3. Free' \subseteq Free \cup {next_id}
    BY <2>1 DEF Free, Held
  <2>4. Charged + 1 <= Charged'
    <3>1. atRisk \in Nat /\ previews \in Nat /\ unreleased \in Nat
      BY <1>0 DEF CountTypes
    <3> QED BY <2>1, <3>1 DEF Charged
  <2>5. HoldsAreAccounted'
    BY <1>0, <2>1, <2>2, <2>3, <2>4, Balanced
  <2> QED BY <1>0, <2>1, <2>2, <2>5, HandingStep DEF RInv
<1>15. CASE StartPass \/ MonthTurns \/ UNCHANGED vars
  <2>1. UNCHANGED <<crashes, atRisk, previews, unreleased, queued, faults, state, rec, pc, hold, holds>>
    BY <1>15 DEF StartPass, MonthTurns, vars, ledger, metered, threads, observed, bounds
  <2> QED
    BY <1>0, <2>1 DEF RInv, HoldTypes, CountTypes, HoldsAreAccounted, Charged,
       RefusedIsHandedOver, Free, Held
<1>16. CASE NextRecord
  <2>1. /\ UNCHANGED <<crashes, atRisk, previews, unreleased, queued, faults, hold, holds>>
        /\ Replay \in Threads \cup Callers /\ Replay \in Threads /\ pc[Replay] = "idle"
    BY <1>16 DEF NextRecord, metered, observed, bounds, Threads
  <2>2. CountTypes' /\ SettlesHold(Replay) /\ HandsOn
    BY <1>0, <1>16, <2>1 DEF NextRecord, Shape, CountTypes, SettlesHold, OthersHold, Working, HandsOn
  <2>3. RejectsInHand
    <3> SUFFICES ASSUME NEW d \in DeviceOK, state'[d] = "rejected", state[d] # "rejected"
                 PROVE  rec'[Replay] = d /\ pc'[Replay] = "handing"
      BY <2>1 DEF RejectsInHand
    <3>1. d \in Deliveries
      BY DispatchAssumption
    <3>2. d = order[CHOOSE i \in todo : \A k \in todo : i <= k] /\ d \notin permitted /\ state[d] = "ready"
      BY <1>0, <1>16, <3>1 DEF NextRecord, Shape
    <3> QED BY <1>0, <1>16, <2>1, <3>2 DEF NextRecord, Shape
  <2> QED BY <1>0, <2>1, <2>2, <2>3, SettledStep, HandingStep DEF RInv
<1>17. CASE Restart
  <2>1. /\ crashes' = crashes + 1
        /\ UNCHANGED <<atRisk, previews, unreleased, queued, faults, holds>>
        /\ hold' = [w \in Threads \cup Callers |-> None]
    BY <1>17 DEF Restart, metered, observed
  <2>2. CountTypes' /\ HoldTypes'
    BY <1>0, <2>1, HoldTypesKept DEF CountTypes
  <2>3. crashes' # 0 /\ (crashes + faults > 0)'
    BY <1>0, <2>1 DEF CountTypes
  <2> QED BY <2>2, <2>3 DEF RInv, HoldsAreAccounted, RefusedIsHandedOver
<1>18. ASSUME NEW w \in Threads, ThreadStep(w) PROVE RInv'
  BY <1>2, <1>3, <1>4, <1>5, <1>8, <1>9, <1>10, <1>11, <1>12, <1>18 DEF ThreadStep
<1>19. ASSUME NEW h \in Handlers, HandlerStep(h) PROVE RInv'
  BY <1>6, <1>7, <1>18, <1>19 DEF HandlerStep, Threads
<1>20. CASE ReplayStep
  BY <1>15, <1>16, <1>18, <1>20 DEF ReplayStep, Threads
<1> QED
  BY <1>1, <1>13, <1>14, <1>15, <1>17, <1>19, <1>20 DEF Next

\* With no row and no hold there is nothing to hand over or to account for.
LEMMA RInvInit == Init => RInv
<1> SUFFICES ASSUME Init PROVE RInv
  OBVIOUS
<1>1. CountTypes
  BY DEF Init, CountTypes
<1>2. HoldTypes /\ Free = {}
  BY FS_EmptySet DEF Init, HoldTypes, Free
<1>3. HoldsAreAccounted
  BY <1>2, FS_EmptySet DEF Init, HoldsAreAccounted, Charged
<1>4. RefusedIsHandedOver
  BY DispatchAssumption DEF Init, RefusedIsHandedOver
<1> QED BY <1>1, <1>2, <1>3, <1>4 DEF RInv

\* The books of the metered ledger and of the hand-over are right in every state.
THEOREM RInvHolds == Spec => []RInv
<1>1. Init => DInv /\ RInv
  BY DInvInit, RInvInit
<1>2. (DInv /\ RInv) /\ [Next]_vars => (DInv /\ RInv)'
  BY DInvInductive, RInvInductive
<1> QED BY <1>1, <1>2, PTL DEF Spec

\* A refused push that a device may run is queued there or in the hands of a thread
\* that will, until the process or the device pool's queue fails (refusal.py,
\* webhook_dispatch.py _refuse).
THEOREM RefusedIsHandedOverHolds == Spec => []RefusedIsHandedOver
<1>1. RInv => RefusedIsHandedOver
  BY DEF RInv
<1> QED BY <1>1, RInvHolds, PTL

\* With nobody at work and no restart, the ledger holds no more than the dispatches sent
\* with a hold and not refused outright, the previews, and the holds a failed release or
\* status post left behind (budget.py release_reservation, delivery_spend.py _release),
\* however many requests, callers and faults met.  An upper bound: an id given back twice
\* may have been another dispatch's by then.
THEOREM NoHoldStrandedHolds == Spec => []NoHoldStranded
<1>1. RInv => NoHoldStranded
  <2> SUFFICES ASSUME RInv, Idle, crashes = 0
               PROVE  Cardinality(holds) <= atRisk + previews + unreleased
    BY DEF NoHoldStranded
  <2>1. Held = {}
    BY DEF Held, Idle, Working
  <2>2. Free = holds
    BY <2>1 DEF Free
  <2> QED BY <2>2 DEF RInv, HoldsAreAccounted, Charged
<1> QED BY <1>1, RInvHolds, PTL

-----------------------------------------------------------------------------
(* Types *)

\* Of any numbers one is the least.
LEMMA LeastOf ==
  ASSUME NEW S \in SUBSET Nat, S # {}
  PROVE  \E x \in S : \A y \in S : x <= y
<1> DEFINE Less == {p \in Nat \X Nat : p[1] < p[2]}
<1>1. IsWellFoundedOn(Less, Nat)
  BY NatLessThanWellFounded DEF OpToRel
<1>2. \E m \in S : \A x \in S : ~(<<x, m>> \in Less)
  <2> HIDE DEF Less
  <2> QED BY <1>1, WFMin
<1>3. PICK m \in S : \A x \in S : ~(x < m)
  BY <1>2
<1>4. \A x \in S : x \in Nat /\ m \in Nat
  OBVIOUS
<1> QED BY <1>3, <1>4

\* What of the types the other invariants do not say, and that a thread at work has the
\* delivery it works for: a row is registered under that delivery, and read back from it.
Lanes == {"hosted", "local", None}
RestTypes ==
  /\ rowlane \in [Deliveries -> Lanes] /\ order \in Seq(Deliveries)
  /\ month \subseteq holds /\ permitted \subseteq Deliveries
  /\ rec \in [Threads -> Deliveries \cup {None}] /\ fresh \in [Threads -> BOOLEAN]
  /\ lane \in [Threads -> Lanes] /\ todo \subseteq DOMAIN order
  /\ sends \in [Deliveries -> Nat] /\ {calls, months} \subseteq Nat
  /\ diverted \in [Deliveries -> Nat]
  /\ \A w \in Threads : pc[w] # "idle" => rec[w] # None

\* The steps of one thread that leave the ledger's order and the bounds alone.
LEMMA ThreadTypes ==
  ASSUME Shape, RestTypes, NEW w \in Threads, UNCHANGED <<rowlane, order, permitted, todo>>,
         UNCHANGED <<sends, calls, months>>, month' \subseteq holds',
         diverted' \in [Deliveries -> Nat],
         \/ finished(w)
         \/ /\ pc[w] # "idle" /\ UNCHANGED <<rec, fresh>>
            /\ \E to : pc' = [pc EXCEPT ![w] = to]
            /\ lane' = lane \/ \E l \in Lanes : lane' = [lane EXCEPT ![w] = l]
  PROVE  RestTypes'
<1>1. CASE finished(w)
  <2>1. /\ rec' \in [Threads -> Deliveries \cup {None}] /\ fresh' \in [Threads -> BOOLEAN]
        /\ lane' \in [Threads -> Lanes]
    BY <1>1 DEF finished, RestTypes, Lanes
  <2>2. \A v \in Threads : pc'[v] # "idle" => rec'[v] # None
    BY <1>1 DEF finished, RestTypes, Shape
  <2> QED BY <2>1, <2>2 DEF RestTypes
<1>2. CASE /\ pc[w] # "idle" /\ UNCHANGED <<rec, fresh>>
           /\ \E to : pc' = [pc EXCEPT ![w] = to]
           /\ lane' = lane \/ \E l \in Lanes : lane' = [lane EXCEPT ![w] = l]
  <2>1. lane' \in [Threads -> Lanes]
    BY <1>2 DEF RestTypes
  <2>2. \A v \in Threads : pc'[v] # "idle" => rec'[v] # None
    BY <1>2 DEF RestTypes, Shape
  <2> QED BY <1>2, <2>1, <2>2 DEF RestTypes
<1> QED BY <1>1, <1>2

LEMMA RestInductive ==
  ASSUME Shape, HoldTypes, RestTypes, [Next]_vars
  PROVE  RestTypes'
<1> USE DispatchAssumption
<1>0. \A id : (release(id) \/ given_back(id) \/ stays(id)) => month' \subseteq holds'
  BY DEF release, given_back, stays, RestTypes
<1>1. reserve => month' \subseteq holds'
  BY DEF reserve, RestTypes
<1>2. UNCHANGED metered => month' \subseteq holds'
  BY DEF metered, RestTypes
<1>14. UNCHANGED diverted => diverted' \in [Deliveries -> Nat]
  BY DEF RestTypes
<1>3. ASSUME NEW w \in Threads, ThreadStep(w) PROVE RestTypes'
  <2>1. CASE AdapterMissing(w)
    BY <1>2, <1>14, <2>1, ThreadTypes DEF AdapterMissing, observed, refused_to, goes, bounds
  <2>2. CASE LookupFails(w)
    BY <1>2, <1>14, <2>2, ThreadTypes DEF LookupFails, observed, ledger
  <2>3. CASE Divert(w)
    <3>1. diverted' \in [Deliveries -> Nat]
      BY <2>3, Counts DEF Divert, RestTypes
    <3> QED BY <1>2, <2>3, <3>1, ThreadTypes DEF Divert, ledger, bounds
  <2>4. CASE TakeHold(w)
    BY <1>1, <1>2, <1>14, <2>4, ThreadTypes DEF TakeHold, observed, goes, ledger, bounds
  <2>5. CASE Claim(w)
    BY <1>0, <1>2, <1>14, <2>5, ThreadTypes DEF Claim, observed, goes, bounds
  <2>6. CASE StoreFails(w)
    BY <1>0, <1>14, <2>6, ThreadTypes DEF StoreFails, observed, ledger
  <2>7. CASE AnswerDuplicate(w)
    BY <1>0, <1>2, <1>14, <2>7, ThreadTypes DEF AnswerDuplicate, observed, ledger, bounds
  <2>8. ASSUME NEW o \in Answers, Send(w, o) PROVE RestTypes'
    BY <1>0, <1>2, <1>14, <2>8, ThreadTypes DEF Send, observed, goes, ledger, bounds
  <2>9. ASSUME NEW o \in Answers, NEW b \in BOOLEAN, Finish(w, o, b) PROVE RestTypes'
    BY <1>2, <1>14, <2>9, ThreadTypes DEF Finish, observed, refused_to, goes, Answers
  <2>10. ASSUME NEW b \in BOOLEAN, HandOff(w, b) PROVE RestTypes'
    BY <1>0, <1>2, <1>14, <2>10, ThreadTypes DEF HandOff, observed, ledger
  <2> QED BY <1>3, <2>1, <2>2, <2>3, <2>4, <2>5, <2>6, <2>7, <2>8, <2>9, <2>10 DEF ThreadStep
<1>4. ASSUME NEW h \in Handlers, HandlerStep(h) PROVE RestTypes'
  <2>1. h \in Threads
    BY DEF Threads
  <2>2. CASE ChooseHosted(h)
    BY <1>2, <1>14, <2>1, <2>2, ThreadTypes DEF ChooseHosted, observed, ledger, bounds, Lanes
  <2>3. ASSUME NEW b \in BOOLEAN, ChooseLocal(h, b) PROVE RestTypes'
    BY <1>0, <1>14, <2>1, <2>3, ThreadTypes DEF ChooseLocal, observed, ledger, bounds, Lanes
  <2>4. CASE Register(h)
    <3>1. rec[h] \in Deliveries /\ lane[h] \in Lanes
      BY <2>1, <2>4 DEF Register, RestTypes
    <3>2. PICK l \in Lanes : rowlane' = [rowlane EXCEPT ![rec[h]] = l]
      BY <2>4, <3>1 DEF Register, RestTypes
    <3>3. rowlane' \in [Deliveries -> Lanes]
      BY <3>1, <3>2 DEF RestTypes
    <3>4. order' \in Seq(Deliveries) /\ DOMAIN order \subseteq DOMAIN order'
      <4>1. order' = order \/ order' = Append(order, rec[h])
        BY <2>4 DEF Register
      <4>2. PICK old \in Seq(Deliveries) : old = order
        BY DEF RestTypes
      <4>3. /\ Append(old, rec[h]) \in Seq(Deliveries) /\ DOMAIN old = 1..Len(old)
            /\ DOMAIN Append(old, rec[h]) = 1..(Len(old) + 1) /\ Len(old) \in Nat
        BY <3>1
      <4> QED BY <4>1, <4>2, <4>3
    <3>5. /\ UNCHANGED <<month, holds, permitted, todo, sends, calls, months, rec, fresh, lane,
                         diverted>>
          /\ pc' = [pc EXCEPT ![h] = "claiming"] /\ pc[h] # "idle"
      BY <2>4 DEF Register, goes, metered, observed, bounds
    <3>6. \A v \in Threads : pc'[v] # "idle" => rec'[v] # None
      BY <3>5 DEF RestTypes, Shape
    <3> QED BY <3>3, <3>4, <3>5, <3>6 DEF RestTypes
  <2> QED BY <1>3, <1>4, <2>1, <2>2, <2>3, <2>4 DEF HandlerStep
<1>5. ASSUME NEW h \in Handlers, NEW d \in Deliveries, Receive(h, d) PROVE RestTypes'
  <2>1. /\ UNCHANGED <<rowlane, order, month, holds, permitted, todo, calls, months, lane, diverted>>
        /\ sends' = [sends EXCEPT ![d] = @ + 1]
        /\ \/ UNCHANGED <<pc, rec, fresh>>
           \/ /\ pc' = [pc EXCEPT ![h] = "looking"] /\ rec' = [rec EXCEPT ![h] = d]
              /\ \E b \in BOOLEAN : fresh' = [fresh EXCEPT ![h] = b]
    BY <1>5 DEF Receive, ledger, metered, observed
  <2>2. sends' \in [Deliveries -> Nat]
    BY <2>1, Counts DEF RestTypes
  <2>3. rec' \in [Threads -> Deliveries \cup {None}] /\ fresh' \in [Threads -> BOOLEAN]
    BY <2>1 DEF RestTypes
  <2>4. \A v \in Threads : pc'[v] # "idle" => rec'[v] # None
    BY <2>1 DEF RestTypes, Shape, Threads
  <2> QED BY <2>1, <2>2, <2>3, <2>4 DEF RestTypes
<1>6. CASE StartPass
  <2>1. todo' \subseteq DOMAIN order
    BY <1>6 DEF StartPass, oldest, Ready
  <2> QED BY <1>6, <2>1 DEF StartPass, ledger, metered, observed, bounds, RestTypes
<1>7. CASE NextRecord
  <2>1. PICK i : i = CHOOSE n \in todo : \A k \in todo : n <= k
    OBVIOUS
  <2>2. i \in todo
    <3>1. todo \in SUBSET Nat /\ todo # {}
      <4>1. DOMAIN order = 1..Len(order) /\ Len(order) \in Nat
        BY DEF RestTypes
      <4>2. todo # {} /\ todo \subseteq DOMAIN order
        BY <1>7 DEF NextRecord, RestTypes
      <4> QED BY <4>1, <4>2
    <3> QED BY <2>1, <3>1, LeastOf
  <2>3. order[i] \in Deliveries
    BY <2>2 DEF RestTypes
  <2>4. PICK d \in Deliveries : d = order[i]
    BY <2>3
  <2>5. PICK to, next :
          /\ pc' = [pc EXCEPT ![Replay] = to] /\ rec' = [rec EXCEPT ![Replay] = next]
          /\ next \in {None, d} /\ (to # "idle" => next = d)
          /\ todo' = todo \ {i}
          /\ UNCHANGED <<rowlane, order, month, holds, permitted, fresh, lane, sends, calls, months,
                         diverted>>
    BY <1>7, <2>1, <2>4 DEF NextRecord, metered, observed, bounds
  <2>6. rec' \in [Threads -> Deliveries \cup {None}] /\ todo' \subseteq DOMAIN order'
    BY <2>5 DEF RestTypes
  <2>7. \A v \in Threads : pc'[v] # "idle" => rec'[v] # None
    BY <2>4, <2>5 DEF RestTypes, Shape, Threads
  <2> QED BY <2>5, <2>6, <2>7 DEF RestTypes
<1>8. ASSUME NEW c \in Callers,
             \/ Call(c) \/ CallElsewhere(c) \/ CallRaises(c)
             \/ \E pull \in BOOLEAN, o \in Answers : CallSends(c, pull, o)
      PROVE  RestTypes'
  <2>1. /\ UNCHANGED <<rowlane, order, permitted, rec, fresh, lane, todo, sends, months, diverted>>
        /\ \E to : pc' = [pc EXCEPT ![c] = to]
        /\ calls' = calls \/ calls' = calls + 1
    BY <1>8 DEF Call, CallElsewhere, CallRaises, CallSends, ledger, observed, bounds
  <2>2. month' \subseteq holds'
    BY <1>0, <1>1, <1>2, <1>8 DEF Call, CallElsewhere, CallRaises, CallSends
  <2>3. \A v \in Threads : pc'[v] = pc[v]
    BY <2>1 DEF Shape
  <2> QED BY <2>1, <2>2, <2>3 DEF RestTypes
<1>9. CASE Preview
  BY <1>1, <1>9 DEF Preview, ledger, threads, observed, RestTypes
<1>10. CASE MonthTurns
  BY <1>10 DEF MonthTurns, ledger, threads, observed, RestTypes
<1>11. CASE Restart
  BY <1>11 DEF Restart, metered, observed, RestTypes, Lanes
<1>12. CASE UNCHANGED vars
  BY <1>12 DEF vars, ledger, metered, threads, observed, bounds, RestTypes
<1>13. CASE ReplayStep
  BY <1>3, <1>6, <1>7, <1>13 DEF ReplayStep, Threads
<1> QED BY <1>4, <1>5, <1>8, <1>9, <1>10, <1>11, <1>12, <1>13 DEF Next

\* deliveries.py, budget.py: the two ledgers, the threads' local variables and the rows of
\* a replay pass keep their types, and the month counts only holds that stand.
THEOREM TypeOKHolds == Spec => []TypeOK
<1>1. Init => RestTypes
  BY DispatchAssumption DEF Init, RestTypes, Lanes
<1>2. DInv /\ RInv /\ RestTypes /\ [Next]_vars => RestTypes'
  BY RestInductive DEF DInv, RInv
<1>3. DInv /\ RInv /\ RestTypes => TypeOK
  <2> SUFFICES ASSUME Shape, HoldTypes, CountTypes, RestTypes PROVE TypeOK
    BY DEF DInv, RInv
  <2> QED BY DEF Shape, HoldTypes, CountTypes, RestTypes, TypeOK, Lanes, Steps
<1> QED BY <1>1, <1>2, <1>3, DInvHolds, RInvHolds, PTL DEF Spec

-----------------------------------------------------------------------------
(* A push that GitHub sent once *)

\* A request that found no row for its push, and has not made one.
Deciding(w) == \/ pc[w] \in {"diverting", "choosing", "registering"}
               \/ pc[w] \in {"looking", "holding"} /\ fresh[w]

\* A delivery GitHub sent at most once is decided on by one request; once that request
\* diverted it, it has no row and nobody works for it.
SentAtMostOnce(d) ==
  /\ sends[d] = 0 => state[d] = "absent" /\ diverted[d] = 0 /\ \A w \in Threads : rec[w] # d
  /\ \A w \in Threads : rec[w] = d /\ Deciding(w) =>
       state[d] = "absent" /\ diverted[d] = 0 /\ \A v \in Threads : rec[v] = d => v = w
  /\ diverted[d] > 0 => state[d] = "absent" /\ \A w \in Threads : rec[w] # d

\* The inductive invariant of the diversion: the replay loop decides on nothing, and reads
\* only rows there are.
OInv == /\ \A d \in Deliveries : sends[d] <= 1 => SentAtMostOnce(d)
        /\ ~fresh[Replay] /\ pc[Replay] \notin {"diverting", "choosing", "registering"}
        /\ \A i \in DOMAIN order : state[order[i]] # "absent"

\* Thread w goes on with its delivery or lets it go, and decides on none it did not
\* decide on before.
LEMMA SameDelivery ==
  ASSUME OInv, RestTypes, NEW w \in Threads, UNCHANGED <<sends, diverted, order>>,
         \A d \in Deliveries : state'[d] = "absent" <=> state[d] = "absent",
         \A v \in Threads \ {w} : pc'[v] = pc[v] /\ rec'[v] = rec[v] /\ fresh'[v] = fresh[v],
         rec'[w] \in {rec[w], None},
         Deciding(w)' => Deciding(w) /\ rec'[w] = rec[w],
         w = Replay => ~fresh'[w] /\ pc'[w] \notin {"diverting", "choosing", "registering"}
  PROVE  OInv'
<1>1. \A d \in Deliveries : d # None
  BY DispatchAssumption
<1>2. \A v \in Threads : Deciding(v)' => Deciding(v) /\ rec'[v] = rec[v]
  BY DEF Deciding
<1>3. \A v \in Threads, d \in Deliveries : rec'[v] = d => rec[v] = d
  BY <1>1
<1>4. ASSUME NEW d \in Deliveries, sends'[d] <= 1 PROVE SentAtMostOnce(d)'
  <2>1. SentAtMostOnce(d)
    BY <1>4 DEF OInv
  <2> QED BY <1>2, <1>3, <2>1 DEF SentAtMostOnce
<1>5. ~fresh'[Replay] /\ pc'[Replay] \notin {"diverting", "choosing", "registering"}
  BY DEF OInv, Threads
<1>6. \A i \in DOMAIN order' : state'[order'[i]] # "absent"
  <2> SUFFICES ASSUME NEW i \in DOMAIN order PROVE state'[order[i]] # "absent"
    OBVIOUS
  <2>1. order[i] \in Deliveries
    BY DEF RestTypes
  <2> QED BY <2>1 DEF OInv
<1> QED BY <1>4, <1>5, <1>6 DEF OInv

\* Every action keeps the invariant.
LEMMA OInvInductive ==
  ASSUME DInv, RestTypes, OInv, [Next]_vars
  PROVE  OInv'
<1>0. Shape /\ ClaimIsExclusive
  BY DEF DInv
<1> USE DispatchAssumption
<1>1. ASSUME NEW w \in Threads, finished(w), UNCHANGED <<state, sends, diverted, order>>
      PROVE  OInv'
  <2>1. rec'[w] = None /\ ~fresh'[w] /\ pc'[w] = "idle"
    BY <1>0, <1>1 DEF finished, Shape, RestTypes
  <2>2. \A v \in Threads \ {w} : pc'[v] = pc[v] /\ rec'[v] = rec[v] /\ fresh'[v] = fresh[v]
    BY <1>0, <1>1 DEF finished, Shape, RestTypes
  <2> QED BY <1>1, <2>1, <2>2, SameDelivery DEF Deciding
<1>2. ASSUME NEW w \in Threads, NEW to, UNCHANGED <<rec, fresh, sends, diverted, order>>,
             pc' = [pc EXCEPT ![w] = to],
             \A d \in Deliveries : state'[d] = "absent" <=> state[d] = "absent",
             to \in {"diverting", "choosing", "registering"} => Deciding(w) /\ w # Replay,
             to \in {"looking", "holding"} => ~fresh[w]
      PROVE  OInv'
  <2>1. pc'[w] = to
    BY <1>0, <1>2 DEF Shape
  <2>2. \A v \in Threads \ {w} : pc'[v] = pc[v] /\ rec'[v] = rec[v] /\ fresh'[v] = fresh[v]
    BY <1>0, <1>2 DEF Shape
  <2>3. Deciding(w)' => Deciding(w)
    BY <1>2, <2>1 DEF Deciding
  <2> QED BY <1>2, <2>1, <2>2, <2>3, SameDelivery DEF OInv
<1>3. ASSUME NEW w \in Threads, finished(w), UNCHANGED <<sends, diverted, order>>,
             \A d \in Deliveries : state'[d] = "absent" <=> state[d] = "absent"
      PROVE  OInv'
  <2>1. rec'[w] = None /\ ~fresh'[w] /\ pc'[w] = "idle"
    BY <1>0, <1>3 DEF finished, Shape, RestTypes
  <2>2. \A v \in Threads \ {w} : pc'[v] = pc[v] /\ rec'[v] = rec[v] /\ fresh'[v] = fresh[v]
    BY <1>0, <1>3 DEF finished, Shape, RestTypes
  <2> QED BY <1>3, <2>1, <2>2, SameDelivery DEF Deciding
<1>4. ASSUME NEW w \in Threads, AdapterMissing(w) PROVE OInv'
  <2>1. UNCHANGED <<sends, diverted, order>> /\ pc[w] = "looking"
    BY <1>4 DEF AdapterMissing, observed, bounds
  <2>2. \A d \in Deliveries : state'[d] = "absent" <=> state[d] = "absent"
    BY <1>0, <1>4 DEF AdapterMissing, Shape
  <2>3. CASE finished(w)
    BY <1>3, <2>1, <2>2, <2>3
  <2>4. CASE goes(w, "diverting") /\ fresh[w]
    <3>1. Deciding(w) /\ w # Replay
      BY <2>1, <2>4 DEF Deciding, OInv
    <3> QED BY <1>2, <2>1, <2>2, <2>4, <3>1 DEF goes
  <2>5. CASE goes(w, "handing")
    BY <1>2, <2>1, <2>2, <2>5 DEF goes
  <2>6. CASE goes(w, "holding") /\ ~fresh[w]
    BY <1>2, <2>1, <2>2, <2>6 DEF goes
  <2> QED BY <1>4, <2>3, <2>4, <2>5, <2>6 DEF AdapterMissing, refused_to
<1>5. ASSUME NEW w \in Threads, LookupFails(w) \/ StoreFails(w) \/ AnswerDuplicate(w) PROVE OInv'
  <2>1. finished(w) /\ UNCHANGED <<state, sends, diverted, order>>
    BY <1>5 DEF LookupFails, StoreFails, AnswerDuplicate, ledger, observed, bounds
  <2> QED BY <1>1, <2>1
<1>6. ASSUME NEW w \in Threads, Divert(w) PROVE OInv'
  <2>1. /\ UNCHANGED <<state, sends, order>> /\ pc[w] = "diverting"
        /\ diverted' = [diverted EXCEPT ![rec[w]] = @ + 1]
    BY <1>6 DEF Divert, ledger, bounds
  <2>2. rec'[w] = None /\ ~fresh'[w] /\ pc'[w] = "idle"
    BY <1>0, <1>6 DEF Divert, finished, Shape, RestTypes
  <2>3. \A v \in Threads \ {w} : pc'[v] = pc[v] /\ rec'[v] = rec[v] /\ fresh'[v] = fresh[v]
    BY <1>0, <1>6 DEF Divert, finished, Shape, RestTypes
  <2>4. \A v \in Threads : v # w => (Deciding(v)' <=> Deciding(v))
    BY <2>3 DEF Deciding
  <2>5. ~Deciding(w)'
    BY <2>2 DEF Deciding
  <2>6. ASSUME NEW d \in Deliveries, sends'[d] <= 1 PROVE SentAtMostOnce(d)'
    <3>1. SentAtMostOnce(d)
      BY <2>1, <2>6 DEF OInv
    <3>2. d # None
      OBVIOUS
    <3>3. CASE d = rec[w]
      <4>1. state[d] = "absent" /\ (\A v \in Threads : rec[v] = d => v = w) /\ sends[d] # 0
        BY <2>1, <3>1, <3>3 DEF SentAtMostOnce, Deciding
      <4> QED BY <2>1, <2>2, <2>3, <3>2, <4>1 DEF SentAtMostOnce
    <3>4. CASE d # rec[w]
      <4>1. diverted'[d] = diverted[d]
        BY <2>1, <3>4 DEF RestTypes
      <4>2. \A v \in Threads : rec'[v] = d <=> rec[v] = d
        BY <2>2, <2>3, <3>2, <3>4
      <4> QED BY <2>1, <2>4, <2>5, <3>1, <3>4, <4>1, <4>2 DEF SentAtMostOnce
    <3> QED BY <3>3, <3>4
  <2>7. ~fresh'[Replay] /\ pc'[Replay] \notin {"diverting", "choosing", "registering"}
    BY <2>2, <2>3 DEF OInv, Threads
  <2> QED BY <2>1, <2>6, <2>7 DEF OInv
<1>7. ASSUME NEW w \in Threads, TakeHold(w) PROVE OInv'
  <2>1. UNCHANGED <<state, sends, diverted, order>> /\ pc[w] \in {"looking", "holding"}
    BY <1>7 DEF TakeHold, ledger, observed, bounds
  <2>2. CASE finished(w)
    BY <1>1, <2>1, <2>2
  <2>3. CASE pc' = [pc EXCEPT ![w] = "choosing"] /\ UNCHANGED <<rec, fresh>> /\ fresh[w]
    <3>1. Deciding(w) /\ w # Replay
      BY <2>1, <2>3 DEF Deciding, OInv
    <3> QED BY <1>2, <2>1, <2>3, <3>1
  <2>4. CASE pc' = [pc EXCEPT ![w] = "claiming"] /\ UNCHANGED <<rec, fresh>>
    BY <1>2, <2>1, <2>4
  <2> QED BY <1>7, <2>2, <2>3, <2>4 DEF TakeHold, goes
<1>8. ASSUME NEW w \in Threads, Claim(w) PROVE OInv'
  <2>1. UNCHANGED <<rec, fresh, sends, diverted, order>>
    BY <1>8 DEF Claim, goes, observed, bounds
  <2>2. \A d \in Deliveries : state'[d] = "absent" <=> state[d] = "absent"
    BY <1>0, <1>8 DEF Claim, Shape
  <2>3. PICK to \in {"sending", "lost"} : pc' = [pc EXCEPT ![w] = to]
    BY <1>8 DEF Claim, goes
  <2> QED BY <1>2, <2>1, <2>2, <2>3
<1>9. ASSUME NEW w \in Threads, NEW o \in Answers, Send(w, o) PROVE OInv'
  <2>1. /\ UNCHANGED <<state, rec, fresh, sends, diverted, order>>
        /\ pc' = [pc EXCEPT ![w] = o]
    BY <1>9 DEF Send, goes, ledger, bounds
  <2>2. o \notin {"diverting", "choosing", "registering", "looking", "holding"}
    BY DEF Answers
  <2> QED BY <1>2, <2>1, <2>2
<1>10. ASSUME NEW w \in Threads, NEW o \in Answers, NEW written \in BOOLEAN, Finish(w, o, written)
       PROVE  OInv'
  <2>1. UNCHANGED <<sends, diverted, order>>
    BY <1>10 DEF Finish, observed
  <2>2. \A d \in Deliveries : state'[d] = "absent" <=> state[d] = "absent"
    <3>1. rec[w] \in Deliveries => state[rec[w]] = "attempting"
      BY <1>0, <1>10 DEF Finish, ClaimIsExclusive, Sending, Answers
    <3>2. result(o) # "absent"
      BY DEF result, Answers
    <3> QED BY <1>0, <1>10, <3>1, <3>2 DEF Finish, Shape
  <2>3. CASE finished(w)
    BY <1>3, <2>1, <2>2, <2>3
  <2>4. CASE goes(w, "handing")
    BY <1>2, <2>1, <2>2, <2>4 DEF goes
  <2> QED BY <1>10, <2>3, <2>4 DEF Finish, refused_to
<1>11. ASSUME NEW w \in Threads, NEW taken \in BOOLEAN, HandOff(w, taken) PROVE OInv'
  BY <1>1, <1>11 DEF HandOff, ledger
<1>12. ASSUME NEW h \in Handlers, ChooseHosted(h) PROVE OInv'
  <2>1. /\ h \in Threads /\ h # Replay /\ pc' = [pc EXCEPT ![h] = "registering"]
        /\ UNCHANGED <<state, rec, fresh, sends, diverted, order>> /\ Deciding(h)
    BY <1>12 DEF ChooseHosted, ledger, observed, bounds, Threads, Deciding
  <2> QED BY <1>2, <2>1
<1>13. ASSUME NEW h \in Handlers, NEW found \in BOOLEAN, ChooseLocal(h, found) PROVE OInv'
  <2>1. /\ h \in Threads /\ h # Replay /\ Deciding(h)
        /\ UNCHANGED <<state, sends, diverted, order>>
    BY <1>13 DEF ChooseLocal, ledger, observed, bounds, Threads, Deciding
  <2>2. CASE finished(h)
    BY <1>1, <2>1, <2>2
  <2>3. CASE pc' = [pc EXCEPT ![h] = "registering"] /\ UNCHANGED <<rec, fresh>>
    BY <1>2, <2>1, <2>3
  <2> QED BY <1>13, <2>2, <2>3 DEF ChooseLocal
<1>14. ASSUME NEW h \in Handlers, Register(h) PROVE OInv'
  <2>1. /\ h \in Threads /\ h # Replay /\ pc[h] = "registering" /\ Deciding(h)
        /\ UNCHANGED <<rec, fresh, sends, diverted>> /\ pc' = [pc EXCEPT ![h] = "claiming"]
        /\ rec[h] \in Deliveries
    BY <1>14 DEF Register, goes, observed, bounds, Threads, Deciding, RestTypes
  <2>2. /\ \A d \in Deliveries : d # rec[h] => state'[d] = state[d]
        /\ state'[rec[h]] # "absent"
        /\ \A d \in Deliveries : state'[d] = "absent" => state[d] = "absent"
    BY <1>0, <1>14, <2>1 DEF Register, Shape
  <2>3. pc'[h] = "claiming" /\ \A v \in Threads \ {h} : pc'[v] = pc[v]
    BY <1>0, <2>1 DEF Shape
  <2>4. \A v \in Threads : Deciding(v)' => Deciding(v) /\ v # h
    BY <2>1, <2>3 DEF Deciding
  <2>5. ASSUME NEW d \in Deliveries, sends'[d] <= 1 PROVE SentAtMostOnce(d)'
    <3>1. SentAtMostOnce(d)
      BY <2>1, <2>5 DEF OInv
    <3>2. CASE d = rec[h]
      <4>1. /\ diverted[d] = 0 /\ sends[d] # 0
            /\ \A v \in Threads : rec[v] = d => v = h
        BY <2>1, <3>1, <3>2 DEF SentAtMostOnce
      <4> QED BY <2>1, <2>4, <4>1 DEF SentAtMostOnce
    <3>3. CASE d # rec[h]
      BY <2>1, <2>2, <2>4, <3>1, <3>3 DEF SentAtMostOnce
    <3> QED BY <3>2, <3>3
  <2>6. \A i \in DOMAIN order' : state'[order'[i]] # "absent"
    <3> SUFFICES ASSUME NEW i \in DOMAIN order' PROVE state'[order'[i]] # "absent"
      OBVIOUS
    <3>1. PICK old \in Seq(Deliveries) : old = order
      BY DEF RestTypes
    <3>2. \/ i \in DOMAIN order /\ order'[i] = order[i]
          \/ order'[i] = rec[h]
      <4>1. order' = old \/ order' = Append(old, rec[h])
        BY <1>14, <3>1 DEF Register
      <4>2. CASE order' = old
        BY <3>1, <4>2
      <4>3. CASE order' = Append(old, rec[h])
        <5>1. /\ DOMAIN Append(old, rec[h]) = 1..(Len(old) + 1) /\ Len(old) \in Nat
              /\ DOMAIN old = 1..Len(old)
              /\ \A k \in 1..Len(old) : Append(old, rec[h])[k] = old[k]
              /\ Append(old, rec[h])[Len(old) + 1] = rec[h]
          BY <2>1
        <5>2. i \in 1..Len(old) \/ i = Len(old) + 1
          BY <4>3, <5>1
        <5> QED BY <3>1, <4>3, <5>1, <5>2
      <4> QED BY <4>1, <4>2, <4>3
    <3>3. CASE order'[i] = rec[h]
      BY <2>2, <3>3
    <3>4. CASE i \in DOMAIN order /\ order'[i] = order[i]
      <4>1. order[i] \in Deliveries /\ state[order[i]] # "absent"
        BY <3>4 DEF OInv, RestTypes
      <4> QED BY <2>2, <3>4, <4>1
    <3> QED BY <3>2, <3>3, <3>4
  <2>7. ~fresh'[Replay] /\ pc'[Replay] \notin {"diverting", "choosing", "registering"}
    BY <2>1, <2>3 DEF OInv, Threads
  <2> QED BY <2>5, <2>6, <2>7 DEF OInv
<1>15. ASSUME NEW h \in Handlers, NEW e \in Deliveries, Receive(h, e) PROVE OInv'
  <2>1. /\ h \in Threads /\ h # Replay /\ UNCHANGED <<state, order, diverted>> /\ pc[h] = "idle"
        /\ sends' = [sends EXCEPT ![e] = @ + 1]
        /\ \A v \in Threads \ {h} : pc'[v] = pc[v] /\ rec'[v] = rec[v] /\ fresh'[v] = fresh[v]
        /\ \/ pc'[h] = "idle" /\ rec'[h] = rec[h]
           \/ pc'[h] = "looking" /\ rec'[h] = e
    BY <1>0, <1>15 DEF Receive, ledger, observed, Threads, Shape, RestTypes
  <2>2. \A v \in Threads \ {h} : Deciding(v)' <=> Deciding(v)
    BY <2>1 DEF Deciding
  <2>3. ASSUME NEW d \in Deliveries, sends'[d] <= 1 PROVE SentAtMostOnce(d)'
    <3>1. CASE d = e
      <4>1. sends[e] \in Nat /\ sends'[e] = sends[e] + 1
        BY <2>1 DEF RestTypes
      <4>2. sends[e] = 0
        BY <2>3, <3>1, <4>1
      <4>3. /\ state[d] = "absent" /\ diverted[d] = 0 /\ \A v \in Threads : rec[v] # d
            /\ sends'[d] # 0
        BY <3>1, <4>1, <4>2 DEF OInv, SentAtMostOnce
      <4> QED BY <2>1, <4>3 DEF SentAtMostOnce
    <3>2. CASE d # e
      <4>1. sends'[d] = sends[d]
        BY <2>1, <3>2 DEF RestTypes
      <4>2. SentAtMostOnce(d)
        BY <2>3, <4>1 DEF OInv
      <4>3. \A v \in Threads : rec'[v] = d => rec[v] = d
        BY <2>1, <3>2
      <4>4. ~(rec'[h] = d /\ Deciding(h)')
        BY <2>1, <3>2 DEF Deciding
      <4> QED BY <2>1, <2>2, <4>1, <4>2, <4>3, <4>4 DEF SentAtMostOnce
    <3> QED BY <3>1, <3>2
  <2>4. ~fresh'[Replay] /\ pc'[Replay] \notin {"diverting", "choosing", "registering"}
    BY <2>1 DEF OInv, Threads
  <2> QED BY <2>1, <2>3, <2>4 DEF OInv
<1>16. CASE NextRecord
  <2>1. PICK i : i = CHOOSE n \in todo : \A k \in todo : n <= k
    OBVIOUS
  <2>2. i \in DOMAIN order
    <3>1. DOMAIN order = 1..Len(order) /\ Len(order) \in Nat
      BY DEF RestTypes
    <3>2. todo # {} /\ todo \subseteq DOMAIN order
      BY <1>16 DEF NextRecord, RestTypes
    <3>3. todo \in SUBSET Nat
      BY <3>1, <3>2
    <3>4. \E x \in todo : \A y \in todo : x <= y
      BY <3>2, <3>3, LeastOf
    <3> QED BY <2>1, <3>2, <3>4
  <2>3. PICK e \in Deliveries : e = order[i] /\ state[e] # "absent"
    BY <2>2 DEF OInv, RestTypes
  <2>4. /\ UNCHANGED <<order, fresh, sends, diverted>>
        /\ \A v \in Threads \ {Replay} : pc'[v] = pc[v] /\ rec'[v] = rec[v]
        /\ pc'[Replay] \in {"looking", "idle", "handing"} /\ rec'[Replay] \in {None, e}
    BY <1>0, <1>16, <2>1, <2>3 DEF NextRecord, observed, bounds, Shape, RestTypes, Threads
  <2>5. \A d \in Deliveries : state'[d] = "absent" <=> state[d] = "absent"
    BY <1>0, <1>16, <2>1, <2>3 DEF NextRecord, Shape
  <2>6. \A v \in Threads : Deciding(v)' => v # Replay /\ Deciding(v)
    BY <2>4 DEF Deciding, OInv
  <2>7. ASSUME NEW d \in Deliveries, sends'[d] <= 1 PROVE SentAtMostOnce(d)'
    <3>1. SentAtMostOnce(d) /\ d # None
      BY <2>4, <2>7 DEF OInv
    <3>2. state[d] = "absent" => d # e
      BY <2>3
    <3> QED BY <2>4, <2>5, <2>6, <3>1, <3>2 DEF SentAtMostOnce
  <2>8. \A k \in DOMAIN order' : state'[order'[k]] # "absent"
    <3> SUFFICES ASSUME NEW k \in DOMAIN order PROVE state'[order[k]] # "absent"
      BY <2>4
    <3>1. order[k] \in Deliveries
      BY DEF RestTypes
    <3> QED BY <2>5, <3>1 DEF OInv
  <2> QED BY <2>4, <2>7, <2>8 DEF OInv
<1>17. ASSUME NEW c \in Callers,
              \/ Call(c) \/ CallElsewhere(c) \/ CallRaises(c)
              \/ \E pull \in BOOLEAN, o \in Answers : CallSends(c, pull, o)
       PROVE  OInv'
  <2>1. /\ UNCHANGED <<state, order, rec, fresh, sends, diverted>>
        /\ \A v \in Threads : pc'[v] = pc[v]
    BY <1>0, <1>17 DEF Call, CallElsewhere, CallRaises, CallSends, ledger, observed, bounds, Shape
  <2> QED BY <2>1 DEF OInv, SentAtMostOnce, Deciding, Threads
<1>18. CASE StartPass \/ Preview \/ MonthTurns \/ UNCHANGED vars
  <2>1. UNCHANGED <<state, order, rec, fresh, sends, diverted, pc>>
    BY <1>18 DEF StartPass, Preview, MonthTurns, vars, ledger, threads, observed, bounds
  <2> QED BY <2>1 DEF OInv, SentAtMostOnce, Deciding
<1>19. CASE Restart
  <2>1. /\ UNCHANGED <<order, sends, diverted>>
        /\ \A v \in Threads : pc'[v] = "idle" /\ rec'[v] = None /\ ~fresh'[v]
    BY <1>19 DEF Restart, observed
  <2>2. \A d \in Deliveries : state'[d] = "absent" <=> state[d] = "absent"
    BY <1>19 DEF Restart, recover
  <2>3. \A v \in Threads : ~Deciding(v)'
    BY <2>1 DEF Deciding
  <2>4. ASSUME NEW d \in Deliveries, sends'[d] <= 1 PROVE SentAtMostOnce(d)'
    <3>1. SentAtMostOnce(d) /\ d # None
      BY <2>1, <2>4 DEF OInv
    <3> QED BY <2>1, <2>2, <2>3, <3>1 DEF SentAtMostOnce
  <2>5. \A k \in DOMAIN order' : state'[order'[k]] # "absent"
    <3> SUFFICES ASSUME NEW k \in DOMAIN order PROVE state'[order[k]] # "absent"
      BY <2>1
    <3>1. order[k] \in Deliveries
      BY DEF RestTypes
    <3> QED BY <2>2, <3>1 DEF OInv
  <2> QED BY <2>1, <2>4, <2>5 DEF OInv, Threads
<1>20. ASSUME NEW w \in Threads, ThreadStep(w) PROVE OInv'
  BY <1>4, <1>5, <1>6, <1>7, <1>8, <1>9, <1>10, <1>11, <1>20 DEF ThreadStep
<1>21. ASSUME NEW h \in Handlers, HandlerStep(h) PROVE OInv'
  BY <1>12, <1>13, <1>14, <1>20, <1>21 DEF HandlerStep, Threads
<1>22. CASE ReplayStep
  BY <1>16, <1>18, <1>20, <1>22 DEF ReplayStep, Threads
<1> QED BY <1>15, <1>17, <1>18, <1>19, <1>21, <1>22 DEF Next

\* A push is handed to the device pool after a refusal once at most, and only if GitHub
\* runs nothing for it (refusal.py should_fallback).  A push queued on a device for want of
\* an adapter (webhook_dispatch.py _adapter_absent) is outside that: it may be sent to
\* GitHub or handed over as well, but not unless GitHub delivered it more than once.
THEOREM HandedOverOnceHolds == Spec => []HandedOverOnce
<1>1. Init => RestTypes /\ OInv
  <2>1. Init => RestTypes
    BY DispatchAssumption DEF Init, RestTypes, Lanes
  <2>2. Init => OInv
    BY DispatchAssumption DEF Init, OInv, SentAtMostOnce, Deciding, Threads
  <2> QED BY <2>1, <2>2
<1>2. DInv /\ RInv /\ RestTypes /\ OInv /\ [Next]_vars => RestTypes' /\ OInv'
  BY RestInductive, OInvInductive DEF DInv, RInv
<1>3. DInv /\ RestTypes /\ OInv => HandedOverOnce
  <2> SUFFICES ASSUME DInv, RestTypes, OInv, NEW d \in Deliveries, diverted[d] > 0,
                      ~(sends[d] > 1)
               PROVE  ~(queued[d] > 0) /\ ~(runs[d] > 0)
    BY DEF DInv, QueuedOnce, HandedOverOnce
  <2>1. sends[d] <= 1
    BY DEF RestTypes
  <2>2. state[d] = "absent"
    BY <2>1 DEF OInv, SentAtMostOnce
  <2>3. ~(asked[d] > 0) /\ asked[d] \in Nat
    BY <2>2 DEF DInv, ClaimIsExclusive, Shape
  <2>4. runs[d] = 0
    BY <2>3 DEF DInv, RefusedRunsNothing
  <2> QED BY <2>2, <2>4 DEF DInv, QueuedOnce
<1> QED BY <1>1, <1>2, <1>3, DInvHolds, RInvHolds, PTL DEF Spec
===============================================================================
