-------------------------------- MODULE Steps -------------------------------
(***************************************************************************)
(* From what a run's script prints to the step records the broker keeps    *)
(* (steps.py).  A mark is what the script printed of a step: its number,   *)
(* what its output and name cost, and whether its end marker was reached.  *)
(* A record has those and how many steps are missing after it.  Markers of *)
(* another nonce are output and are left out.                              *)
(***************************************************************************)
EXTENDS Integers, Sequences, SequencesExt, FiniteSets

CONSTANTS
  StepCount, StepCost, StepBudget   \* MAX_STEPS, MAX_STEP_CHARS, MAX_TOTAL_CHARS

ASSUME StepsAssumption ==
  /\ {StepCount, StepCost, StepBudget} \subseteq Nat \ {0} /\ StepCost <= StepBudget

\* A step's output is cut to its tail, and what it is charged for is what is left.
bound(cost) == IF cost <= StepCost THEN cost ELSE StepCost

\* What the steps cost together, counted as pairs of position and character.
charge(steps) == Cardinality(UNION {{i} \X (1..steps[i].cost) : i \in 1..Len(steps)})

\* What is at some positions of a sequence, in order.
only(marks, kept) ==
  [i \in 1..Cardinality(kept) |->
     marks[CHOOSE k \in kept : Cardinality({n \in kept : n <= k}) = i]]

\* A mark is kept when none is kept before it, or its number is the next of the last one.
Counts(marks, kept) ==
  \A i \in 1..Len(marks) :
    i \in kept <=>
      LET before == {k \in kept : k < i} IN
      \/ before = {}
      \/ \E k \in before : /\ \A n \in before : n <= k
                           /\ marks[i].index = marks[k].index + 1

\* The marks that are steps: the first sets the number, the others count on from it.
boundaries(marks) ==
  only(marks, CHOOSE kept \in SUBSET (1..Len(marks)) : Counts(marks, kept))

\* As many steps as a report may have.
first(steps) == SubSeq(steps, 1, IF Len(steps) > StepCount THEN StepCount ELSE Len(steps))

\* The longest prefix that leaves a reserve within the budget.
fitting(steps, reserve) ==
  LET fits == {k \in 0..Len(steps) : reserve + charge(SubSeq(steps, 1, k)) <= StepBudget}
  IN IF fits = {} THEN 0 ELSE CHOOSE k \in fits : \A i \in fits : i <= k

\* Mutant: the first steps are kept, and the last one goes with the rest.
within_budget_head(steps) ==
  LET kept == first(steps) IN
  IF kept = <<>> THEN <<>>
  ELSE [kept EXCEPT ![Len(kept)].dropped = Len(steps) - Len(kept)]

\* The last step is kept whatever it costs, the others as far as count and budget go, and
\* the last record says how many are missing.
within_budget(steps) ==
  LET front == SubSeq(first(steps), 1, Len(first(steps)) - 1)
      k == fitting(front, Last(steps).cost)
  IN IF steps = <<>> THEN <<>>
     ELSE Append(SubSeq(front, 1, k), [Last(steps) EXCEPT !.dropped = Len(steps) - k - 1])

\* A step is finished when an end marker or another step follows it in the log.
parse_steps(marks) ==
  LET kept == boundaries(marks)
      done(i) == \/ i < Len(kept)
                 \/ \E m \in Range(marks) : m.index >= kept[i].index /\ m.completed
  IN within_budget([i \in 1..Len(kept) |->
       [index |-> kept[i].index, cost |-> bound(kept[i].cost),
        completed |-> done(i), dropped |-> 0]])

\* The steps a report describes, with those it says are missing.
reported_total(steps) ==
  LET stated == SelectSeq(steps, LAMBDA s : s.dropped > 0) IN
  Len(steps) + (IF stated = <<>> THEN 0 ELSE Last(stated).dropped)

\* The broker applies its own bounds to what a device reported.
encode_steps(steps) ==
  LET k == fitting(first(steps), 0)
      kept == SubSeq(steps, 1, k)
  IN IF k = 0 \/ k = Len(steps) THEN kept
     ELSE [kept EXCEPT ![k].dropped = reported_total(steps) - k]
=============================================================================
