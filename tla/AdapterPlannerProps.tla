------------------------- MODULE AdapterPlannerProps -------------------------
(***************************************************************************)
(* What plan_adapter_residency() must find, stated over the model in       *)
(* AdapterPlanner.                                                         *)
(***************************************************************************)
EXTENDS AdapterPlanner

WeightOf(S) == MapThenSumSet(Weight, S)
GainOf(S) == MapThenSumSet(LAMBDA i : ordered[i].gain, S)
SizeOf(S) == MapThenSumSet(LAMBDA i : ordered[i].size, S)

\* Every variable has its type.
Selection == [gain : Nat, chosen : Seq(Adapters)]
TypeOK ==
  /\ ordered \in [Adapters -> Demand] /\ budget \in Budgets /\ next \in 1 .. Count + 1
  /\ DOMAIN states \subseteq 0 .. capacity
  /\ \A used \in DOMAIN states : states[used] \in Selection
  /\ plans \subseteq [used : 0 .. capacity, gain : Nat, chosen : Seq(Adapters)]

\* For every amount of memory that some selection of the adapters seen so far
\* uses, the table holds one of those that gain most (adapter_planner.py:63-77).
TableIsBest ==
  /\ \A p \in plans : p.used \in DOMAIN states /\ p.gain <= states[p.used].gain
  /\ \A used \in DOMAIN states :
       [used |-> used, gain |-> states[used].gain, chosen |-> states[used].chosen] \in plans

\* The plan is one of the selections that fit; none gains more, and none that
\* gains as much uses less.
PlanBeatsAll ==
  plan # None =>
    \E p \in plans :
      /\ plan.selected = p.chosen /\ plan.gain = p.gain
      /\ \A q \in plans : q.gain < p.gain \/ (q.gain = p.gain /\ p.used <= q.used)

\* No set of adapters that fits in whole MiB avoids more loading than the plan,
\* and none that avoids as much is smaller (adapter_planner.py:79-82).
PlanIsOptimal ==
  plan # None =>
    LET best == Range(plan.selected)
    IN  /\ WeightOf(best) <= capacity /\ GainOf(best) = plan.gain
        /\ \A S \in SUBSET Adapters :
             WeightOf(S) <= capacity =>
               \/ GainOf(S) < plan.gain
               \/ GainOf(S) = plan.gain /\ WeightOf(best) <= WeightOf(S)

\* The adapters of a plan are in the budget to the last part of a MiB, and each
\* is in it once (adapter_planner.py:59, 65, 84-88).
PlanFits ==
  plan # None =>
    /\ plan.used_mb <= budget /\ plan.used_mb = SizeOf(Range(plan.selected))
    /\ Cardinality(Range(plan.selected)) = Len(plan.selected)

\* Ties are broken by name: among selections of the same weight and gain, the
\* table has the first (adapter_planner.py:95-100).  An adapter that weighs and
\* gains nothing is exempt: it is added or not as its number falls.
Sensible == \A i \in Adapters : Weight(i) > 0 \/ ordered[i].gain > 0
FirstOfEquals ==
  Sensible =>
    \A p \in plans :
      p.gain = states[p.used].gain =>
        p.chosen = states[p.used].chosen \/ Precedes(states[p.used].chosen, p.chosen)
=============================================================================
