---------------------------- MODULE AdapterPlanner ----------------------------
(***************************************************************************)
(* plan_adapter_residency() of src/actserve/adapter_planner.py: which      *)
(* adapters stay in a memory budget so that the most loading time is       *)
(* avoided, by dynamic programming over memory in whole MiB.               *)
(*                                                                         *)
(* Sizes and the budget are in parts of a MiB, Unit of them to the MiB;    *)
(* adapters are numbered in the order of their names, which the code sorts *)
(* by.  Every iteration of the loop is a step.                             *)
(***************************************************************************)
EXTENDS Integers, Sequences, FiniteSets, FiniteSetsExt, Functions

CONSTANTS
  Count,    \* how many adapters there are
  Unit,     \* parts of a MiB
  Sizes,    \* what adapters may need, in parts
  Gains,    \* avoided_load_ms_per_minute they may have
  Budgets,  \* in parts
  None

ASSUME PlannerAssumption ==
  /\ Count \in Nat /\ Unit \in Nat \ {0}
  /\ Sizes \subseteq Nat /\ Gains \subseteq Nat /\ Budgets \subseteq Nat

Adapters == 1 .. Count
Demand == [size : Sizes, gain : Gains]

VARIABLES
  ordered,  \* the demands
  budget,   \* budget_mb
  next,     \* the index the loop is at
  states,   \* used memory |-> the best selection found that uses it
  plan,     \* the plan returned
  plans     \* history: every selection of the adapters considered that fits

vars == <<ordered, budget, next, states, plan, plans>>

Init ==
  /\ ordered \in [Adapters -> Demand] /\ budget \in Budgets
  /\ next = 1 /\ plan = None
  /\ states = [used \in {0} |-> [gain |-> 0, chosen |-> <<>>]]
  /\ plans = {[used |-> 0, gain |-> 0, chosen |-> <<>>]}

capacity == budget \div Unit

\* Mutant: part of a MiB is free.
WeightDown(i) == ordered[i].size \div Unit

\* Whole MiB, rounded up.
Weight(i) == (ordered[i].size + Unit - 1) \div Unit

\* How tuples of indices compare.
Precedes(s, t) ==
  \/ Len(s) < Len(t) /\ \A i \in 1 .. Len(s) : s[i] = t[i]
  \/ \E i \in 1 .. Len(s) :
       i <= Len(t) /\ s[i] < t[i] /\ \A j \in 1 .. i - 1 : s[j] = t[j]

\* Mutant: a better selection replaces nothing.
IsNeverBetter(candidate, incumbent) == FALSE

\* Mutant: of two equal selections the later one stays.
IsAtLeast(candidate, incumbent) == candidate.gain >= incumbent.gain

IsBetter(candidate, incumbent) ==
  \/ candidate.gain > incumbent.gain
  \/ candidate.gain = incumbent.gain /\ Precedes(candidate.chosen, incumbent.chosen)

\* A selection with the adapter the loop is at.
WithNext(selection) ==
  [gain |-> selection.gain + ordered[next].gain, chosen |-> Append(selection.chosen, next)]

\* One iteration of the loop over the adapters; the inner loop reads the states
\* of the iteration before and writes a copy.
Consider ==
  LET weight == Weight(next)
      reached == {used \in 0 .. capacity : used - weight \in DOMAIN states}
  IN  /\ plan = None /\ next <= Count
      /\ states' =
           [used \in DOMAIN states \cup reached |->
              IF used \in reached
                 /\ (used \in DOMAIN states =>
                       IsBetter(WithNext(states[used - weight]), states[used]))
                THEN WithNext(states[used - weight])
                ELSE states[used]]
      /\ plans' = plans \cup
           {[used |-> p.used + weight, gain |-> p.gain + ordered[next].gain,
             chosen |-> Append(p.chosen, next)] :
              p \in {q \in plans : q.used + weight <= capacity}}
      /\ next' = next + 1
      /\ UNCHANGED <<ordered, budget, plan>>

\* Mutant: the fullest states.
BestByUse == {used \in DOMAIN states : \A other \in DOMAIN states : other <= used}

\* The states of the greatest gain, and of these the one that uses the least.
Best ==
  {used \in DOMAIN states : \A other \in DOMAIN states :
     \/ states[used].gain > states[other].gain
     \/ states[used].gain = states[other].gain /\ used <= other}

Finish ==
  /\ plan = None /\ next > Count
  /\ \E used \in Best :
       plan' = [selected |-> states[used].chosen, gain |-> states[used].gain,
                used_mb |-> MapThenSumSet(LAMBDA i : ordered[i].size, Range(states[used].chosen))]
  /\ UNCHANGED <<ordered, budget, next, states, plans>>

Next == Consider \/ Finish

Spec == Init /\ [][Next]_vars
=============================================================================
