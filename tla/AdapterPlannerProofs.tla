------------------------- MODULE AdapterPlannerProofs -------------------------
(***************************************************************************)
(* The optimality of the adapter planner, proved for every number of       *)
(* adapters, every budget and all sizes and gains.  The history variable   *)
(* plans is what the table is compared with: every selection that fits.    *)
(***************************************************************************)
EXTENDS AdapterPlannerProps, SequenceTheorems, DataLemmas

\* The capacity and the weights are whole MiB.
LEMMA WeightType ==
  ASSUME TypeOK
  PROVE  capacity \in Nat /\ \A i \in Adapters : Weight(i) \in Nat /\ ordered[i].gain \in Nat
<1>1. Unit \in Nat \ {0} /\ budget \in Nat /\ \A i \in Adapters : ordered[i].size \in Nat
  BY PlannerAssumption DEF PlannerAssumption, TypeOK, Demand
<1>2. \A n \in Nat : n \div Unit \in Nat
  BY <1>1
<1>3. \A i \in Adapters : ordered[i].size + Unit - 1 \in Nat
  BY <1>1
<1>4. \A i \in Adapters : ordered[i].gain \in Nat
  BY PlannerAssumption DEF PlannerAssumption, TypeOK, Demand
<1> QED BY <1>1, <1>2, <1>3, <1>4 DEF capacity, Weight

\* An iteration keeps the types.
LEMMA TypeStep == TypeOK /\ [Next]_vars => TypeOK'
<1> SUFFICES ASSUME TypeOK, [Next]_vars PROVE TypeOK'
  OBVIOUS
<1>1. CASE Consider
  <2> DEFINE weight == Weight(next)
             reached == {used \in 0 .. capacity : used - weight \in DOMAIN states}
  <2>1. /\ next \in Adapters /\ next' \in 1 .. Count + 1 /\ capacity' = capacity
        /\ ordered' \in [Adapters -> Demand] /\ budget' \in Budgets
    BY <1>1, PlannerAssumption DEF PlannerAssumption, Consider, TypeOK, Adapters, capacity
  <2>2. weight \in Nat /\ capacity \in Nat /\ ordered[next].gain \in Nat
    BY <2>1, WeightType
  <2> HIDE DEF weight
  <2>3. \A s \in Selection : WithNext(s) \in Selection
    BY <2>1, <2>2 DEF WithNext, Selection
  <2>4. /\ DOMAIN states' = DOMAIN states \cup reached
        /\ \A used \in DOMAIN states' :
             \/ used \in reached /\ states'[used] = WithNext(states[used - weight])
             \/ used \in DOMAIN states /\ states'[used] = states[used]
    BY <1>1 DEF Consider, weight
  <2>5. /\ DOMAIN states' \subseteq 0 .. capacity'
        /\ \A used \in DOMAIN states' : states'[used] \in Selection
    BY <2>1, <2>3, <2>4 DEF TypeOK
  <2>6. plans' \subseteq [used : 0 .. capacity', gain : Nat, chosen : Seq(Adapters)]
    <3> SUFFICES ASSUME NEW p \in plans, p.used + weight <= capacity
                 PROVE  [used |-> p.used + weight, gain |-> p.gain + ordered[next].gain,
                         chosen |-> Append(p.chosen, next)]
                          \in [used : 0 .. capacity, gain : Nat, chosen : Seq(Adapters)]
      BY <1>1, <2>1 DEF Consider, TypeOK, weight
    <3> QED BY <2>1, <2>2 DEF TypeOK
  <2> QED BY <2>1, <2>5, <2>6 DEF TypeOK
<1>2. CASE Finish
  BY <1>2 DEF Finish, TypeOK, capacity
<1>3. CASE UNCHANGED vars
  BY <1>3 DEF vars, TypeOK, capacity
<1> QED BY <1>1, <1>2, <1>3 DEF Next

\* What an iteration makes of the table and of the selections.
LEMMA Iteration ==
  ASSUME TypeOK, Consider
  PROVE  LET weight == Weight(next)
             Extended(p) == [used |-> p.used + weight, gain |-> p.gain + ordered[next].gain,
                             chosen |-> Append(p.chosen, next)]
             reached == {used \in 0 .. capacity : used - weight \in DOMAIN states}
         IN  /\ DOMAIN states' = DOMAIN states \cup reached
             /\ \A used \in DOMAIN states' :
                  \/ /\ used \in reached /\ states'[used] = WithNext(states[used - weight])
                     /\ used \in DOMAIN states =>
                          IsBetter(WithNext(states[used - weight]), states[used])
                  \/ /\ used \in DOMAIN states /\ states'[used] = states[used]
                     /\ used \in reached =>
                          ~IsBetter(WithNext(states[used - weight]), states[used])
             /\ \A p \in plans' :
                  p \in plans \/ \E q \in plans : q.used + weight <= capacity /\ p = Extended(q)
             /\ plans \subseteq plans'
             /\ \A q \in plans : q.used + weight <= capacity => Extended(q) \in plans'
BY DEF Consider

\* An iteration keeps the table optimal.
LEMMA TableStep == TypeOK /\ TableIsBest /\ Consider => TableIsBest'
<1> SUFFICES ASSUME TypeOK, TableIsBest, Consider PROVE TableIsBest'
  OBVIOUS
<1> DEFINE weight == Weight(next)
           gain == ordered[next].gain
           Extended(p) == [used |-> p.used + weight, gain |-> p.gain + gain,
                           chosen |-> Append(p.chosen, next)]
           reached == {used \in 0 .. capacity : used - weight \in DOMAIN states}
<1>1. next \in Adapters
  BY PlannerAssumption DEF PlannerAssumption, Consider, TypeOK, Adapters
<1>2. weight \in Nat /\ gain \in Nat /\ capacity \in Nat
  BY <1>1, WeightType
<1>3. /\ DOMAIN states' = DOMAIN states \cup reached
      /\ \A used \in DOMAIN states' :
           \/ /\ used \in reached /\ states'[used] = WithNext(states[used - weight])
              /\ used \in DOMAIN states => IsBetter(WithNext(states[used - weight]), states[used])
           \/ /\ used \in DOMAIN states /\ states'[used] = states[used]
              /\ used \in reached => ~IsBetter(WithNext(states[used - weight]), states[used])
      /\ \A p \in plans' :
           p \in plans \/ \E q \in plans : q.used + weight <= capacity /\ p = Extended(q)
      /\ plans \subseteq plans'
      /\ \A q \in plans : q.used + weight <= capacity => Extended(q) \in plans'
  BY Iteration
<1>4. \A s : WithNext(s).gain = s.gain + gain /\ WithNext(s).chosen = Append(s.chosen, next)
  BY DEF WithNext
<1>5. /\ \A used \in DOMAIN states : used \in 0 .. capacity /\ states[used].gain \in Nat
      /\ \A p \in plans : p.used \in 0 .. capacity /\ p.gain \in Nat
  BY DEF TypeOK, Selection
<1> HIDE DEF weight, gain
\* the table gets no worse, and at least as good as what it is offered
<1>6. ASSUME NEW used \in DOMAIN states
      PROVE  used \in DOMAIN states' /\ states'[used].gain >= states[used].gain
  <2>1. used \in DOMAIN states' /\ states[used].gain \in Nat
    BY <1>3, <1>5
  <2>2. CASE states'[used] = states[used]
    BY <2>1, <2>2
  <2>3. CASE /\ used \in reached /\ states'[used] = WithNext(states[used - weight])
             /\ IsBetter(WithNext(states[used - weight]), states[used])
    <3>1. states'[used].gain > states[used].gain \/ states'[used].gain = states[used].gain
      BY <2>3 DEF IsBetter
    <3>2. states[used - weight].gain \in Nat
      BY <1>5, <2>3
    <3>3. states'[used].gain \in Nat
      BY <1>2, <1>4, <2>3, <3>2
    <3> QED BY <2>1, <3>1, <3>3
  <2> QED BY <1>3, <2>1, <2>2, <2>3
<1>7. ASSUME NEW used \in reached
      PROVE  used \in DOMAIN states' /\ states'[used].gain >= states[used - weight].gain + gain
  <2>1. states[used - weight].gain \in Nat /\ used \in DOMAIN states'
    BY <1>3, <1>5
  <2> QED BY <1>2, <1>3, <1>4, <1>5, <2>1 DEF IsBetter
<1>8. ASSUME NEW p \in plans' PROVE p.used \in DOMAIN states' /\ p.gain <= states'[p.used].gain
  <2>1. CASE p \in plans
    <3>1. p.used \in DOMAIN states /\ p.gain <= states[p.used].gain
      BY <2>1 DEF TableIsBest
    <3>2. states'[p.used].gain \in Nat
      BY <3>1, <1>6, TypeStep DEF TypeOK, Selection, Next
    <3> QED BY <1>5, <1>6, <2>1, <3>1, <3>2
  <2>2. ASSUME NEW q \in plans, q.used + weight <= capacity, p = Extended(q)
        PROVE  p.used \in DOMAIN states' /\ p.gain <= states'[p.used].gain
    <3>1. q.used \in DOMAIN states /\ q.gain <= states[q.used].gain
      BY DEF TableIsBest
    <3>2. /\ p.used = q.used + weight /\ p.gain = q.gain + gain
          /\ p.used - weight = q.used /\ p.used \in 0 .. capacity
      BY <1>2, <1>5, <2>2
    <3>3. p.used \in reached
      BY <3>1, <3>2
    <3>4. p.used \in DOMAIN states' /\ states'[p.used].gain >= states[q.used].gain + gain
      BY <1>7, <3>2, <3>3
    <3>5. states'[p.used].gain \in Nat
      BY <3>4, TypeStep DEF TypeOK, Selection, Next
    <3> QED BY <1>2, <1>5, <3>1, <3>2, <3>4, <3>5
  <2> QED BY <1>3, <2>1, <2>2
<1>9. ASSUME NEW used \in DOMAIN states'
      PROVE  [used |-> used, gain |-> states'[used].gain, chosen |-> states'[used].chosen] \in plans'
  <2> DEFINE Entry(u) == [used |-> u, gain |-> states[u].gain, chosen |-> states[u].chosen]
  <2>1. CASE used \in DOMAIN states /\ states'[used] = states[used]
    <3>1. Entry(used) \in plans
      BY <2>1 DEF TableIsBest
    <3> QED BY <1>3, <2>1, <3>1
  <2>2. CASE used \in reached /\ states'[used] = WithNext(states[used - weight])
    <3>1. used - weight \in DOMAIN states /\ used \in 0 .. capacity
      BY <2>2
    <3>2. Entry(used - weight) \in plans
      BY <3>1 DEF TableIsBest
    <3>3. (used - weight) + weight = used /\ used <= capacity
      BY <1>2, <3>1
    <3>4. Extended(Entry(used - weight)) \in plans'
      BY <1>3, <3>2, <3>3
    <3>5. Extended(Entry(used - weight))
            = [used |-> used, gain |-> states[used - weight].gain + gain,
               chosen |-> Append(states[used - weight].chosen, next)]
      BY <3>3
    <3> QED BY <1>4, <2>2, <3>4, <3>5
  <2> QED BY <1>3, <2>1, <2>2
<1> QED BY <1>8, <1>9 DEF TableIsBest

\* The empty table is optimal.
LEMMA InitTable == Init => TypeOK /\ TableIsBest
<1> SUFFICES ASSUME Init PROVE TypeOK /\ TableIsBest
  OBVIOUS
<1>1. /\ DOMAIN states = {0} /\ states[0] = [gain |-> 0, chosen |-> <<>>]
      /\ plans = {[used |-> 0, gain |-> 0, chosen |-> <<>>]}
  BY DEF Init
<1>2. budget \in Nat /\ Unit \in Nat \ {0} /\ Count \in Nat
  BY PlannerAssumption DEF PlannerAssumption, Init
<1>3. 0 \in 0 .. capacity
  BY <1>2 DEF capacity
<1>4. TypeOK
  BY <1>1, <1>2, <1>3 DEF Init, TypeOK, Selection
<1> QED BY <1>1, <1>4 DEF TableIsBest

\* For every amount of memory in use, the table has a selection that gains most
\* of all that use it (the loop of plan_adapter_residency()).
THEOREM TableOptimal == Spec => [](TypeOK /\ TableIsBest)
<1>1. TypeOK /\ TableIsBest /\ [Next]_vars => TypeOK' /\ TableIsBest'
  <2> SUFFICES ASSUME TypeOK, TableIsBest, [Next]_vars PROVE TypeOK' /\ TableIsBest'
    OBVIOUS
  <2>1. CASE Consider
    BY <2>1, TypeStep, TableStep
  <2>2. CASE Finish \/ UNCHANGED vars
    BY <2>2, TypeStep DEF Finish, vars, TableIsBest
  <2> QED BY <2>1, <2>2 DEF Next
<1> QED BY <1>1, InitTable, PTL DEF Spec

\* The selection returned is as good as any that fits
\* (the last lines of plan_adapter_residency()).
THEOREM PlanOptimal == Spec => []PlanBeatsAll
<1>1. Init => PlanBeatsAll
  BY DEF Init, PlanBeatsAll
<1>2. TypeOK /\ TableIsBest /\ PlanBeatsAll /\ [Next]_vars => PlanBeatsAll'
  <2> SUFFICES ASSUME TypeOK, TableIsBest, PlanBeatsAll, [Next]_vars PROVE PlanBeatsAll'
    OBVIOUS
  <2>1. CASE Consider
    BY <2>1 DEF Consider, PlanBeatsAll
  <2>2. CASE Finish
    <3>1. PICK used \in Best :
            /\ plan'.selected = states[used].chosen /\ plan'.gain = states[used].gain
            /\ plans' = plans
      BY <2>2 DEF Finish
    <3> DEFINE p == [used |-> used, gain |-> states[used].gain, chosen |-> states[used].chosen]
    <3>2. p \in plans
      BY DEF Best, TableIsBest
    <3>3. ASSUME NEW q \in plans PROVE q.gain < p.gain \/ (q.gain = p.gain /\ p.used <= q.used)
      <4>1. q.used \in DOMAIN states /\ q.gain <= states[q.used].gain /\ q.gain \in Nat
        BY DEF TableIsBest, TypeOK
      <4>2. states[q.used].gain \in Nat /\ states[used].gain \in Nat
        BY <4>1 DEF TypeOK, Selection, Best
      <4>3. \/ states[used].gain > states[q.used].gain
            \/ states[used].gain = states[q.used].gain /\ used <= q.used
        BY <4>1 DEF Best
      <4>4. p.gain = states[used].gain /\ p.used = used
        OBVIOUS
      <4> HIDE DEF p
      <4> QED BY <4>1, <4>2, <4>3, <4>4
    <3> QED BY <3>1, <3>2, <3>3 DEF PlanBeatsAll
  <2>3. CASE UNCHANGED vars
    BY <2>3 DEF vars, PlanBeatsAll
  <2> QED BY <2>1, <2>2, <2>3 DEF Next
<1> QED BY <1>1, <1>2, TableOptimal, PTL DEF Spec

-----------------------------------------------------------------------------
(* How selections are compared.                                             *)

\* A set of natural numbers has a least one.
LEMMA Least ==
  ASSUME NEW T, T \subseteq Nat, T # {}
  PROVE  \E m \in T : \A n \in T : m <= n
<1>1. PICK m \in T : \A n \in T : <<n, m>> \notin OpToRel(<, Nat)
  BY NatLessThanWellFounded, WFMin
<1>2. \A n \in T : ~(n < m)
  BY <1>1 DEF OpToRel
<1> QED BY <1>2

Shorter(s, t) == Len(s) < Len(t) /\ \A i \in 1 .. Len(s) : s[i] = t[i]
DiffersAt(s, t, i) ==
  i <= Len(s) /\ i <= Len(t) /\ s[i] < t[i] /\ \A j \in 1 .. i - 1 : s[j] = t[j]

\* Of two sequences of numbers that differ, one precedes the other.
LEMMA Total ==
  ASSUME NEW s \in Seq(Nat), NEW t \in Seq(Nat), s # t
  PROVE  Precedes(s, t) \/ Precedes(t, s)
<1> DEFINE T == {i \in Nat : i >= 1 /\ i <= Len(s) /\ i <= Len(t) /\ s[i] # t[i]}
<1>0. /\ Len(s) \in Nat /\ Len(t) \in Nat
      /\ \A i \in 1 .. Len(s) : s[i] \in Nat
      /\ \A i \in 1 .. Len(t) : t[i] \in Nat
  OBVIOUS
<1>1. CASE T = {}
  <2>1. \A i \in Nat : i >= 1 /\ i <= Len(s) /\ i <= Len(t) => s[i] = t[i]
    BY <1>1
  <2>2. Len(s) # Len(t)
    BY <1>0, <2>1, SeqEqual
  <2> QED BY <1>0, <2>1, <2>2 DEF Precedes
<1>2. CASE T # {}
  <2>1. PICK m \in T : \A n \in T : m <= n
    BY <1>2, Least
  <2>2. /\ m \in 1 .. Len(s) /\ m \in 1 .. Len(t) /\ s[m] # t[m]
        /\ \A j \in 1 .. m - 1 : s[j] = t[j]
    BY <1>0, <2>1
  <2>3. s[m] < t[m] \/ t[m] < s[m]
    BY <1>0, <2>2
  <2> QED BY <1>0, <2>2, <2>3 DEF Precedes
<1> QED BY <1>1, <1>2

\* Preceding is transitive.
LEMMA Transitive ==
  ASSUME NEW s \in Seq(Nat), NEW t \in Seq(Nat), NEW r \in Seq(Nat),
         Precedes(s, t), Precedes(t, r)
  PROVE  Precedes(s, r)
<1>0. /\ Len(s) \in Nat /\ Len(t) \in Nat /\ Len(r) \in Nat
      /\ \A i \in 1 .. Len(s) : s[i] \in Nat
      /\ \A i \in 1 .. Len(t) : t[i] \in Nat
      /\ \A i \in 1 .. Len(r) : r[i] \in Nat
  OBVIOUS
<1>1. ASSUME Shorter(s, t), Shorter(t, r) PROVE Shorter(s, r)
  <2>1. Len(s) < Len(t) /\ Len(t) < Len(r)
    BY <1>1 DEF Shorter
  <2>2. ASSUME NEW j \in 1 .. Len(s) PROVE s[j] = r[j]
    <3>1. j \in 1 .. Len(t)
      BY <1>0, <2>1
    <3> QED BY <1>1, <3>1 DEF Shorter
  <2> QED BY <1>0, <2>1, <2>2 DEF Shorter
<1>2. ASSUME Shorter(s, t), NEW i \in 1 .. Len(t), DiffersAt(t, r, i)
      PROVE  Shorter(s, r) \/ (i \in 1 .. Len(s) /\ DiffersAt(s, r, i))
  <2>1. /\ i <= Len(r) /\ t[i] < r[i] /\ \A j \in 1 .. i - 1 : t[j] = r[j]
        /\ \A j \in 1 .. Len(s) : s[j] = t[j]
    BY <1>2 DEF Shorter, DiffersAt
  <2>2. CASE i <= Len(s)
    <3>1. i \in 1 .. Len(s) /\ \A j \in 1 .. i - 1 : j \in 1 .. Len(s)
      BY <1>0, <2>2
    <3> QED BY <2>1, <2>2, <3>1 DEF DiffersAt
  <2>3. CASE i > Len(s)
    <3>1. Len(s) < Len(r) /\ \A j \in 1 .. Len(s) : j \in 1 .. i - 1
      BY <1>0, <2>1, <2>3
    <3> QED BY <2>1, <3>1 DEF Shorter
  <2> QED BY <1>0, <2>2, <2>3
<1>3. ASSUME NEW i \in 1 .. Len(s), DiffersAt(s, t, i), Shorter(t, r) PROVE DiffersAt(s, r, i)
  <2>1. /\ i <= Len(s) /\ i <= Len(t) /\ s[i] < t[i] /\ \A j \in 1 .. i - 1 : s[j] = t[j]
        /\ Len(t) < Len(r) /\ \A j \in 1 .. Len(t) : t[j] = r[j]
    BY <1>3 DEF Shorter, DiffersAt
  <2>2. i <= Len(r) /\ i \in 1 .. Len(t) /\ \A j \in 1 .. i - 1 : j \in 1 .. Len(t)
    BY <1>0, <2>1
  <2> QED BY <2>1, <2>2 DEF DiffersAt
<1>4. ASSUME NEW i \in 1 .. Len(s), DiffersAt(s, t, i),
             NEW k \in 1 .. Len(t), DiffersAt(t, r, k)
      PROVE  \E n \in 1 .. Len(s) : DiffersAt(s, r, n)
  <2>1. /\ i <= Len(s) /\ i <= Len(t) /\ s[i] < t[i] /\ \A j \in 1 .. i - 1 : s[j] = t[j]
        /\ k <= Len(t) /\ k <= Len(r) /\ t[k] < r[k] /\ \A j \in 1 .. k - 1 : t[j] = r[j]
    BY <1>4 DEF DiffersAt
  <2>2. CASE i < k
    <3>1. i \in 1 .. k - 1 /\ \A j \in 1 .. i - 1 : j \in 1 .. k - 1
      BY <1>0, <2>2
    <3>2. i <= Len(r)
      BY <1>0, <2>1, <2>2
    <3> QED BY <2>1, <3>1, <3>2 DEF DiffersAt
  <2>3. CASE k < i
    <3>1. k \in 1 .. i - 1 /\ \A j \in 1 .. k - 1 : j \in 1 .. i - 1
      BY <1>0, <2>3
    <3>2. k \in 1 .. Len(s)
      BY <1>0, <2>1, <2>3
    <3>3. DiffersAt(s, r, k)
      BY <2>1, <3>1, <3>2 DEF DiffersAt
    <3> QED BY <3>2, <3>3
  <2>4. CASE k = i
    <3>1. s[i] \in Nat /\ t[i] \in Nat /\ i \in 1 .. Len(r)
      BY <1>0, <2>1, <2>4
    <3>2. s[i] < r[i]
      BY <1>0, <2>1, <2>4, <3>1
    <3>3. DiffersAt(s, r, i)
      BY <2>1, <2>4, <3>2 DEF DiffersAt
    <3> QED BY <3>3
  <2> QED BY <2>2, <2>3, <2>4
<1>5. \A x, y : Precedes(x, y) <=> Shorter(x, y) \/ \E i \in 1 .. Len(x) : DiffersAt(x, y, i)
  BY DEF Precedes, Shorter, DiffersAt
<1>6. Shorter(s, r) \/ \E i \in 1 .. Len(s) : DiffersAt(s, r, i)
  <2>1. CASE Shorter(s, t)
    BY <1>1, <1>2, <1>5, <2>1
  <2>2. CASE \E i \in 1 .. Len(s) : DiffersAt(s, t, i)
    BY <1>3, <1>4, <1>5, <2>2
  <2> QED BY <1>5, <2>1, <2>2
<1> QED BY <1>5, <1>6

\* Appending the same number keeps the order, unless one is a part of the other.
LEMMA Appended ==
  ASSUME NEW s \in Seq(Nat), NEW t \in Seq(Nat), NEW n \in Nat,
         Precedes(s, t), ~Shorter(s, t)
  PROVE  Precedes(Append(s, n), Append(t, n))
<1>1. PICK i \in 1 .. Len(s) : DiffersAt(s, t, i)
  BY DEF Precedes, Shorter, DiffersAt
<1>2. /\ Len(s) \in Nat /\ Len(t) \in Nat
      /\ Len(Append(s, n)) = Len(s) + 1 /\ Len(Append(t, n)) = Len(t) + 1
      /\ \A j \in 1 .. Len(s) : Append(s, n)[j] = s[j]
      /\ \A j \in 1 .. Len(t) : Append(t, n)[j] = t[j]
  OBVIOUS
<1>3. DiffersAt(Append(s, n), Append(t, n), i) /\ i \in 1 .. Len(Append(s, n))
  BY <1>1, <1>2 DEF DiffersAt
<1> QED BY <1>3 DEF DiffersAt, Precedes

-----------------------------------------------------------------------------
(* Ties.                                                                    *)

\* A selection is of adapters seen, is there once, and grows in memory or gain
\* with every adapter it takes.
ExtensionsGrow ==
  /\ \A p \in plans : \A i \in 1 .. Len(p.chosen) : p.chosen[i] < next
  /\ \A p, q \in plans : p.chosen = q.chosen => p = q
  /\ \A p, q \in plans : Shorter(p.chosen, q.chosen) =>
       /\ p.used <= q.used /\ p.gain <= q.gain
       /\ Sensible => p.used < q.used \/ p.gain < q.gain

\* Appending a number.
LEMMA AppendFacts ==
  ASSUME NEW s \in Seq(Nat), NEW n \in Nat
  PROVE  /\ Append(s, n) \in Seq(Nat) /\ Len(Append(s, n)) = Len(s) + 1 /\ Len(s) \in Nat
         /\ Append(s, n)[Len(s) + 1] = n
         /\ \A i \in 1 .. Len(s) : Append(s, n)[i] = s[i] /\ s[i] \in Nat
OBVIOUS

\* What was appended to can be told from the result.
LEMMA AppendedSame ==
  ASSUME NEW s \in Seq(Nat), NEW t \in Seq(Nat), NEW n \in Nat, Append(s, n) = Append(t, n)
  PROVE  s = t
<1>1. Len(s) + 1 = Len(t) + 1 /\ Len(s) \in Nat /\ Len(t) \in Nat
  BY AppendFacts
<1>2. \A i \in 1 .. Len(s) : Append(s, n)[i] = s[i]
  BY AppendFacts
<1>3. \A i \in 1 .. Len(t) : Append(t, n)[i] = t[i]
  BY AppendFacts
<1> QED BY <1>1, <1>2, <1>3, SeqEqual

\* Every iteration keeps that.
LEMMA GrowStep == TypeOK /\ ExtensionsGrow /\ Consider => ExtensionsGrow'
<1> SUFFICES ASSUME TypeOK, ExtensionsGrow, Consider PROVE ExtensionsGrow'
  OBVIOUS
<1> DEFINE weight == Weight(next)
           gain == ordered[next].gain
           Extended(p) == [used |-> p.used + weight, gain |-> p.gain + gain,
                           chosen |-> Append(p.chosen, next)]
<1>1. next \in Adapters /\ next \in Nat /\ next' = next + 1 /\ ordered' = ordered
  BY PlannerAssumption DEF PlannerAssumption, Consider, TypeOK, Adapters
<1>2. weight \in Nat /\ gain \in Nat /\ (Sensible => weight > 0 \/ gain > 0)
  BY <1>1, WeightType DEF Sensible
<1>3. \A p \in plans' : p \in plans \/ \E q \in plans : p = Extended(q)
  BY Iteration
<1>4. \A p \in plans : p.used \in Nat /\ p.gain \in Nat /\ p.chosen \in Seq(Nat)
  <2>1. Adapters \subseteq Nat
    BY DEF Adapters
  <2>2. \A p \in plans : p.used \in 0 .. capacity /\ p.gain \in Nat /\ p.chosen \in Seq(Adapters)
    BY DEF TypeOK
  <2>3. \A p \in plans : p.chosen \in Seq(Nat)
    BY <2>1, <2>2, SeqMonotonic
  <2> QED BY <2>2, <2>3
<1>5. Sensible' = Sensible
  BY <1>1 DEF Sensible, Weight
<1> HIDE DEF weight, gain
<1>6. ASSUME NEW p \in plans
      PROVE  /\ Extended(p).used = p.used + weight /\ Extended(p).gain = p.gain + gain
             /\ Extended(p).chosen = Append(p.chosen, next)
  OBVIOUS
<1> HIDE DEF Extended
\* the last adapter of an extension is in no selection of before
<1>7. ASSUME NEW p \in plans, NEW q \in plans
      PROVE  ~Shorter(Extended(p).chosen, q.chosen) /\ Extended(p).chosen # q.chosen
  <2>1. /\ Extended(p).chosen[Len(p.chosen) + 1] = next
        /\ Len(Extended(p).chosen) = Len(p.chosen) + 1 /\ Len(p.chosen) \in Nat
    BY <1>1, <1>4, <1>6, AppendFacts
  <2>2. \A i \in 1 .. Len(q.chosen) : q.chosen[i] < next
    BY DEF ExtensionsGrow
  <2>3. Len(q.chosen) \in Nat /\ ~(next < next)
    BY <1>1, <1>4
  <2> QED BY <2>1, <2>2, <2>3 DEF Shorter
<1>8. ASSUME NEW p \in plans' PROVE \A i \in 1 .. Len(p.chosen) : p.chosen[i] < next'
  <2>1. CASE p \in plans
    <3>1. \A i \in 1 .. Len(p.chosen) : p.chosen[i] < next /\ p.chosen[i] \in Nat
      BY <1>4, <2>1 DEF ExtensionsGrow
    <3> QED BY <1>1, <3>1
  <2>2. ASSUME NEW q \in plans, p = Extended(q)
        PROVE  \A i \in 1 .. Len(p.chosen) : p.chosen[i] < next'
    <3>1. \A i \in 1 .. Len(q.chosen) : q.chosen[i] < next
      BY DEF ExtensionsGrow
    <3>2. /\ Len(p.chosen) = Len(q.chosen) + 1 /\ Len(q.chosen) \in Nat
          /\ p.chosen[Len(q.chosen) + 1] = next
          /\ \A i \in 1 .. Len(q.chosen) : p.chosen[i] = q.chosen[i] /\ q.chosen[i] \in Nat
      <4>1. p.chosen = Append(q.chosen, next) /\ q.chosen \in Seq(Nat)
        BY <1>4, <1>6, <2>2
      <4> QED BY <1>1, <4>1, AppendFacts
    <3>3. \A i \in 1 .. Len(p.chosen) : i \in 1 .. Len(q.chosen) \/ i = Len(q.chosen) + 1
      BY <3>2
    <3>4. \A i \in 1 .. Len(q.chosen) : q.chosen[i] < next + 1 /\ q.chosen[i] = p.chosen[i]
      BY <1>1, <3>1, <3>2
    <3>5. next < next + 1
      BY <1>1
    <3> QED BY <1>1, <3>2, <3>3, <3>4, <3>5
  <2> QED BY <1>3, <2>1, <2>2
<1>9. ASSUME NEW p \in plans', NEW q \in plans', p.chosen = q.chosen PROVE p = q
  <2>1. ASSUME NEW p0 \in plans, p = Extended(p0), NEW q0 \in plans, q = Extended(q0) PROVE p = q
    <3>1. Append(p0.chosen, next) = Append(q0.chosen, next)
      BY <1>6, <1>9, <2>1
    <3>2. p0.chosen = q0.chosen
      <4>1. p0.chosen \in Seq(Nat) /\ q0.chosen \in Seq(Nat) /\ next \in Nat
        BY <1>1, <1>4
      <4> QED BY <3>1, <4>1, AppendedSame
    <3>3. p0 = q0
      BY <3>2 DEF ExtensionsGrow
    <3> QED BY <2>1, <3>3
  <2>2. CASE p \in plans /\ q \in plans
    BY <1>9, <2>2 DEF ExtensionsGrow
  <2> QED BY <1>3, <1>7, <1>9, <2>1, <2>2
<1>10. ASSUME NEW p \in plans', NEW q \in plans', Shorter(p.chosen, q.chosen)
       PROVE  /\ p.used <= q.used /\ p.gain <= q.gain
              /\ Sensible => p.used < q.used \/ p.gain < q.gain
  <2>1. CASE p \in plans /\ q \in plans
    BY <1>10, <2>1 DEF ExtensionsGrow
  <2>2. ASSUME p \in plans, NEW r \in plans, q = Extended(r)
        PROVE  /\ p.used <= q.used /\ p.gain <= q.gain
               /\ Sensible => p.used < q.used \/ p.gain < q.gain
    <3>1. /\ q.used = r.used + weight /\ q.gain = r.gain + gain
          /\ p.used \in Nat /\ p.gain \in Nat /\ r.used \in Nat /\ r.gain \in Nat
      BY <1>4, <1>6, <2>2
    <3>2. /\ Len(q.chosen) = Len(r.chosen) + 1 /\ Len(r.chosen) \in Nat /\ Len(p.chosen) \in Nat
          /\ \A i \in 1 .. Len(r.chosen) : q.chosen[i] = r.chosen[i]
      <4>1. q.chosen = Append(r.chosen, next) /\ r.chosen \in Seq(Nat) /\ p.chosen \in Seq(Nat)
        BY <1>4, <1>6, <2>2
      <4> QED BY <1>1, <4>1, AppendFacts
    <3>3. /\ Len(p.chosen) <= Len(r.chosen)
          /\ \A i \in 1 .. Len(p.chosen) : p.chosen[i] = r.chosen[i]
      BY <1>10, <3>2 DEF Shorter
    <3>4. CASE Len(p.chosen) = Len(r.chosen)
      <4>1. p.chosen = r.chosen
        BY <1>4, <2>2, <3>3, <3>4, SeqEqual
      <4>2. p = r
        BY <2>2, <4>1 DEF ExtensionsGrow
      <4> QED BY <1>2, <3>1, <4>2
    <3>5. CASE Len(p.chosen) < Len(r.chosen)
      <4>1. Shorter(p.chosen, r.chosen)
        BY <3>3, <3>5 DEF Shorter
      <4>2. /\ p.used <= r.used /\ p.gain <= r.gain
            /\ Sensible => p.used < r.used \/ p.gain < r.gain
        BY <2>2, <4>1 DEF ExtensionsGrow
      <4> QED BY <1>2, <3>1, <4>2
    <3> QED BY <3>2, <3>3, <3>4, <3>5
  <2>3. ASSUME NEW r \in plans, p = Extended(r), NEW t \in plans, q = Extended(t) PROVE FALSE
    <3>1. /\ Len(p.chosen) = Len(r.chosen) + 1 /\ Len(r.chosen) \in Nat
          /\ p.chosen[Len(r.chosen) + 1] = next
          /\ Len(q.chosen) = Len(t.chosen) + 1 /\ Len(t.chosen) \in Nat
          /\ \A i \in 1 .. Len(t.chosen) : q.chosen[i] = t.chosen[i]
      <4>1. /\ p.chosen = Append(r.chosen, next) /\ r.chosen \in Seq(Nat)
            /\ q.chosen = Append(t.chosen, next) /\ t.chosen \in Seq(Nat)
        BY <1>4, <1>6, <2>3
      <4> QED BY <1>1, <4>1, AppendFacts
    <3>2. /\ Len(p.chosen) < Len(q.chosen)
          /\ \A i \in 1 .. Len(p.chosen) : p.chosen[i] = q.chosen[i]
      BY <1>10 DEF Shorter
    <3>3. Len(r.chosen) + 1 \in 1 .. Len(t.chosen) /\ Len(r.chosen) + 1 \in 1 .. Len(p.chosen)
      BY <3>1, <3>2
    <3>4. t.chosen[Len(r.chosen) + 1] = next
      BY <3>1, <3>2, <3>3
    <3>5. t.chosen[Len(r.chosen) + 1] < next
      BY <3>3 DEF ExtensionsGrow
    <3> QED BY <1>1, <3>4, <3>5
  <2> QED BY <1>3, <1>7, <1>10, <2>1, <2>2, <2>3
<1> QED BY <1>5, <1>8, <1>9, <1>10 DEF ExtensionsGrow

\* Every iteration keeps the first of equal selections in the table.
LEMMA FirstStep ==
  TypeOK /\ TableIsBest /\ ExtensionsGrow /\ FirstOfEquals /\ Consider => FirstOfEquals'
<1> SUFFICES ASSUME TypeOK, TableIsBest, ExtensionsGrow, FirstOfEquals, Consider, Sensible',
                    NEW p \in plans', p.gain = states'[p.used].gain
             PROVE  \/ p.chosen = states'[p.used].chosen
                    \/ Precedes(states'[p.used].chosen, p.chosen)
  BY DEF FirstOfEquals
<1> DEFINE weight == Weight(next)
           gain == ordered[next].gain
           Extended(q) == [used |-> q.used + weight, gain |-> q.gain + gain,
                           chosen |-> Append(q.chosen, next)]
           reached == {used \in 0 .. capacity : used - weight \in DOMAIN states}
           u == p.used
           offer == states[u - weight]
           FirstIs(s, t) == t = s \/ Precedes(s, t)
<1>1. next \in Adapters /\ next \in Nat /\ ordered' = ordered
  BY PlannerAssumption DEF PlannerAssumption, Consider, TypeOK, Adapters
<1>2. weight \in Nat /\ gain \in Nat
  BY <1>1, WeightType
<1>3. Sensible
  BY <1>1 DEF Sensible, Weight
<1>4. /\ \/ /\ u \in reached /\ states'[u] = WithNext(offer)
            /\ u \in DOMAIN states => IsBetter(WithNext(offer), states[u])
         \/ /\ u \in DOMAIN states /\ states'[u] = states[u]
            /\ u \in reached => ~IsBetter(WithNext(offer), states[u])
      /\ p \in plans \/ \E q \in plans : q.used + weight <= capacity /\ p = Extended(q)
  <2>1. u \in DOMAIN states'
    BY TableStep DEF TableIsBest
  <2> QED BY <2>1, Iteration
<1>5. \A s : WithNext(s).gain = s.gain + gain /\ WithNext(s).chosen = Append(s.chosen, next)
  BY DEF WithNext
<1>6. Adapters \subseteq Nat
  BY DEF Adapters
<1>7. \A v \in DOMAIN states :
        v \in 0 .. capacity /\ states[v].gain \in Nat /\ states[v].chosen \in Seq(Nat)
  <2>1. \A v \in DOMAIN states :
          v \in 0 .. capacity /\ states[v].gain \in Nat /\ states[v].chosen \in Seq(Adapters)
    BY DEF TypeOK, Selection
  <2> QED BY <1>6, <2>1, SeqMonotonic
<1>8. \A q \in plans : q.used \in 0 .. capacity /\ q.gain \in Nat /\ q.chosen \in Seq(Nat)
  <2>1. \A q \in plans : q.used \in 0 .. capacity /\ q.gain \in Nat /\ q.chosen \in Seq(Adapters)
    BY DEF TypeOK
  <2> QED BY <1>6, <2>1, SeqMonotonic
<1>9. capacity \in Nat
  BY WeightType
<1> HIDE DEF weight, gain
\* an old selection: the table held one before it, and what replaces that is before it too
<1>10. CASE p \in plans
  <2>1. u \in DOMAIN states /\ p.gain <= states[u].gain
    BY <1>10 DEF TableIsBest
  <2>2. CASE states'[u] = states[u]
    BY <1>3, <1>10, <2>2 DEF FirstOfEquals
  <2>3. CASE u \in reached /\ states'[u] = WithNext(offer) /\ IsBetter(WithNext(offer), states[u])
    <3>1. /\ p.gain = offer.gain + gain /\ states'[u].chosen = Append(offer.chosen, next)
          /\ offer.gain \in Nat /\ offer.chosen \in Seq(Nat) /\ u - weight \in DOMAIN states
      BY <1>5, <1>7, <2>3
    <3>2. /\ p.gain = states[u].gain /\ Precedes(states'[u].chosen, states[u].chosen)
      BY <1>2, <1>5, <1>7, <1>8, <1>10, <2>1, <2>3, <3>1 DEF IsBetter
    <3>3. FirstIs(states[u].chosen, p.chosen)
      BY <1>3, <1>10, <3>2 DEF FirstOfEquals
    <3>4. states'[u].chosen \in Seq(Nat) /\ states[u].chosen \in Seq(Nat) /\ p.chosen \in Seq(Nat)
      BY <1>1, <1>7, <1>8, <1>10, <2>1, <3>1
    <3> QED BY <3>2, <3>3, <3>4, Transitive
  <2> QED BY <1>4, <2>1, <2>2, <2>3
\* an extension of q: the extension of what the table held for q comes before it
<1>11. ASSUME NEW q \in plans, q.used + weight <= capacity, p = Extended(q)
       PROVE  FirstIs(states'[u].chosen, p.chosen)
  <2>1. /\ u = q.used + weight /\ p.gain = q.gain + gain /\ p.chosen = Append(q.chosen, next)
    BY <1>11
  <2>2. u - weight = q.used /\ u \in 0 .. capacity
    BY <1>2, <1>8, <1>9, <1>11, <2>1
  <2>3. offer = states[q.used] /\ q.used \in DOMAIN states /\ q.gain <= offer.gain
    BY <2>2 DEF TableIsBest
  <2>4. u \in reached /\ offer.gain \in Nat /\ offer.chosen \in Seq(Nat)
    BY <1>7, <2>2, <2>3
  <2>5. ASSUME offer.gain = q.gain PROVE FirstIs(Append(offer.chosen, next), p.chosen)
    <3>1. FirstIs(offer.chosen, q.chosen)
      BY <1>3, <2>3, <2>5 DEF FirstOfEquals
    <3>2. ~Shorter(offer.chosen, q.chosen)
      <4> DEFINE held == [used |-> q.used, gain |-> offer.gain, chosen |-> offer.chosen]
      <4>1. held \in plans /\ held.used = q.used /\ held.gain = q.gain /\ held.chosen = offer.chosen
        BY <2>3, <2>5 DEF TableIsBest
      <4>2. ~(held.used < q.used) /\ ~(held.gain < q.gain)
        BY <1>8, <4>1
      <4> QED BY <1>3, <4>1, <4>2 DEF ExtensionsGrow
    <3>3. CASE offer.chosen = q.chosen
      BY <2>1, <3>3
    <3>4. CASE Precedes(offer.chosen, q.chosen)
      BY <1>1, <1>8, <2>1, <2>4, <3>2, <3>4, Appended
    <3> QED BY <3>1, <3>3, <3>4
  <2>6. CASE states'[u] = WithNext(offer)
    <3>1. /\ states'[u].gain = offer.gain + gain
          /\ states'[u].chosen = Append(offer.chosen, next)
      BY <1>5, <2>6
    <3>2. q.gain \in Nat /\ q.gain + gain = offer.gain + gain
      BY <1>8, <2>1, <3>1
    <3>3. offer.gain = q.gain
      BY <1>2, <2>4, <3>2
    <3> QED BY <2>5, <3>1, <3>3
  <2>7. CASE u \in DOMAIN states /\ states'[u] = states[u] /\ ~IsBetter(WithNext(offer), states[u])
    <3>1. states[u].gain = q.gain + gain /\ states[u].gain \in Nat /\ states[u].chosen \in Seq(Nat)
      BY <1>7, <2>1, <2>7
    <3>2. ~(offer.gain + gain > states[u].gain)
      BY <1>5, <2>7 DEF IsBetter
    <3>3. offer.gain = q.gain
      BY <1>2, <1>8, <2>3, <2>4, <3>1, <3>2
    <3>4. ~Precedes(Append(offer.chosen, next), states[u].chosen)
      BY <1>5, <2>7, <3>1, <3>3 DEF IsBetter
    <3>5. FirstIs(Append(offer.chosen, next), p.chosen)
      BY <2>5, <3>3
    <3>6. Append(offer.chosen, next) \in Seq(Nat) /\ p.chosen \in Seq(Nat)
      BY <1>1, <1>8, <2>1, <2>4, AppendFacts
    <3>7. \/ states[u].chosen = Append(offer.chosen, next)
          \/ Precedes(states[u].chosen, Append(offer.chosen, next))
      BY <3>1, <3>4, <3>6, Total
    <3>8. FirstIs(states[u].chosen, p.chosen)
      BY <3>1, <3>5, <3>6, <3>7, Transitive
    <3> QED BY <2>7, <3>8
  <2> QED BY <1>4, <2>4, <2>6, <2>7
<1> QED BY <1>4, <1>10, <1>11

\* Of selections of the same weight and gain, the table has the first by name,
\* whatever order they are found in (_is_better()).
THEOREM TiesByName == Spec => []FirstOfEquals
<1> DEFINE Inv == TypeOK /\ TableIsBest /\ ExtensionsGrow /\ FirstOfEquals
<1>1. Init => Inv
  <2> SUFFICES ASSUME Init PROVE ExtensionsGrow /\ FirstOfEquals
    BY InitTable
  <2>1. /\ states[0] = [gain |-> 0, chosen |-> <<>>] /\ Len(<<>>) = 0
        /\ plans = {[used |-> 0, gain |-> 0, chosen |-> <<>>]}
    BY DEF Init
  <2> QED BY <2>1 DEF ExtensionsGrow, FirstOfEquals, Shorter
<1>2. Inv /\ [Next]_vars => Inv'
  <2> SUFFICES ASSUME Inv, [Next]_vars PROVE Inv'
    OBVIOUS
  <2>1. CASE Consider
    BY <2>1, TypeStep, TableStep, GrowStep, FirstStep
  <2>2. CASE Finish \/ UNCHANGED vars
    <3>1. UNCHANGED <<ordered, next, states, plans>>
      BY <2>2 DEF Finish, vars
    <3> QED BY <3>1, TypeStep DEF TableIsBest, ExtensionsGrow, FirstOfEquals, Sensible, Weight
  <2> QED BY <2>1, <2>2 DEF Next
<1>3. Inv => FirstOfEquals
  OBVIOUS
<1> QED BY <1>1, <1>2, <1>3, PTL DEF Spec

-----------------------------------------------------------------------------
(* The selections are all the sets of adapters that fit.                    *)

WeightIn == [i \in Adapters |-> Weight(i)]
GainIn == [i \in Adapters |-> ordered[i].gain]
SizeIn == [i \in Adapters |-> ordered[i].size]

\* The adapters of a selection are in the order of their names, each once; what it
\* uses and gains is theirs; and every set of adapters seen that fits is selected.
SelectionsOK ==
  /\ \A p \in plans :
       /\ \A i \in 1 .. Len(p.chosen) : p.chosen[i] < next
       /\ \A i, j \in 1 .. Len(p.chosen) : i < j => p.chosen[i] < p.chosen[j]
       /\ p.used = SumOver(WeightIn, Range(p.chosen)) /\ p.gain = SumOver(GainIn, Range(p.chosen))
  /\ \A S \in SUBSET (1 .. next - 1) :
       SumOver(WeightIn, S) <= capacity => \E p \in plans : Range(p.chosen) = S

\* The plan is made at the end, and its memory is that of its adapters.
PlanOK ==
  plan # None => next = Count + 1 /\ plan.used_mb = SumOver(SizeIn, Range(plan.selected))

\* Sets of adapters are finite, and what is added up over them are numbers.
LEMMA Summands ==
  ASSUME TypeOK
  PROVE  /\ \A S \in SUBSET Adapters : IsFiniteSet(S)
         /\ \A i \in Adapters : /\ WeightIn[i] = Weight(i) /\ WeightIn[i] \in Nat
                                /\ GainIn[i] = ordered[i].gain /\ GainIn[i] \in Nat
                                /\ SizeIn[i] = ordered[i].size /\ SizeIn[i] \in Nat
<1>1. IsFiniteSet(Adapters)
  BY PlannerAssumption, FS_Interval DEF PlannerAssumption, Adapters
<1>2. \A i \in Adapters : ordered[i].size \in Nat
  BY PlannerAssumption DEF PlannerAssumption, TypeOK, Demand
<1> QED BY <1>1, <1>2, FS_Subset, WeightType DEF WeightIn, GainIn, SizeIn

\* The sums of the properties are sums of these functions.
LEMMA SumsOf ==
  ASSUME TypeOK, NEW S \in SUBSET Adapters
  PROVE  /\ WeightOf(S) = SumOver(WeightIn, S) /\ GainOf(S) = SumOver(GainIn, S)
         /\ SizeOf(S) = SumOver(SizeIn, S)
<1> DEFINE c == [s \in SUBSET S |-> CHOOSE x \in s : TRUE]
           Fold(g, v) == g = [s \in SUBSET S |-> IF s = {} THEN 0 ELSE v[c[s]] + g[s \ {c[s]}]]
           One(s) == CHOOSE x \in s : TRUE
           Weights(g) == g = [s \in SUBSET S |-> IF s = {} THEN 0
                                ELSE Weight(One(s)) + g[s \ {One(s)}]]
           Gained(g) == g = [s \in SUBSET S |-> IF s = {} THEN 0
                               ELSE ordered[One(s)].gain + g[s \ {One(s)}]]
           Needed(g) == g = [s \in SUBSET S |-> IF s = {} THEN 0
                               ELSE ordered[One(s)].size + g[s \ {One(s)}]]
<1>1. IsFiniteSet(S) /\ \A i \in S : WeightIn[i] \in Nat /\ GainIn[i] \in Nat /\ SizeIn[i] \in Nat
  BY Summands
<1>2. Chooses(c, S)
  BY DEF Chooses
<1>3. ASSUME NEW v, \A x \in S : v[x] \in Nat
      PROVE  (\E g : Fold(g, v)) /\ \A g : Fold(g, v) => g[S] = SumOver(v, S)
  <2> HIDE DEF c
  <2>1. (\E g : Fold(g, v)) /\ \A g : Fold(g, v) => AddsUp(g, S, v)
    BY <1>1, <1>2, <1>3, FoldAdds
  <2>2. PICK h : AddsUp(h, S, v) /\ SumOver(v, S) = h[S]
    BY <1>1, <1>3, SumAddsUp
  <2>3. \A g : AddsUp(g, S, v) => g[S] = h[S]
    BY <1>1, <2>2, AddsUpAgree
  <2> HIDE DEF Fold
  <2> QED BY <2>1, <2>2, <2>3
<1>4. ASSUME NEW s \in SUBSET S, s # {}
      PROVE  /\ c[s] = One(s) /\ WeightIn[c[s]] = Weight(One(s))
             /\ GainIn[c[s]] = ordered[One(s)].gain /\ SizeIn[c[s]] = ordered[One(s)].size
  <2>1. c[s] = One(s) /\ One(s) \in Adapters
    BY <1>4
  <2> HIDE DEF One, c
  <2> QED BY <2>1, Summands
<1>5. ASSUME NEW g
      PROVE  /\ Weights(g) <=> Fold(g, WeightIn)
             /\ Gained(g) <=> Fold(g, GainIn)
             /\ Needed(g) <=> Fold(g, SizeIn)
  <2> HIDE DEF c, One
  <2> QED BY <1>4
<1>6. /\ WeightOf(S) = (CHOOSE g : Weights(g))[S]
      /\ GainOf(S) = (CHOOSE g : Gained(g))[S]
      /\ SizeOf(S) = (CHOOSE g : Needed(g))[S]
  BY DEF WeightOf, GainOf, SizeOf, MapThenSumSet, MapThenFoldSet
<1> HIDE DEF Weights, Gained, Needed, Fold, One, c
<1>7. Weights(CHOOSE g : Weights(g)) /\ Gained(CHOOSE g : Gained(g)) /\ Needed(CHOOSE g : Needed(g))
  BY <1>1, <1>3, <1>5
<1> QED BY <1>1, <1>3, <1>5, <1>6, <1>7

\* Appending adds an adapter.
LEMMA AppendedRange ==
  ASSUME NEW s \in Seq(Nat), NEW n \in Nat
  PROVE  Range(Append(s, n)) = Range(s) \cup {n}
<1>1. /\ Append(s, n) \in Seq(Nat) /\ Len(Append(s, n)) = Len(s) + 1 /\ Len(s) \in Nat
      /\ Append(s, n)[Len(s) + 1] = n
      /\ \A i \in 1 .. Len(s) : Append(s, n)[i] = s[i]
  BY AppendFacts
<1>2. DOMAIN s = 1 .. Len(s) /\ DOMAIN Append(s, n) = 1 .. Len(s) + 1
  BY <1>1, LenProperties
<1>3. 1 .. Len(s) + 1 = 1 .. Len(s) \cup {Len(s) + 1}
  BY <1>1
<1>4. ASSUME NEW x \in Range(Append(s, n)) PROVE x \in Range(s) \cup {n}
  <2>1. PICK i \in 1 .. Len(s) + 1 : x = Append(s, n)[i]
    BY <1>2 DEF Range
  <2>2. i \in 1 .. Len(s) \/ i = Len(s) + 1
    BY <1>3
  <2>3. i \in 1 .. Len(s) => x = s[i] /\ i \in DOMAIN s
    BY <1>1, <1>2, <2>1
  <2> QED BY <1>1, <2>1, <2>2, <2>3 DEF Range
<1>5. ASSUME NEW x \in Range(s) PROVE x \in Range(Append(s, n))
  <2>1. PICK i \in 1 .. Len(s) : x = s[i]
    BY <1>2 DEF Range
  <2>2. i \in 1 .. Len(s) + 1 /\ x = Append(s, n)[i]
    BY <1>1, <1>3, <2>1
  <2> QED BY <1>2, <2>2 DEF Range
<1>6. n \in Range(Append(s, n))
  <2>1. Len(s) + 1 \in DOMAIN Append(s, n)
    BY <1>1, <1>2
  <2> QED BY <1>1, <2>1 DEF Range
<1> QED BY <1>4, <1>5, <1>6

\* Every iteration extends the sets that fit by the adapter it is at.
LEMMA SelectionsStep == TypeOK /\ SelectionsOK /\ Consider => SelectionsOK'
<1> SUFFICES ASSUME TypeOK, SelectionsOK, Consider PROVE SelectionsOK'
  OBVIOUS
<1> DEFINE weight == Weight(next)
           gain == ordered[next].gain
           Extended(q) == [used |-> q.used + weight, gain |-> q.gain + gain,
                           chosen |-> Append(q.chosen, next)]
<1>1. /\ next \in Adapters /\ next \in Nat /\ next >= 1 /\ next' = next + 1
      /\ ordered' = ordered /\ budget' = budget
  BY PlannerAssumption DEF PlannerAssumption, Consider, TypeOK, Adapters
<1>2. weight \in Nat /\ gain \in Nat /\ WeightIn[next] = weight /\ GainIn[next] = gain
  BY <1>1, WeightType, Summands
<1>3. WeightIn' = WeightIn /\ GainIn' = GainIn /\ capacity' = capacity
  BY <1>1 DEF WeightIn, GainIn, Weight, capacity
<1>4. \A p \in plans : /\ p.used \in Nat /\ p.gain \in Nat /\ p.chosen \in Seq(Nat)
                       /\ Range(p.chosen) \in SUBSET Adapters
  <2>1. Adapters \subseteq Nat
    BY DEF Adapters
  <2>2. \A p \in plans : p.used \in 0 .. capacity /\ p.gain \in Nat /\ p.chosen \in Seq(Adapters)
    BY DEF TypeOK
  <2>3. \A p \in plans : p.chosen \in Seq(Nat)
    BY <2>1, <2>2, SeqMonotonic
  <2>4. \A p \in plans : Range(p.chosen) \in SUBSET Adapters
    BY <2>2, RangeOfSeq
  <2> QED BY <2>2, <2>3, <2>4
<1>5. /\ \A p \in plans' :
           p \in plans \/ \E q \in plans : q.used + weight <= capacity /\ p = Extended(q)
      /\ plans \subseteq plans'
      /\ \A q \in plans : q.used + weight <= capacity => Extended(q) \in plans'
  BY Iteration
<1>6. \A q : /\ Extended(q).used = q.used + weight /\ Extended(q).gain = q.gain + gain
             /\ Extended(q).chosen = Append(q.chosen, next)
  OBVIOUS
<1> HIDE DEF weight, gain, Extended
\* the extension of a selection
<1>7. ASSUME NEW q \in plans
      PROVE  /\ Range(Append(q.chosen, next)) = Range(q.chosen) \cup {next}
             /\ next \notin Range(q.chosen)
             /\ q.used + weight = SumOver(WeightIn, Range(Append(q.chosen, next)))
             /\ q.gain + gain = SumOver(GainIn, Range(Append(q.chosen, next)))
  <2>1. Range(Append(q.chosen, next)) = Range(q.chosen) \cup {next}
    BY <1>1, <1>4, AppendedRange
  <2>2. next \notin Range(q.chosen)
    <3>1. \A i \in 1 .. Len(q.chosen) : q.chosen[i] < next
      BY DEF SelectionsOK
    <3>2. DOMAIN q.chosen = 1 .. Len(q.chosen)
      BY <1>4, LenProperties
    <3> QED BY <1>1, <3>1, <3>2 DEF Range
  <2>3. /\ IsFiniteSet(Range(q.chosen)) /\ \A y \in Range(q.chosen) \cup {next} :
             WeightIn[y] \in Nat /\ GainIn[y] \in Nat
    BY <1>1, <1>4, Summands
  <2>4. /\ SumOver(WeightIn, Range(q.chosen) \cup {next})
             = WeightIn[next] + SumOver(WeightIn, Range(q.chosen))
        /\ SumOver(GainIn, Range(q.chosen) \cup {next})
             = GainIn[next] + SumOver(GainIn, Range(q.chosen))
    BY <2>2, <2>3, SumAdd
  <2>5. q.used = SumOver(WeightIn, Range(q.chosen)) /\ q.gain = SumOver(GainIn, Range(q.chosen))
    BY DEF SelectionsOK
  <2>6. q.used + weight = weight + q.used /\ q.gain + gain = gain + q.gain
    BY <1>2, <1>4
  <2> QED BY <1>2, <2>1, <2>2, <2>4, <2>5, <2>6
<1>8. ASSUME NEW p \in plans'
      PROVE  /\ \A i \in 1 .. Len(p.chosen) : p.chosen[i] < next'
             /\ \A i, j \in 1 .. Len(p.chosen) : i < j => p.chosen[i] < p.chosen[j]
             /\ p.used = SumOver(WeightIn, Range(p.chosen)) /\ p.gain = SumOver(GainIn, Range(p.chosen))
  <2>1. CASE p \in plans
    <3>1. /\ \A i \in 1 .. Len(p.chosen) : p.chosen[i] < next
          /\ \A i, j \in 1 .. Len(p.chosen) : i < j => p.chosen[i] < p.chosen[j]
          /\ p.used = SumOver(WeightIn, Range(p.chosen)) /\ p.gain = SumOver(GainIn, Range(p.chosen))
      BY <2>1 DEF SelectionsOK
    <3>2. \A i \in 1 .. Len(p.chosen) : p.chosen[i] \in Nat
      BY <1>4, <2>1, ElementOfSeq
    <3> QED BY <1>1, <3>1, <3>2
  <2>2. ASSUME NEW q \in plans, p = Extended(q)
        PROVE  /\ \A i \in 1 .. Len(p.chosen) : p.chosen[i] < next'
               /\ \A i, j \in 1 .. Len(p.chosen) : i < j => p.chosen[i] < p.chosen[j]
               /\ p.used = SumOver(WeightIn, Range(p.chosen))
               /\ p.gain = SumOver(GainIn, Range(p.chosen))
    <3>1. p.chosen = Append(q.chosen, next) /\ p.used = q.used + weight /\ p.gain = q.gain + gain
      BY <1>6, <2>2
    <3>2. /\ Len(p.chosen) = Len(q.chosen) + 1 /\ Len(q.chosen) \in Nat
          /\ p.chosen[Len(q.chosen) + 1] = next
          /\ \A i \in 1 .. Len(q.chosen) : p.chosen[i] = q.chosen[i] /\ q.chosen[i] \in Nat
      BY <1>1, <1>4, <3>1, AppendFacts
    <3>3. /\ \A i \in 1 .. Len(q.chosen) : q.chosen[i] < next
          /\ \A i, j \in 1 .. Len(q.chosen) : i < j => q.chosen[i] < q.chosen[j]
      BY DEF SelectionsOK
    <3>4. \A i \in 1 .. Len(p.chosen) : i \in 1 .. Len(q.chosen) \/ i = Len(q.chosen) + 1
      BY <3>2
    <3>5. \A i \in 1 .. Len(p.chosen) : p.chosen[i] < next'
      <4>1. \A i \in 1 .. Len(q.chosen) : p.chosen[i] < next + 1
        BY <1>1, <3>2, <3>3
      <4>2. next < next + 1
        BY <1>1
      <4> QED BY <1>1, <3>2, <3>4, <4>1, <4>2
    <3>6. ASSUME NEW i \in 1 .. Len(p.chosen), NEW j \in 1 .. Len(p.chosen), i < j
          PROVE  p.chosen[i] < p.chosen[j]
      <4>1. i \in 1 .. Len(q.chosen)
        BY <3>2, <3>6
      <4> QED BY <3>2, <3>3, <3>4, <3>6, <4>1
    <3> QED BY <1>7, <3>1, <3>5, <3>6
  <2> QED BY <1>5, <2>1, <2>2
<1>9. ASSUME NEW S \in SUBSET (1 .. next' - 1), SumOver(WeightIn, S) <= capacity
      PROVE  \E p \in plans' : Range(p.chosen) = S
  <2>1. next' - 1 = next /\ 1 .. next \subseteq Adapters
    BY <1>1, PlannerAssumption DEF PlannerAssumption, Adapters
  <2>2. CASE next \notin S
    <3>1. S \in SUBSET (1 .. next - 1)
      BY <1>1, <2>1, <2>2
    <3> QED BY <1>5, <1>9, <3>1 DEF SelectionsOK
  <2>3. CASE next \in S
    <3> DEFINE R == S \ {next}
    <3>1. /\ R \in SUBSET (1 .. next - 1) /\ R \in SUBSET Adapters
          /\ S \in SUBSET Adapters /\ R \cup {next} = S
      BY <1>1, <2>1, <2>3
    <3>2. /\ IsFiniteSet(S) /\ IsFiniteSet(R) /\ \A y \in S : WeightIn[y] \in Nat
      BY <3>1, Summands
    <3>3. SumOver(WeightIn, S) = weight + SumOver(WeightIn, R) /\ SumOver(WeightIn, R) \in Nat
      BY <1>2, <2>3, <3>2, SumFacts
    <3> HIDE DEF R
    <3>4. SumOver(WeightIn, R) <= capacity /\ capacity \in Nat
      BY <1>2, <1>9, <3>3, WeightType
    <3>5. PICK q \in plans : Range(q.chosen) = R
      BY <3>1, <3>4 DEF SelectionsOK
    <3>6. q.used = SumOver(WeightIn, R)
      BY <3>5 DEF SelectionsOK
    <3>7. q.used + weight <= capacity
      BY <1>2, <1>9, <3>3, <3>4, <3>6
    <3>8. Extended(q) \in plans' /\ Extended(q).chosen = Append(q.chosen, next)
      BY <1>5, <1>6, <3>7
    <3>9. Range(Append(q.chosen, next)) = S
      BY <1>7, <3>1, <3>5
    <3> QED BY <3>8, <3>9
  <2> QED BY <2>2, <2>3
<1> QED BY <1>3, <1>8, <1>9 DEF SelectionsOK

\* The selections, and what the plan is made of, in every state
LEMMA SelectionsInvariant ==
  Spec => [](TypeOK /\ TableIsBest /\ PlanBeatsAll /\ SelectionsOK /\ PlanOK)
<1>1. Init => SelectionsOK /\ PlanOK
  <2> SUFFICES ASSUME Init PROVE SelectionsOK
    BY DEF Init, PlanOK
  <2>1. TypeOK
    BY InitTable
  <2>2. next = 1 /\ plans = {[used |-> 0, gain |-> 0, chosen |-> <<>>]}
    BY DEF Init
  <2>3. Range(<<>>) = {} /\ Len(<<>>) = 0
    BY DEF Range
  <2>4. SumOver(WeightIn, {}) = 0 /\ SumOver(GainIn, {}) = 0
    BY <2>1, Summands, SumFacts
  <2>5. \A p \in plans : p.used = 0 /\ p.gain = 0 /\ p.chosen = <<>>
    BY <2>2
  <2>6. \A S \in SUBSET (1 .. next - 1) : S = {}
    BY <2>2
  <2>7. ASSUME NEW p \in plans
        PROVE  /\ 1 .. Len(p.chosen) = {}
               /\ p.used = SumOver(WeightIn, Range(p.chosen))
               /\ p.gain = SumOver(GainIn, Range(p.chosen))
    <3>1. p.chosen = <<>> /\ p.used = 0 /\ p.gain = 0
      BY <2>5
    <3>2. Range(p.chosen) = {} /\ Len(p.chosen) = 0
      BY <2>3, <3>1
    <3>3. 1 .. 0 = {}
      OBVIOUS
    <3> QED BY <2>4, <3>1, <3>2, <3>3, Zenon
  <2>8. \E p \in plans : Range(p.chosen) = {}
    <3>1. PICK p \in plans : TRUE
      BY <2>2
    <3>2. Range(p.chosen) = {}
      BY <2>3, <2>5
    <3> QED BY <3>2
  <2> QED BY <2>6, <2>7, <2>8 DEF SelectionsOK
<1>2. TypeOK /\ SelectionsOK /\ PlanOK /\ [Next]_vars => (SelectionsOK /\ PlanOK)'
  <2> SUFFICES ASSUME TypeOK, SelectionsOK, PlanOK, [Next]_vars PROVE (SelectionsOK /\ PlanOK)'
    OBVIOUS
  <2>1. CASE Consider
    <3>1. plan' = None
      BY <2>1 DEF Consider
    <3> QED BY <2>1, <3>1, SelectionsStep DEF PlanOK
  <2>2. CASE Finish
    <3>1. PICK used \in Best :
            plan' = [selected |-> states[used].chosen, gain |-> states[used].gain,
                     used_mb |-> SizeOf(Range(states[used].chosen))]
      BY <2>2 DEF Finish, SizeOf
    <3>2. UNCHANGED <<ordered, budget, next, states, plans>> /\ next > Count
      BY <2>2 DEF Finish
    <3>3. WeightIn' = WeightIn /\ GainIn' = GainIn /\ SizeIn' = SizeIn /\ capacity' = capacity
      BY <3>2 DEF WeightIn, GainIn, SizeIn, Weight, capacity
    <3>4. Range(states[used].chosen) \in SUBSET Adapters
      <4>1. states[used].chosen \in Seq(Adapters)
        BY DEF TypeOK, Best, Selection
      <4> QED BY <4>1, RangeOfSeq
    <3>5. plan'.used_mb = SumOver(SizeIn, Range(plan'.selected))
      BY <3>1, <3>4, SumsOf
    <3>6. next' = Count + 1
      BY <3>2, PlannerAssumption DEF TypeOK, PlannerAssumption
    <3>7. SelectionsOK'
      BY <3>2, <3>3 DEF SelectionsOK
    <3> QED BY <3>3, <3>5, <3>6, <3>7 DEF PlanOK
  <2>3. CASE UNCHANGED vars
    <3>1. UNCHANGED <<next, plans, plan, ordered, budget>>
      BY <2>3 DEF vars
    <3>2. WeightIn' = WeightIn /\ GainIn' = GainIn /\ SizeIn' = SizeIn /\ capacity' = capacity
      BY <3>1 DEF WeightIn, GainIn, SizeIn, Weight, capacity
    <3> QED BY <3>1, <3>2 DEF SelectionsOK, PlanOK
  <2> QED BY <2>1, <2>2, <2>3 DEF Next
<1> QED BY <1>1, <1>2, TableOptimal, PlanOptimal, PTL DEF Spec

\* No set of adapters that fits avoids more loading than the plan, and none that
\* avoids as much is smaller (plan_adapter_residency()).
THEOREM OptimalForEverySet == Spec => []PlanIsOptimal
<1>1. TypeOK /\ PlanBeatsAll /\ SelectionsOK /\ PlanOK => PlanIsOptimal
  <2> SUFFICES ASSUME TypeOK, PlanBeatsAll, SelectionsOK, PlanOK, plan # None
               PROVE  /\ WeightOf(Range(plan.selected)) <= capacity
                      /\ GainOf(Range(plan.selected)) = plan.gain
                      /\ \A S \in SUBSET Adapters :
                           WeightOf(S) <= capacity =>
                             \/ GainOf(S) < plan.gain
                             \/ /\ GainOf(S) = plan.gain
                                /\ WeightOf(Range(plan.selected)) <= WeightOf(S)
    BY DEF PlanIsOptimal
  <2>1. PICK p \in plans :
          /\ plan.selected = p.chosen /\ plan.gain = p.gain
          /\ \A q \in plans : q.gain < p.gain \/ (q.gain = p.gain /\ p.used <= q.used)
    BY DEF PlanBeatsAll
  <2>2. ASSUME NEW q \in plans
        PROVE  /\ WeightOf(Range(q.chosen)) = q.used /\ GainOf(Range(q.chosen)) = q.gain
               /\ q.used <= capacity
    <3>1. q.chosen \in Seq(Adapters) /\ q.used \in 0 .. capacity
      BY DEF TypeOK
    <3>2. Range(q.chosen) \in SUBSET Adapters
      BY <3>1, RangeOfSeq
    <3>3. q.used = SumOver(WeightIn, Range(q.chosen)) /\ q.gain = SumOver(GainIn, Range(q.chosen))
      BY DEF SelectionsOK
    <3> QED BY <3>1, <3>2, <3>3, SumsOf, WeightType
  <2>3. ASSUME NEW S \in SUBSET Adapters, WeightOf(S) <= capacity
        PROVE  \E q \in plans : Range(q.chosen) = S
    <3>1. SumOver(WeightIn, S) <= capacity
      BY <2>3, SumsOf
    <3>2. next - 1 = Count
      BY PlannerAssumption DEF PlanOK, PlannerAssumption
    <3>3. S \in SUBSET (1 .. next - 1)
      BY <3>2 DEF Adapters
    <3> QED BY <3>1, <3>3 DEF SelectionsOK
  <2> QED BY <2>1, <2>2, <2>3
<1> QED BY <1>1, SelectionsInvariant, PTL

\* What the plan keeps fits in the budget to the last part of a MiB, each adapter
\* once (plan_adapter_residency()).
THEOREM PlanWithinBudget == Spec => []PlanFits
<1>1. TypeOK /\ PlanBeatsAll /\ SelectionsOK /\ PlanOK => PlanFits
  <2> SUFFICES ASSUME TypeOK, PlanBeatsAll, SelectionsOK, PlanOK, plan # None PROVE PlanFits
    BY DEF PlanFits
  <2>1. PICK p \in plans : plan.selected = p.chosen
    BY DEF PlanBeatsAll
  <2> DEFINE kept == Range(plan.selected)
  <2>2. p.chosen \in Seq(Adapters) /\ p.used \in 0 .. capacity
    BY DEF TypeOK
  <2>3. kept \in SUBSET Adapters /\ IsFiniteSet(kept)
    BY <2>1, <2>2, RangeOfSeq, Summands
  <2>4. plan.used_mb = SumOver(SizeIn, kept) /\ SizeOf(kept) = SumOver(SizeIn, kept)
    BY <2>3, SumsOf DEF PlanOK
  <2>5. SumOver(WeightIn, kept) <= capacity /\ SumOver(WeightIn, kept) \in Nat
    <3>1. p.used = SumOver(WeightIn, kept) /\ capacity \in Nat
      BY <2>1, WeightType DEF SelectionsOK
    <3> QED BY <2>2, <3>1
  \* a MiB that is begun counts whole
  <2>6. SumOver(SizeIn, kept) <= Unit * SumOver(WeightIn, kept)
    <3>1. Unit \in Nat \ {0}
      BY PlannerAssumption DEF PlannerAssumption
    <3>2. \A i \in Adapters :
            /\ SizeIn[i] \in Nat /\ WeightIn[i] \in Nat
            /\ WeightIn[i] = (SizeIn[i] + Unit - 1) \div Unit
      BY Summands DEF Weight
    <3>3. \A n \in Nat : n <= Unit * ((n + Unit - 1) \div Unit)
      BY <3>1
    <3> HIDE DEF kept
    <3>4. \A i \in kept : SizeIn[i] \in Nat /\ WeightIn[i] \in Nat /\ SizeIn[i] <= Unit * WeightIn[i]
      BY <2>3, <3>2, <3>3
    <3> QED BY <2>3, <3>1, <3>4, SumBound
  <2>7. Unit * SumOver(WeightIn, kept) <= budget
    <3>1. Unit \in Nat \ {0} /\ budget \in Nat /\ capacity = budget \div Unit
      BY PlannerAssumption DEF PlannerAssumption, TypeOK, capacity
    <3>2. \A n \in Nat : n <= budget \div Unit => Unit * n <= budget
      BY <3>1
    <3> QED BY <2>5, <3>1, <3>2
  <2>8. Cardinality(kept) = Len(plan.selected)
    <3>1. /\ Len(p.chosen) \in Nat /\ DOMAIN p.chosen = 1 .. Len(p.chosen)
          /\ p.chosen \in [1 .. Len(p.chosen) -> Adapters]
      BY <2>2, LenProperties
    <3>2. \A i, j \in 1 .. Len(p.chosen) : p.chosen[i] = p.chosen[j] => i = j
      <4>1. \A i, j \in 1 .. Len(p.chosen) : i < j => p.chosen[i] < p.chosen[j]
        BY DEF SelectionsOK
      <4>2. \A i \in 1 .. Len(p.chosen) : p.chosen[i] \in Nat
        BY <3>1 DEF Adapters
      <4> QED BY <3>1, <4>1, <4>2
    <3>3. p.chosen \in Bijection(1 .. Len(p.chosen), kept)
      BY <2>1, <3>1, <3>2 DEF Bijection, Injection, Surjection, Range, IsInjective
    <3>4. IsFiniteSet(1 .. Len(p.chosen)) /\ Cardinality(1 .. Len(p.chosen)) = Len(p.chosen)
      BY <3>1, FS_Interval
    <3> QED BY <2>1, <3>3, <3>4, FS_Bijection DEF ExistsBijection
  <2>9. plan.used_mb <= budget
    <3>1. SumOver(SizeIn, kept) \in Nat
      BY <2>3, Summands, SumFacts
    <3>2. Unit \in Nat /\ budget \in Nat
      BY PlannerAssumption DEF PlannerAssumption, TypeOK
    <3> HIDE DEF kept
    <3>3. Unit * SumOver(WeightIn, kept) \in Nat
      BY <2>5, <3>2
    <3> QED BY <2>4, <2>6, <2>7, <3>1, <3>2, <3>3
  <2> QED BY <2>4, <2>8, <2>9 DEF PlanFits
<1> QED BY <1>1, SelectionsInvariant, PTL
=============================================================================
