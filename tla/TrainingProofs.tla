---------------------------- MODULE TrainingProofs ----------------------------
(***************************************************************************)
(* The training profiler, the sweep and the selection of TrainingStudy,    *)
(* proved to do what their properties say for any number of steps, phases, *)
(* axes and trials.                                                        *)
(***************************************************************************)
EXTENDS TrainingProps, DataLemmas

-----------------------------------------------------------------------------
(* The values of a stage                                                    *)

\* The total of a sequence is the sum over its places.
LEMMA TotalIsSum ==
  ASSUME NEW s \in Seq(Nat)
  PROVE  Total(s) = SumOver(s, 1 .. Len(s))
<1> DEFINE D == 1 .. Len(s)
           c == [u \in SUBSET D |-> Max(u)]
           Fold(g) == g = [u \in SUBSET D |-> IF u = {} THEN 0 ELSE s[c[u]] + g[u \ {c[u]}]]
           Left(g) == g = [u \in SUBSET D |-> IF u = {} THEN 0
                                                ELSE g[u \ {Max(u)}] + s[Max(u)]]
<1>1. DOMAIN s = D /\ Len(s) \in Nat /\ IsFiniteSet(D) /\ \A i \in D : s[i] \in Nat
  <2>1. DOMAIN s = D /\ Len(s) \in Nat /\ \A i \in D : s[i] \in Nat
    OBVIOUS
  <2>2. IsFiniteSet(D)
    BY <2>1, FS_Interval
  <2> QED BY <2>1, <2>2
<1>2. ASSUME NEW u \in SUBSET D, u # {} PROVE Max(u) \in u
  <2>1. \A x \in u : x \in Int
    BY <1>1
  <2> HIDE DEF D
  <2>2. IsFiniteSet(u)
    BY <1>1, FS_Subset
  <2> QED BY <1>2, <2>1, <2>2, MaxFacts
<1>3. Chooses(c, D)
  BY <1>2 DEF Chooses
<1>4. \A u \in SUBSET D : c[u] = Max(u)
  OBVIOUS
<1> HIDE DEF c, D
<1>5. (\E g : Fold(g)) /\ \A g : Fold(g) => g[D] = SumOver(s, D)
  <2>1. IsFiniteSet(D) /\ \A i \in D : s[i] \in Nat
    BY <1>1
  <2> QED BY <1>3, <2>1, FoldIsSum
<1>6. ASSUME NEW g, Left(g) PROVE Fold(g)
  <2>1. \A u \in SUBSET D : g[u] = IF u = {} THEN 0 ELSE g[u \ {Max(u)}] + s[Max(u)]
    BY <1>6
  <2> DEFINE NoNumber == {u \in SUBSET D : g[u] \notin Nat}
  <2>2. ASSUME NoNumber # {} PROVE FALSE
    <3>1. PICK u \in NoNumber : \A w \in NoNumber : w \subseteq u => w = u
      <4>1. NoNumber \subseteq SUBSET D
        OBVIOUS
      <4> HIDE DEF NoNumber
      <4> QED BY <1>1, <2>2, <4>1, SmallestSubset
    <3>2. u \in SUBSET D /\ g[u] \notin Nat /\ g[{}] = 0
      BY <2>1
    <3>3. u # {} /\ g[u] = g[u \ {Max(u)}] + s[Max(u)]
      BY <2>1, <3>2
    <3>4. Max(u) \in D /\ u \ {Max(u)} \in SUBSET D /\ u \ {Max(u)} # u
      BY <1>2, <3>2, <3>3
    <3>5. g[u \ {Max(u)}] \in Nat
      BY <3>1, <3>4
    <3> QED BY <1>1, <3>2, <3>3, <3>4, <3>5
  <2>3. ASSUME NEW u \in SUBSET D, u # {}
        PROVE  g[u \ {Max(u)}] + s[Max(u)] = s[c[u]] + g[u \ {c[u]}]
    <3>1. Max(u) \in D /\ u \ {Max(u)} \in SUBSET D /\ c[u] = Max(u)
      BY <1>2, <1>4, <2>3
    <3>2. g[u \ {Max(u)}] \in Nat /\ s[Max(u)] \in Nat
      BY <1>1, <2>2, <3>1
    <3>3. \A a, b \in Nat : a + b = b + a
      OBVIOUS
    <3> QED BY <3>1, <3>2, <3>3
  <2> QED BY <1>6, <2>3
<1>7. ASSUME NEW g, Fold(g) PROVE Left(g)
  <2>1. AddsUp(g, D, s)
    BY <1>1, <1>3, <1>7, FoldAdds
  <2>2. \A u \in SUBSET D : g[u] \in Nat
    BY <2>1 DEF AddsUp
  <2>3. ASSUME NEW u \in SUBSET D, u # {}
        PROVE  g[u \ {Max(u)}] + s[Max(u)] = s[c[u]] + g[u \ {c[u]}]
    <3>1. Max(u) \in D /\ u \ {Max(u)} \in SUBSET D /\ c[u] = Max(u)
      BY <1>2, <1>4, <2>3
    <3>2. g[u \ {Max(u)}] \in Nat /\ s[Max(u)] \in Nat
      BY <1>1, <2>2, <3>1
    <3>3. \A a, b \in Nat : a + b = b + a
      OBVIOUS
    <3> QED BY <3>1, <3>2, <3>3
  <2> QED BY <1>7, <2>3
<1>8. Total(s) = (CHOOSE g : Left(g))[D]
  BY <1>1 DEF Total, FoldLeft, MapThenFoldSet
<1> HIDE DEF Fold, Left
<1> QED BY <1>5, <1>6, <1>7, <1>8 DEF D

\* One more value adds up.
LEMMA TotalAppended ==
  ASSUME NEW s \in Seq(Nat), NEW n \in Nat
  PROVE  Total(Append(s, n)) = Total(s) + n
<1> DEFINE t == Append(s, n)
           D == 1 .. Len(s)
<1>1. /\ t \in Seq(Nat) /\ Len(s) \in Nat /\ Len(t) = Len(s) + 1 /\ t[Len(s) + 1] = n
      /\ \A i \in D : s[i] \in Nat /\ t[i] = s[i]
  OBVIOUS
<1>2. 1 .. Len(t) = D \cup {Len(s) + 1} /\ Len(s) + 1 \notin D
  BY <1>1
<1>3. IsFiniteSet(D)
  BY <1>1, FS_Interval
<1> HIDE DEF t, D
<1>4. SumOver(t, D \cup {Len(s) + 1}) = n + SumOver(t, D)
  BY <1>1, <1>2, <1>3, SumAdd
<1>5. SumOver(t, D) = SumOver(s, D) /\ SumOver(s, D) \in Nat
  BY <1>1, <1>3, SumSame, SumFacts
<1>6. Total(t) = SumOver(t, 1 .. Len(t)) /\ Total(s) = SumOver(s, D)
  BY <1>1, TotalIsSum DEF D
<1>7. Total(t) = Total(s) + n
  <2>1. Total(t) = n + SumOver(s, D)
    BY <1>2, <1>4, <1>5, <1>6, Zenon
  <2>2. \A a, b \in Nat : a + b = b + a
    OBVIOUS
  <2>3. n + SumOver(s, D) = SumOver(s, D) + n
    BY <1>5, <2>2
  <2> QED BY <1>6, <2>1, <2>3
<1> QED BY <1>7 DEF t

\* Sorting leaves the total as it is.
LEMMA TotalSorted ==
  ASSUME NEW s \in Seq(Nat)
  PROVE  /\ Total(s) \in Nat /\ Total(Ascending(s)) = Total(s)
         /\ Len(Ascending(s)) = Len(s) /\ (s = <<>> => Total(s) = 0)
<1> DEFINE D == 1 .. Len(s)
           t == Ascending(s)
<1>1. t \in Seq(Nat) /\ Len(t) = Len(s) /\ \E p \in Bijection(D, D) : \A i \in D : t[i] = s[p[i]]
  BY AscendingFacts
<1>2. \A i \in D : s[i] \in Nat
  OBVIOUS
<1>3. IsFiniteSet(D) /\ (s = <<>> => D = {})
  BY FS_Interval
<1> HIDE DEF D, t
<1>4. SumOver(t, D) = SumOver(s, D)
  <2>1. PICK p \in Bijection(D, D) : \A i \in D : t[i] = s[p[i]]
    BY <1>1
  <2> QED BY <1>2, <1>3, <2>1, SumRenamed
<1>5. Total(s) = SumOver(s, D) /\ Total(t) = SumOver(t, D)
  BY <1>1, TotalIsSum DEF D
<1> QED BY <1>1, <1>2, <1>3, <1>4, <1>5, SumFacts DEF t

-----------------------------------------------------------------------------
(* The invariant of the profiler                                            *)

\* What a step may have spent in its phases
Spendings == UNION {[D -> Nat] : D \in SUBSET Names}

RecordedIn(h, name) == {i \in DOMAIN h : name \in DOMAIN h[i].phases}
SpentIn(h, name) ==
  SumOver([i \in RecordedIn(h, name) |-> h[i].phases[name]], RecordedIn(h, name))

Durated(h) == [i \in DOMAIN h |-> h[i].duration]
Sampled(h) == [i \in DOMAIN h |-> h[i].samples]

\* What the stage profiler behind observes of a name, and how often
ObservedIn(h, name) == Cardinality(RecordedIn(h, name)) + (IF name = StepName THEN Len(h) ELSE 0)
BehindIn(h, name) == SpentIn(h, name) + (IF name = StepName THEN Total(Durated(h)) ELSE 0)

SamplesOf(stage, name) == IF name \in DOMAIN stage THEN stage[name] ELSE <<>>

\* The values are the first of so many, which add up to time.
Keeps(values, count, time) ==
  /\ values \in Seq(Nat) /\ Len(values) = (IF count < Limit THEN count ELSE Limit)
  /\ Total(values) <= time /\ (count <= Limit => Total(values) = time)

OpenOK ==
  /\ open = [s \in Steps |-> open[s]]
  /\ \A s \in Steps :
       open[s] = None \/ open[s] \in [samples : Batches, elapsed : Nat, phases : Spendings]

\* The history holds what was accepted, of every phase with a name.
Accepted(h, count, total) ==
  /\ h \in Seq([phases : Spendings, samples : Nat, duration : Nat])
  /\ \A i \in DOMAIN h : NoName \notin DOMAIN h[i].phases
  /\ count = Len(h) /\ total = Total(Sampled(h))

\* And what is kept is the first of it, stage by stage.
KeptOf(h, durations, phases, all) ==
  /\ Keeps(durations, Len(h), Total(Durated(h)))
  /\ DOMAIN phases = {name \in Names : RecordedIn(h, name) # {}}
  /\ \A name \in Names :
       Keeps(SamplesOf(phases, name), Cardinality(RecordedIn(h, name)), SpentIn(h, name))
  /\ DOMAIN all = {name \in Names : RecordedIn(h, name) # {}} \cup {name \in {StepName} : h # <<>>}
  /\ \A name \in Names \cup {StepName} :
       Keeps(SamplesOf(all, name), ObservedIn(h, name), BehindIn(h, name))

HistoryOK == Accepted(history, steps, samples)
KeptOK == KeptOf(history, stepSamples, phaseSamples, stages)

ProfilerInv == OpenOK /\ HistoryOK /\ KeptOK

StepRecord == [phases : Spendings, samples : Nat, duration : Nat]

\* One more value is kept while there is room.
LEMMA KeptMore ==
  ASSUME NEW values, NEW count \in Nat, NEW time \in Nat, Keeps(values, count, time), NEW n \in Nat
  PROVE  Keeps(Kept(values, n), count + 1, time + n)
<1>1. values \in Seq(Nat) /\ Limit \in Nat /\ Total(values) \in Nat
  BY LimitAssumption, TotalSorted DEF LimitAssumption, Keeps
<1>2. CASE count < Limit
  <2>1. Len(values) = count /\ Total(values) = time
    BY <1>1, <1>2 DEF Keeps
  <2>2. Kept(values, n) = Append(values, n)
    BY <1>2, <2>1 DEF Kept
  <2>3. /\ Append(values, n) \in Seq(Nat) /\ Len(Append(values, n)) = count + 1
        /\ Total(Append(values, n)) = time + n
    BY <1>1, <2>1, TotalAppended
  <2>4. (IF count + 1 < Limit THEN count + 1 ELSE Limit) = count + 1
    BY <1>1, <1>2
  <2>5. time + n <= time + n
    OBVIOUS
  <2> QED BY <2>2, <2>3, <2>4, <2>5 DEF Keeps
<1>3. CASE ~(count < Limit)
  <2>1. Len(values) = Limit /\ Total(values) <= time
    BY <1>1, <1>3 DEF Keeps
  <2>2. Kept(values, n) = values
    BY <1>1, <2>1 DEF Kept
  <2>3. /\ (IF count + 1 < Limit THEN count + 1 ELSE Limit) = Limit
        /\ Total(values) <= time + n /\ ~(count + 1 <= Limit)
    BY <1>1, <1>3, <2>1
  <2> QED BY <1>1, <2>1, <2>2, <2>3 DEF Keeps
<1> QED BY <1>2, <1>3

\* What there is to say of the sums over a history
LEMMA HistoryFacts ==
  ASSUME NEW h \in Seq(StepRecord)
  PROVE  /\ DOMAIN h = 1 .. Len(h) /\ Len(h) \in Nat /\ IsFiniteSet(DOMAIN h)
         /\ \A i \in DOMAIN h : h[i] \in StepRecord
         /\ Durated(h) \in Seq(Nat) /\ Sampled(h) \in Seq(Nat)
         /\ Total(Durated(h)) \in Nat /\ Total(Sampled(h)) \in Nat
         /\ \A name :
              /\ IsFiniteSet(RecordedIn(h, name)) /\ Cardinality(RecordedIn(h, name)) \in Nat
              /\ RecordedIn(h, name) \subseteq DOMAIN h
              /\ \A i \in RecordedIn(h, name) : h[i].phases[name] \in Nat
              /\ SpentIn(h, name) \in Nat
<1>1. DOMAIN h = 1 .. Len(h) /\ Len(h) \in Nat /\ \A i \in DOMAIN h : h[i] \in StepRecord
  OBVIOUS
<1>2. IsFiniteSet(DOMAIN h)
  BY <1>1, FS_Interval
<1>3. \A i \in DOMAIN h : h[i].duration \in Nat /\ h[i].samples \in Nat /\ h[i].phases \in Spendings
  BY <1>1 DEF StepRecord
<1>4. Durated(h) \in Seq(Nat) /\ Sampled(h) \in Seq(Nat)
  BY <1>1, <1>3 DEF Durated, Sampled
<1>5. Total(Durated(h)) \in Nat /\ Total(Sampled(h)) \in Nat
  BY <1>4, TotalSorted
<1>6. ASSUME NEW name
      PROVE  /\ IsFiniteSet(RecordedIn(h, name)) /\ Cardinality(RecordedIn(h, name)) \in Nat
             /\ RecordedIn(h, name) \subseteq DOMAIN h
             /\ \A i \in RecordedIn(h, name) : h[i].phases[name] \in Nat
             /\ SpentIn(h, name) \in Nat
  <2> DEFINE R == RecordedIn(h, name)
             v == [i \in R |-> h[i].phases[name]]
  <2>1. R \subseteq DOMAIN h
    BY DEF RecordedIn
  <2>2. IsFiniteSet(R) /\ Cardinality(R) \in Nat
    BY <1>2, <2>1, FS_Subset, FS_CardinalityType
  <2>3. ASSUME NEW i \in R PROVE h[i].phases[name] \in Nat
    <3>1. h[i].phases \in Spendings /\ name \in DOMAIN h[i].phases
      BY <1>3 DEF RecordedIn
    <3> QED BY <3>1 DEF Spendings
  <2>4. \A i \in R : v[i] \in Nat
    BY <2>3
  <2>5. SumOver(v, R) \in Nat
    <3> HIDE DEF v, R
    <3> QED BY <2>2, <2>4, SumFacts
  <2> QED BY <2>1, <2>2, <2>3, <2>5 DEF SpentIn
<1> QED BY <1>1, <1>2, <1>4, <1>5, <1>6

\* And how they change when a step is recorded
LEMMA HistoryAppended ==
  ASSUME NEW h \in Seq(StepRecord), NEW r \in StepRecord
  PROVE  LET more == Append(h, r) IN
         /\ more \in Seq(StepRecord) /\ Len(more) = Len(h) + 1
         /\ DOMAIN more = DOMAIN h \cup {Len(h) + 1} /\ Len(h) + 1 \notin DOMAIN h
         /\ more[Len(h) + 1] = r /\ \A i \in DOMAIN h : more[i] = h[i]
         /\ Total(Durated(more)) = Total(Durated(h)) + r.duration
         /\ Total(Sampled(more)) = Total(Sampled(h)) + r.samples
         /\ \A name :
              IF name \in DOMAIN r.phases
              THEN /\ RecordedIn(more, name) = RecordedIn(h, name) \cup {Len(h) + 1}
                   /\ Cardinality(RecordedIn(more, name)) = Cardinality(RecordedIn(h, name)) + 1
                   /\ SpentIn(more, name) = SpentIn(h, name) + r.phases[name]
              ELSE /\ RecordedIn(more, name) = RecordedIn(h, name)
                   /\ SpentIn(more, name) = SpentIn(h, name)
<1> DEFINE more == Append(h, r)
           n == Len(h) + 1
<1>1. /\ more \in Seq(StepRecord) /\ Len(h) \in Nat /\ Len(more) = n
      /\ DOMAIN h = 1 .. Len(h) /\ DOMAIN more = 1 .. n
      /\ more[n] = r /\ \A i \in DOMAIN h : more[i] = h[i]
  BY AppendProperties
<1>2. DOMAIN more = DOMAIN h \cup {n} /\ n \notin DOMAIN h
  BY <1>1
<1>3. r.duration \in Nat /\ r.samples \in Nat /\ r.phases \in Spendings
  BY DEF StepRecord
<1> HIDE DEF more
<1>4. Durated(more) = Append(Durated(h), r.duration) /\ Sampled(more) = Append(Sampled(h), r.samples)
  BY <1>1, <1>2 DEF Durated, Sampled
<1>5. /\ Total(Durated(more)) = Total(Durated(h)) + r.duration
      /\ Total(Sampled(more)) = Total(Sampled(h)) + r.samples
  BY <1>3, <1>4, HistoryFacts, TotalAppended
<1> HIDE DEF n
<1>6. ASSUME NEW name, name \in DOMAIN r.phases
      PROVE  /\ RecordedIn(more, name) = RecordedIn(h, name) \cup {n}
             /\ Cardinality(RecordedIn(more, name)) = Cardinality(RecordedIn(h, name)) + 1
             /\ SpentIn(more, name) = SpentIn(h, name) + r.phases[name]
  <2> DEFINE R == RecordedIn(h, name)
             v == [i \in R |-> h[i].phases[name]]
             w == [i \in R \cup {n} |-> more[i].phases[name]]
  <2>1. RecordedIn(more, name) = R \cup {n} /\ n \notin R
    BY <1>1, <1>2, <1>6 DEF RecordedIn
  <2>2. IsFiniteSet(R) /\ R \subseteq DOMAIN h /\ \A i \in R : h[i].phases[name] \in Nat
    BY HistoryFacts
  <2>3. Cardinality(R \cup {n}) = Cardinality(R) + 1
    BY <2>1, <2>2, FS_AddElement
  <2>4. w[n] = r.phases[name] /\ r.phases[name] \in Nat
    BY <1>1, <1>3, <1>6 DEF Spendings
  <2>5. \A i \in R : v[i] \in Nat /\ v[i] = w[i]
    BY <1>1, <2>2
  <2>6. SpentIn(h, name) = SumOver(v, R) /\ SpentIn(more, name) = SumOver(w, R \cup {n})
    BY <2>1 DEF SpentIn
  <2> HIDE DEF v, w, R
  <2>7. SumOver(w, R \cup {n}) = w[n] + SumOver(w, R) /\ SumOver(v, R) = SumOver(w, R)
    <3>1. \A i \in R \cup {n} : w[i] \in Nat
      BY <2>4, <2>5
    <3>2. SumOver(w, R \cup {n}) = w[n] + SumOver(w, R)
      BY <2>1, <2>2, <3>1, SumAdd
    <3>3. SumOver(v, R) = SumOver(w, R)
      BY <2>2, <2>5, SumSame
    <3> QED BY <3>2, <3>3
  <2>8. SumOver(v, R) \in Nat
    BY <2>2, <2>5, SumFacts
  <2> QED BY <2>1, <2>3, <2>4, <2>6, <2>7, <2>8 DEF R
<1>7. ASSUME NEW name, name \notin DOMAIN r.phases
      PROVE  RecordedIn(more, name) = RecordedIn(h, name) /\ SpentIn(more, name) = SpentIn(h, name)
  <2>1. RecordedIn(more, name) = RecordedIn(h, name)
    BY <1>1, <1>2, <1>7 DEF RecordedIn
  <2>2. [i \in RecordedIn(more, name) |-> more[i].phases[name]]
          = [i \in RecordedIn(h, name) |-> h[i].phases[name]]
    BY <1>1, <2>1 DEF RecordedIn
  <2> QED BY <2>1, <2>2 DEF SpentIn
<1> QED BY <1>1, <1>2, <1>5, <1>6, <1>7 DEF more, n

\* observe() keeps one more value of what is observed and leaves the rest.
LEMMA ObservedSamples ==
  ASSUME NEW stage, NEW values, NEW name
  PROVE  SamplesOf(Observed(stage, values), name) =
           IF name \in DOMAIN values THEN Kept(SamplesOf(stage, name), values[name])
           ELSE SamplesOf(stage, name)
BY DEF SamplesOf, Observed

\* A step is recorded as a whole, or not at all.
LEMMA RecordStepKeeps ==
  ASSUME HistoryOK, KeptOK, NEW D \in SUBSET Names, NEW phases \in [D -> Nat \cup {Bad}],
         NEW count \in Nat, NEW duration \in Nat \cup {Bad}, RecordStep(phases, count, duration)
  PROVE  HistoryOK' /\ KeptOK'
<1> DEFINE accepted == duration # Bad /\ \A name \in DOMAIN phases : IsValid(name, phases[name])
           r == [phases |-> phases, samples |-> count, duration |-> duration]
           h == history
<1>1. h \in Seq(StepRecord) /\ steps = Len(h) /\ samples = Total(Sampled(h)) /\ Len(h) \in Nat
  BY DEF HistoryOK, Accepted, StepRecord
<1>2. CASE ~accepted
  <2>1. UNCHANGED profilerVars
    BY <1>2 DEF RecordStep
  <2> QED BY <2>1 DEF profilerVars, HistoryOK, KeptOK
<1>3. CASE accepted
  <2>1. duration \in Nat /\ phases \in [D -> Nat] /\ NoName \notin D /\ DOMAIN phases = D
    BY <1>3 DEF IsValid
  <2>2. phases \in Spendings
    BY <2>1 DEF Spendings
  <2>3. r \in StepRecord
    BY <2>1, <2>2 DEF StepRecord
  <2>4. /\ steps' = steps + 1 /\ samples' = samples + count
        /\ stepSamples' = Kept(stepSamples, duration)
        /\ phaseSamples' = Observed(phaseSamples, phases)
        /\ stages' = Observed(Observed(stages, [name \in {StepName} |-> duration]), phases)
        /\ history' = Append(h, r)
    BY <1>3 DEF RecordStep
  <2>5. r.phases = phases /\ r.samples = count /\ r.duration = duration
    OBVIOUS
  <2> HIDE DEF r, h, accepted
  <2>6. /\ history' \in Seq(StepRecord) /\ Len(history') = Len(h) + 1
        /\ DOMAIN history' = DOMAIN h \cup {Len(h) + 1}
        /\ history'[Len(h) + 1] = r /\ \A i \in DOMAIN h : history'[i] = h[i]
        /\ Total(Durated(history')) = Total(Durated(h)) + duration
        /\ Total(Sampled(history')) = Total(Sampled(h)) + count
        /\ \A name :
             IF name \in D
             THEN /\ RecordedIn(history', name) = RecordedIn(h, name) \cup {Len(h) + 1}
                  /\ Cardinality(RecordedIn(history', name)) = Cardinality(RecordedIn(h, name)) + 1
                  /\ SpentIn(history', name) = SpentIn(h, name) + phases[name]
             ELSE /\ RecordedIn(history', name) = RecordedIn(h, name)
                  /\ SpentIn(history', name) = SpentIn(h, name)
    BY <1>1, <2>1, <2>3, <2>4, <2>5, HistoryAppended
  <2>7. HistoryOK'
    <3>1. \A i \in DOMAIN history' : NoName \notin DOMAIN history'[i].phases
      BY <2>1, <2>5, <2>6 DEF HistoryOK, Accepted, h
    <3> QED BY <1>1, <2>4, <2>6, <3>1 DEF HistoryOK, Accepted, StepRecord
  <2>8. Keeps(stepSamples', Len(history'), Total(Durated(history')))
    <3>1. Keeps(stepSamples, Len(h), Total(Durated(h))) /\ Total(Durated(h)) \in Nat
      BY <1>1, HistoryFacts DEF KeptOK, KeptOf, h
    <3>2. Keeps(Kept(stepSamples, duration), Len(h) + 1, Total(Durated(h)) + duration)
      BY <1>1, <2>1, <3>1, KeptMore
    <3> QED BY <2>4, <2>6, <3>2
  <2>9. DOMAIN phaseSamples' = {name \in Names : RecordedIn(history', name) # {}}
    <3>1. DOMAIN phaseSamples' = {name \in Names : RecordedIn(h, name) # {}} \cup D
      BY <2>1, <2>4 DEF Observed, KeptOK, KeptOf, h
    <3> QED BY <2>6, <3>1
  <2>10. ASSUME NEW name \in Names
         PROVE  Keeps(SamplesOf(phaseSamples', name), Cardinality(RecordedIn(history', name)),
                      SpentIn(history', name))
    <3>1. /\ Keeps(SamplesOf(phaseSamples, name), Cardinality(RecordedIn(h, name)), SpentIn(h, name))
          /\ Cardinality(RecordedIn(h, name)) \in Nat /\ SpentIn(h, name) \in Nat
      BY <1>1, HistoryFacts DEF KeptOK, KeptOf, h
    <3>2. SamplesOf(phaseSamples', name) =
            IF name \in D THEN Kept(SamplesOf(phaseSamples, name), phases[name])
            ELSE SamplesOf(phaseSamples, name)
      BY <2>1, <2>4, ObservedSamples
    <3>3. CASE name \in D
      <4>1. phases[name] \in Nat
        BY <2>1, <3>3
      <4>2. Keeps(Kept(SamplesOf(phaseSamples, name), phases[name]),
                  Cardinality(RecordedIn(h, name)) + 1, SpentIn(h, name) + phases[name])
        BY <3>1, <4>1, KeptMore
      <4> QED BY <2>6, <3>2, <3>3, <4>2
    <3>4. CASE name \notin D
      BY <2>6, <3>1, <3>2, <3>4
    <3> QED BY <3>3, <3>4
  <2> DEFINE first == [name \in {StepName} |-> duration]
  <2>11. DOMAIN first = {StepName} /\ first[StepName] = duration
    OBVIOUS
  <2> HIDE DEF first
  <2>12. stages' = Observed(Observed(stages, first), phases)
    BY <2>4 DEF first
  <2>13. DOMAIN stages' = {name \in Names : RecordedIn(history', name) # {}}
                            \cup {name \in {StepName} : history' # <<>>}
    <3>1. DOMAIN stages' = {name \in Names : RecordedIn(h, name) # {}}
                             \cup {name \in {StepName} : h # <<>>} \cup {StepName} \cup D
      BY <2>1, <2>11, <2>12 DEF Observed, KeptOK, KeptOf, h
    <3>2. history' # <<>>
      BY <1>1, <2>6
    <3> QED BY <2>6, <3>1, <3>2
  <2>14. ASSUME NEW name \in Names \cup {StepName}
         PROVE  Keeps(SamplesOf(stages', name), ObservedIn(history', name), BehindIn(history', name))
    <3> DEFINE kept == SamplesOf(stages, name)
               then == SamplesOf(Observed(stages, first), name)
               often == ObservedIn(h, name)
               time == BehindIn(h, name)
               once == IF name = StepName THEN 1 ELSE 0
               long == IF name = StepName THEN duration ELSE 0
    <3>1. /\ Cardinality(RecordedIn(h, name)) \in Nat /\ SpentIn(h, name) \in Nat
          /\ Total(Durated(h)) \in Nat
      BY <1>1, HistoryFacts
    <3>2. often \in Nat /\ time \in Nat /\ often + once \in Nat /\ time + long \in Nat
      BY <1>1, <2>1, <3>1 DEF ObservedIn, BehindIn
    <3>3. Keeps(kept, often, time)
      BY DEF KeptOK, KeptOf, h
    <3>4. /\ ObservedIn(history', name) = often + once + (IF name \in D THEN 1 ELSE 0)
          /\ BehindIn(history', name) = time + long + (IF name \in D THEN phases[name] ELSE 0)
      <4>1. name \in D => phases[name] \in Nat
        BY <2>1
      <4>2. /\ Cardinality(RecordedIn(history', name))
                 = Cardinality(RecordedIn(h, name)) + (IF name \in D THEN 1 ELSE 0)
            /\ SpentIn(history', name)
                 = SpentIn(h, name) + (IF name \in D THEN phases[name] ELSE 0)
        BY <2>6, <3>1
      <4>3. /\ (IF name \in D THEN 1 ELSE 0) \in Nat
            /\ (IF name \in D THEN phases[name] ELSE 0) \in Nat
        BY <4>1
      <4>4. CASE name = StepName
        <5> DEFINE a == Cardinality(RecordedIn(h, name))
                   b == SpentIn(h, name)
                   x == IF name \in D THEN 1 ELSE 0
                   y == IF name \in D THEN phases[name] ELSE 0
        <5>1. often = a + Len(h) /\ time = b + Total(Durated(h)) /\ once = 1 /\ long = duration
          BY <4>4 DEF ObservedIn, BehindIn
        <5>2. /\ ObservedIn(history', name) = (a + x) + (Len(h) + 1)
              /\ BehindIn(history', name) = (b + y) + (Total(Durated(h)) + duration)
          BY <2>6, <4>2, <4>4 DEF ObservedIn, BehindIn
        <5> HIDE DEF a, b, x, y, once, long, often, time
        <5>3. a \in Nat /\ b \in Nat /\ x \in Nat /\ y \in Nat /\ Total(Durated(h)) \in Nat
          BY <3>1, <4>3 DEF a, b, x, y
        <5>4. (a + x) + (Len(h) + 1) = often + once + x
          BY <1>1, <5>1, <5>3
        <5>5. (b + y) + (Total(Durated(h)) + duration) = time + long + y
          BY <2>1, <5>1, <5>3
        <5> QED BY <5>2, <5>4, <5>5 DEF x, y
      <4>5. CASE name # StepName
        BY <3>1, <4>2, <4>3, <4>5 DEF ObservedIn, BehindIn
      <4> QED BY <4>4, <4>5
    <3>5. /\ then = IF name = StepName THEN Kept(kept, duration) ELSE kept
          /\ SamplesOf(stages', name) = IF name \in D THEN Kept(then, phases[name]) ELSE then
      BY <2>1, <2>11, <2>12, ObservedSamples
    <3> HIDE DEF kept, then, often, time
    <3>6. Keeps(then, often + once, time + long)
      <4>1. CASE name = StepName
        BY <2>1, <3>2, <3>3, <3>5, <4>1, KeptMore
      <4>2. CASE name # StepName
        BY <3>2, <3>3, <3>5, <4>2
      <4> QED BY <4>1, <4>2
    <3> HIDE DEF once, long
    <3>7. CASE name \in D
      <4>1. phases[name] \in Nat
        BY <2>1, <3>7
      <4>2. Keeps(Kept(then, phases[name]), often + once + 1, time + long + phases[name])
        BY <3>2, <3>6, <4>1, KeptMore
      <4> QED BY <3>4, <3>5, <3>7, <4>2
    <3>8. CASE name \notin D
      BY <3>2, <3>4, <3>5, <3>6, <3>8
    <3> QED BY <3>7, <3>8
  <2> QED BY <2>7, <2>8, <2>9, <2>10, <2>13, <2>14 DEF KeptOK, KeptOf
<1> QED BY <1>2, <1>3

\* A profiler that is new has nothing of nothing.
LEMMA FreshKeeps == Accepted(<<>>, 0, 0) /\ KeptOf(<<>>, <<>>, Empty, Empty)
<1> DEFINE h == <<>>
<1>1. h = <<>> /\ h \in Seq(StepRecord) /\ DOMAIN h = {} /\ Len(h) = 0
  OBVIOUS
<1>2. DOMAIN Empty = {}
  BY DEF Empty
<1>3. Durated(h) = <<>> /\ Sampled(h) = <<>>
  BY <1>1 DEF Durated, Sampled
<1>4. <<>> \in Seq(Nat) /\ Len(<<>>) = 0
  OBVIOUS
<1>5. Total(<<>>) = 0
  BY <1>4, TotalSorted
<1>6. ASSUME NEW name
      PROVE  RecordedIn(h, name) = {} /\ SpentIn(h, name) = 0
  <2>1. RecordedIn(h, name) = {}
    BY <1>1 DEF RecordedIn
  <2> QED BY <2>1, FS_EmptySet, SumFacts DEF SpentIn
<1>7. Cardinality({}) = 0 /\ Limit \in Nat /\ 0 < Limit
  BY LimitAssumption, FS_EmptySet DEF LimitAssumption
<1>8. Keeps(<<>>, 0, 0)
  BY <1>4, <1>5, <1>7 DEF Keeps
<1>9. \A name : SamplesOf(Empty, name) = <<>>
  BY <1>2 DEF SamplesOf
<1> HIDE DEF h
<1>10. Accepted(h, 0, 0)
  BY <1>1, <1>3, <1>5 DEF Accepted, StepRecord
<1>11. \A name : ObservedIn(h, name) = 0 /\ BehindIn(h, name) = 0
  BY <1>1, <1>3, <1>5, <1>6, <1>7 DEF ObservedIn, BehindIn
<1>12. KeptOf(h, <<>>, Empty, Empty)
  BY <1>1, <1>2, <1>3, <1>5, <1>6, <1>7, <1>8, <1>9, <1>11 DEF KeptOf
<1> QED BY <1>10, <1>12 DEF h

\* Time that goes by is added to the steps that are open.
LEMMA AddsKeeps ==
  ASSUME OpenOK, NEW s \in Steps, NEW name \in Names, NEW duration \in Nat, NEW time \in Nat,
         Adds(s, name, duration, time)
  PROVE  OpenOK'
<1> DEFINE more(t) == [n \in DOMAIN open[t].phases \cup {name} |->
                         IF n = name THEN Spent(s, name) + duration ELSE open[t].phases[n]]
           phases(t) == IF t # s THEN open[t].phases ELSE more(t)
<1>1. open' = [t \in Steps |-> IF open[t] = None THEN None
                               ELSE [open[t] EXCEPT !.elapsed = @ + time, !.phases = phases(t)]]
  BY DEF Adds
<1>2. ASSUME NEW t \in Steps, open[t] # None
      PROVE  open'[t] \in [samples : Batches, elapsed : Nat, phases : Spendings]
  <2>1. open[t] \in [samples : Batches, elapsed : Nat, phases : Spendings]
    BY <1>2 DEF OpenOK
  <2>2. phases(t) \in Spendings
    <3>1. PICK D \in SUBSET Names : open[t].phases \in [D -> Nat]
      BY <2>1 DEF Spendings
    <3>2. CASE t = s
      <4>1. Spent(s, name) \in Nat
        BY <3>1, <3>2 DEF Spent
      <4>2. D \cup {name} \in SUBSET Names /\ more(t) \in [D \cup {name} -> Nat]
        BY <3>1, <4>1
      <4>3. more(t) \in Spendings
        <5> HIDE DEF more
        <5> QED BY <4>2 DEF Spendings
      <4> QED BY <3>2, <4>3
    <3>3. CASE t # s
      BY <2>1, <3>3
    <3> QED BY <3>2, <3>3
  <2> HIDE DEF phases
  <2>3. open'[t] = [open[t] EXCEPT !.elapsed = @ + time, !.phases = phases(t)]
    BY <1>1, <1>2
  <2>4. open[t].elapsed + time \in Nat
    BY <2>1
  <2> QED BY <2>1, <2>2, <2>3, <2>4
<1>3. \A t \in Steps : open[t] = None => open'[t] = None
  BY <1>1
<1>4. open' = [t \in Steps |-> open'[t]]
  <2> HIDE DEF phases
  <2> QED BY <1>1
<1> QED BY <1>2, <1>3, <1>4 DEF OpenOK

\* A step of the training loop keeps what is recorded and what is kept together.
LEMMA TrainingStep ==
  ASSUME ProfilerInv, TrainingNext
  PROVE  ProfilerInv'
<1>1. Batches \subseteq Nat /\ Durations \subseteq Nat
  BY TrainingAssumption DEF TrainingAssumption
<1>2. ASSUME UNCHANGED profilerVars, OpenOK' PROVE ProfilerInv'
  BY <1>2 DEF profilerVars, ProfilerInv, HistoryOK, KeptOK
<1>3. ASSUME NEW s \in Steps, NEW count \in Batches, Begin(s, count) PROVE ProfilerInv'
  <2> DEFINE begun == [samples |-> count, elapsed |-> 0, phases |-> Empty]
  <2>1. Empty \in Spendings
    BY DEF Empty, Spendings
  <2>2. begun \in [samples : Batches, elapsed : Nat, phases : Spendings]
    BY <2>1
  <2>3. open' = [open EXCEPT ![s] = begun] /\ UNCHANGED profilerVars
    BY <1>3 DEF Begin
  <2> HIDE DEF begun
  <2>4. open' = [t \in Steps |-> IF t = s THEN begun ELSE open[t]]
    BY <2>3 DEF ProfilerInv, OpenOK
  <2>5. OpenOK'
    BY <2>2, <2>4 DEF ProfilerInv, OpenOK
  <2> QED BY <1>2, <2>3, <2>5
<1>4. ASSUME NEW s \in Steps, NEW name \in Names, NEW d \in Durations,
             Phase(s, name, d) \/ Record(s, name, d)
      PROVE  ProfilerInv'
  <2>1. PICK time \in Nat : Adds(s, name, d, time)
    BY <1>1, <1>4 DEF Phase, Record
  <2>2. OpenOK' /\ UNCHANGED profilerVars
    <3>1. UNCHANGED profilerVars
      BY <2>1 DEF Adds
    <3> QED BY <1>1, <2>1, <3>1, AddsKeeps DEF ProfilerInv
  <2> QED BY <1>2, <2>2
<1>5. ASSUME NEW s \in Steps, Finish(s) PROVE ProfilerInv'
  <2>1. /\ open[s] \in [samples : Batches, elapsed : Nat, phases : Spendings]
        /\ RecordStep(open[s].phases, open[s].samples, open[s].elapsed)
        /\ open' = [open EXCEPT ![s] = None]
    BY <1>5 DEF Finish, ProfilerInv, OpenOK
  <2>2. PICK D \in SUBSET Names : open[s].phases \in [D -> Nat]
    BY <2>1 DEF Spendings
  <2>3. /\ open[s].phases \in [D -> Nat \cup {Bad}] /\ open[s].samples \in Nat
        /\ open[s].elapsed \in Nat \cup {Bad}
    BY <1>1, <2>1, <2>2
  <2>4. HistoryOK' /\ KeptOK'
    BY <2>1, <2>3, RecordStepKeeps DEF ProfilerInv
  <2>5. open' = [t \in Steps |-> IF t = s THEN None ELSE open[t]]
    BY <2>1 DEF ProfilerInv, OpenOK
  <2>6. OpenOK'
    BY <2>5 DEF ProfilerInv, OpenOK
  <2> QED BY <2>4, <2>6 DEF ProfilerInv
<1>6. ASSUME NEW D \in SUBSET Names, NEW count \in Batches,
             NEW phases \in [D -> Durations \cup {Bad}], RecordDirectly(phases, count)
      PROVE  ProfilerInv'
  <2> DEFINE sum == SumOver(phases, DOMAIN phases)
  <2>1. phases \in [D -> Nat \cup {Bad}] /\ count \in Nat
    BY <1>1
  <2>2. open' = open
    BY <1>6 DEF RecordDirectly
  <2>3. CASE \E duration \in {Bad} \cup Durations : RecordStep(phases, count, duration)
    <3>1. PICK duration \in {Bad} \cup Durations : RecordStep(phases, count, duration)
      BY <2>3
    <3>2. duration \in Nat \cup {Bad}
      BY <1>1
    <3>3. HistoryOK' /\ KeptOK'
      BY <2>1, <3>1, <3>2, RecordStepKeeps DEF ProfilerInv
    <3> QED BY <2>2, <3>3 DEF ProfilerInv, OpenOK
  <2>4. CASE /\ \A name \in DOMAIN phases : IsValid(name, phases[name])
             /\ RecordStep(phases, count, sum)
    <3>1. \A name \in D : phases[name] \in Nat
      BY <2>1, <2>4 DEF IsValid
    <3>2. IsFiniteSet(D) /\ DOMAIN phases = D
      BY TrainingAssumption, FS_Subset DEF TrainingAssumption
    <3>3. sum \in Nat
      BY <3>1, <3>2, SumFacts
    <3> HIDE DEF sum
    <3>4. HistoryOK' /\ KeptOK'
      BY <2>1, <2>4, <3>3, RecordStepKeeps DEF ProfilerInv
    <3> QED BY <2>2, <3>4 DEF ProfilerInv, OpenOK
  <2>5. \/ \E duration \in {Bad} \cup Durations : RecordStep(phases, count, duration)
        \/ /\ \A name \in DOMAIN phases : IsValid(name, phases[name])
           /\ RecordStep(phases, count, sum)
    BY <1>6 DEF RecordDirectly, SumOver
  <2> QED BY <2>3, <2>4, <2>5
<1> QED BY <1>3, <1>4, <1>5, <1>6 DEF TrainingNext

\* The profiler's part of the invariant, for the whole study
LEMMA ProfilerInvariant == Spec => []ProfilerInv
<1>1. Init => ProfilerInv
  <2> SUFFICES ASSUME Init PROVE ProfilerInv
    OBVIOUS
  <2>1. Fresh /\ open = [s \in Steps |-> None]
    BY DEF Init, TrainingInit
  <2>2. HistoryOK /\ KeptOK
    BY <2>1, FreshKeeps DEF Fresh, HistoryOK, KeptOK
  <2> QED BY <2>1, <2>2 DEF ProfilerInv, OpenOK
<1>2. ProfilerInv /\ [Next]_vars => ProfilerInv'
  <2> SUFFICES ASSUME ProfilerInv, [Next]_vars PROVE ProfilerInv'
    OBVIOUS
  <2>1. ASSUME UNCHANGED trainingVars PROVE ProfilerInv'
    BY <2>1 DEF trainingVars, profilerVars, ProfilerInv, OpenOK, HistoryOK, KeptOK
  <2>2. ASSUME NEW status, NEW throughput, NEW p95, NEW headroom,
               Ends(status, throughput, p95, headroom)
        PROVE  ProfilerInv'
    <3>1. /\ open' = open /\ steps' = 0 /\ samples' = 0 /\ stepSamples' = <<>>
          /\ phaseSamples' = Empty /\ stages' = Empty /\ history' = <<>>
      BY <2>2 DEF Ends
    <3>2. HistoryOK' /\ KeptOK'
      BY <3>1, FreshKeeps DEF HistoryOK, KeptOK
    <3> QED BY <3>1, <3>2 DEF ProfilerInv, OpenOK
  <2>3. CASE Sweeps
    BY <2>1, <2>3 DEF Sweeps
  <2>4. CASE Trains
    BY <2>4, TrainingStep DEF Trains
  <2>5. CASE Measured
    BY <2>2, <2>5 DEF Measured
  <2>6. CASE Breaks
    BY <2>2, <2>6 DEF Breaks
  <2>7. CASE Selects
    BY <2>1, <2>7 DEF Selects
  <2>8. CASE UNCHANGED vars
    BY <2>1, <2>8 DEF vars
  <2> QED BY <2>3, <2>4, <2>5, <2>6, <2>7, <2>8 DEF Next
<1> QED BY <1>1, <1>2, PTL DEF Spec

-----------------------------------------------------------------------------
(* What the snapshot says                                                   *)

Totals == [name \in DOMAIN phaseSamples |-> Total(phaseSamples[name])]

\* The sums of the properties are sums over a history.
LEMMA TimesAreSums ==
  ASSUME HistoryOK
  PROVE  /\ TimeOfSteps = Total(Durated(history))
         /\ \A name : TimeIn(name) = SpentIn(history, name)
<1> DEFINE h == history
           One(s) == CHOOSE x \in s : TRUE
<1>1. h \in Seq(StepRecord)
  BY DEF HistoryOK, Accepted, StepRecord
<1>2. TimeOfSteps = Total(Durated(h))
  <2> DEFINE v == Durated(h)
             D == DOMAIN h
             Sum(g) == g = [s \in SUBSET D |-> IF s = {} THEN 0
                              ELSE h[One(s)].duration + g[s \ {One(s)}]]
  <2>1. D = 1 .. Len(v) /\ IsFiniteSet(D) /\ v \in Seq(Nat) /\ \A i \in D : v[i] \in Nat
    <3>1. D = 1 .. Len(h) /\ IsFiniteSet(D) /\ v \in Seq(Nat) /\ Len(h) \in Nat
      BY <1>1, HistoryFacts
    <3>2. Len(v) = Len(h)
      BY <3>1 DEF Durated
    <3> HIDE DEF v
    <3> QED BY <3>1, <3>2
  <2>2. ASSUME NEW s \in SUBSET D, s # {} PROVE h[One(s)].duration = v[One(s)]
    <3>1. One(s) \in D
      BY <2>2
    <3> HIDE DEF One
    <3> QED BY <3>1 DEF Durated
  <2>3. ASSUME NEW g PROVE Sum(g) <=> SumFold(g, D, v)
    <3> HIDE DEF v, D
    <3>1. SumFold(g, D, v) <=> g = [s \in SUBSET D |-> IF s = {} THEN 0
                                      ELSE v[One(s)] + g[s \ {One(s)}]]
      BY DEF SumFold
    <3> HIDE DEF One
    <3> QED BY <2>2, <3>1
  <2>4. TimeOfSteps = (CHOOSE g : Sum(g))[D]
    BY DEF TimeOfSteps, MapThenSumSet, MapThenFoldSet
  <2> HIDE DEF v, D, Sum, One
  <2>5. (\E g : SumFold(g, D, v)) /\ \A g : SumFold(g, D, v) => g[D] = SumOver(v, D)
    BY <2>1, SumIsFold
  <2>6. TimeOfSteps = SumOver(v, D)
    BY <2>3, <2>4, <2>5
  <2> QED BY <2>1, <2>6, TotalIsSum DEF v
<1>3. ASSUME NEW name PROVE TimeIn(name) = SpentIn(h, name)
  <2> DEFINE D == RecordedIn(h, name)
             v == [i \in D |-> h[i].phases[name]]
             Sum(g) == g = [s \in SUBSET D |-> IF s = {} THEN 0
                              ELSE h[One(s)].phases[name] + g[s \ {One(s)}]]
  <2>1. IsFiniteSet(D) /\ \A i \in D : v[i] \in Nat
    BY <1>1, HistoryFacts
  <2>2. ASSUME NEW s \in SUBSET D, s # {} PROVE h[One(s)].phases[name] = v[One(s)]
    <3>1. One(s) \in D
      BY <2>2
    <3> HIDE DEF One, D
    <3> QED BY <3>1
  <2>3. ASSUME NEW g PROVE Sum(g) <=> SumFold(g, D, v)
    <3> HIDE DEF v, D
    <3>1. SumFold(g, D, v) <=> g = [s \in SUBSET D |-> IF s = {} THEN 0
                                      ELSE v[One(s)] + g[s \ {One(s)}]]
      BY DEF SumFold
    <3> HIDE DEF One
    <3> QED BY <2>2, <3>1
  <2>4. TimeIn(name) = (CHOOSE g : Sum(g))[D]
    BY DEF TimeIn, Recorded, RecordedIn, MapThenSumSet, MapThenFoldSet
  <2> HIDE DEF v, D, Sum, One
  <2>5. (\E g : SumFold(g, D, v)) /\ \A g : SumFold(g, D, v) => g[D] = SumOver(v, D)
    BY <2>1, SumIsFold
  <2>6. TimeIn(name) = SumOver(v, D)
    BY <2>3, <2>4, <2>5
  <2> QED BY <2>6 DEF v, D, SpentIn
<1> QED BY <1>2, <1>3

\* So is the sum of the totals of some phases.
LEMMA TotalsAreSums ==
  ASSUME HistoryOK, KeptOK, NEW S \in SUBSET DOMAIN phaseSamples
  PROVE  /\ IsFiniteSet(S) /\ \A name \in S : Totals[name] \in Nat
         /\ MapThenSumSet(LAMBDA name : Total(phaseSamples[name]), S) = SumOver(Totals, S)
<1> DEFINE v == Totals
           One(s) == CHOOSE x \in s : TRUE
           Sum(g) == g = [s \in SUBSET S |-> IF s = {} THEN 0
                            ELSE Total(phaseSamples[One(s)]) + g[s \ {One(s)}]]
<1>1. DOMAIN phaseSamples \subseteq Names /\ IsFiniteSet(Names)
  BY TrainingAssumption DEF TrainingAssumption, KeptOK, KeptOf
<1>2. IsFiniteSet(S)
  BY <1>1, FS_Subset
<1>3. ASSUME NEW name \in S PROVE v[name] = Total(phaseSamples[name]) /\ v[name] \in Nat
  <2>1. name \in Names /\ name \in DOMAIN phaseSamples
    BY <1>1
  <2>2. Keeps(phaseSamples[name], Cardinality(RecordedIn(history, name)), SpentIn(history, name))
    BY <2>1 DEF KeptOK, KeptOf, SamplesOf
  <2>3. Total(phaseSamples[name]) \in Nat
    BY <2>2, TotalSorted DEF Keeps
  <2> QED BY <2>1, <2>3 DEF Totals
<1>4. ASSUME NEW s \in SUBSET S, s # {} PROVE Total(phaseSamples[One(s)]) = v[One(s)]
  <2>1. One(s) \in S
    BY <1>4
  <2> HIDE DEF One, v
  <2> QED BY <1>3, <2>1
<1> HIDE DEF v
<1>5. ASSUME NEW g PROVE Sum(g) <=> SumFold(g, S, v)
  <2>1. SumFold(g, S, v) <=> g = [s \in SUBSET S |-> IF s = {} THEN 0
                                    ELSE v[One(s)] + g[s \ {One(s)}]]
    BY DEF SumFold
  <2> HIDE DEF One
  <2> QED BY <1>4, <2>1
<1>6. MapThenSumSet(LAMBDA name : Total(phaseSamples[name]), S) = (CHOOSE g : Sum(g))[S]
  BY DEF MapThenSumSet, MapThenFoldSet
<1> HIDE DEF Sum, One
<1>7. (\E g : SumFold(g, S, v)) /\ \A g : SumFold(g, S, v) => g[S] = SumOver(v, S)
  BY <1>2, <1>3, SumIsFold
<1>8. MapThenSumSet(LAMBDA name : Total(phaseSamples[name]), S) = SumOver(v, S)
  BY <1>5, <1>6, <1>7
<1> QED BY <1>2, <1>3, <1>8 DEF v

\* And the time of some phases that were seen.
LEMMA SeenIsSum ==
  ASSUME HistoryOK, NEW S \in SUBSET Seen
  PROVE  /\ IsFiniteSet(S) /\ \A name \in S : TimeIn(name) \in Nat
         /\ MapThenSumSet(TimeIn, S) = SumOver([name \in S |-> TimeIn(name)], S)
<1> DEFINE v == [name \in S |-> TimeIn(name)]
           One(s) == CHOOSE x \in s : TRUE
           Sum(g) == g = [s \in SUBSET S |-> IF s = {} THEN 0 ELSE TimeIn(One(s)) + g[s \ {One(s)}]]
<1>1. S \subseteq Names /\ IsFiniteSet(Names)
  BY TrainingAssumption DEF TrainingAssumption, Seen
<1>2. IsFiniteSet(S)
  BY <1>1, FS_Subset
<1>3. ASSUME NEW name \in S PROVE TimeIn(name) \in Nat
  <2>1. history \in Seq(StepRecord)
    BY DEF HistoryOK, Accepted, StepRecord
  <2> QED BY <1>1, <2>1, TimesAreSums, HistoryFacts
<1>4. ASSUME NEW s \in SUBSET S, s # {} PROVE TimeIn(One(s)) = v[One(s)]
  <2>1. One(s) \in S
    BY <1>4
  <2> HIDE DEF One
  <2> QED BY <2>1
<1>5. \A name \in S : v[name] \in Nat
  BY <1>3
<1> HIDE DEF v
<1>6. ASSUME NEW g PROVE Sum(g) <=> SumFold(g, S, v)
  <2>1. SumFold(g, S, v) <=> g = [s \in SUBSET S |-> IF s = {} THEN 0
                                    ELSE v[One(s)] + g[s \ {One(s)}]]
    BY DEF SumFold
  <2> HIDE DEF One
  <2> QED BY <1>4, <2>1
<1>7. MapThenSumSet(TimeIn, S) = (CHOOSE g : Sum(g))[S]
  BY DEF MapThenSumSet, MapThenFoldSet
<1> HIDE DEF Sum, One
<1>8. (\E g : SumFold(g, S, v)) /\ \A g : SumFold(g, S, v) => g[S] = SumOver(v, S)
  BY <1>2, <1>5, SumIsFold
<1>9. MapThenSumSet(TimeIn, S) = SumOver(v, S)
  BY <1>6, <1>7, <1>8
<1> QED BY <1>2, <1>3, <1>9 DEF v

\* The bottleneck is a phase that took longest.
LEMMA BottleneckFacts ==
  ASSUME HistoryOK, KeptOK, DOMAIN phaseSamples # {}
  PROVE  /\ Bottleneck \in DOMAIN phaseSamples
         /\ \A name \in DOMAIN phaseSamples :
              Total(phaseSamples[Bottleneck]) >= Total(phaseSamples[name])
<1> DEFINE D == DOMAIN phaseSamples
           longest == {n \in D : \A m \in D : Total(phaseSamples[n]) >= Total(phaseSamples[m])}
           values == {Totals[n] : n \in D}
<1>1. IsFiniteSet(D) /\ \A n \in D : Totals[n] \in Nat /\ Totals[n] = Total(phaseSamples[n])
  BY TotalsAreSums DEF Totals
<1>2. Totals \in Surjection(D, values)
  BY DEF Surjection, Totals
<1>3. values # {} /\ \A x \in values : x \in Int
  BY <1>1
<1> HIDE DEF values
<1>4. Max(values) \in values /\ \A x \in values : Max(values) >= x
  BY <1>1, <1>2, <1>3, FS_Surjection, MaxFacts
<1>5. longest # {}
  <2>1. PICK n \in D : Totals[n] = Max(values)
    BY <1>4 DEF values
  <2>2. \A m \in D : Totals[m] \in values
    BY DEF values
  <2> QED BY <1>1, <1>4, <2>1, <2>2
<1>6. IsFiniteSet(longest) /\ longest \subseteq D
  BY <1>1, FS_Subset
<1>7. \A n \in longest : n \in Int
  <2>1. D \subseteq Names
    BY DEF KeptOK, KeptOf
  <2>2. \A n \in Names : n \in Int
    BY TrainingAssumption DEF TrainingAssumption
  <2> HIDE DEF longest, D
  <2> QED BY <1>6, <2>1, <2>2
<1>8. Min(longest) \in longest
  <2> HIDE DEF longest
  <2> QED BY <1>5, <1>6, <1>7, MinFacts
<1>9. Bottleneck = Min(longest)
  BY DEF Bottleneck
<1> QED BY <1>8, <1>9

\* The snapshot is about the steps that were recorded, whole, and no others.
LEMMA SnapshotIsTrue ==
  ASSUME HistoryOK, KeptOK
  PROVE  ProfileIsTrue
<1> DEFINE h == history
           D == DOMAIN phaseSamples
<1>1. /\ h \in Seq(StepRecord) /\ steps = Len(h) /\ Len(h) \in Nat
      /\ DOMAIN h = 1 .. Len(h) /\ IsFiniteSet(DOMAIN h)
  <2>1. h \in Seq(StepRecord) /\ steps = Len(h)
    BY DEF HistoryOK, Accepted, StepRecord
  <2> QED BY <2>1, HistoryFacts
<1>2. /\ TimeOfSteps = Total(Durated(h)) /\ TimeOfSteps \in Nat
      /\ \A name : TimeIn(name) = SpentIn(h, name) /\ Recorded(name) = RecordedIn(h, name)
  BY <1>1, TimesAreSums, HistoryFacts DEF Recorded, RecordedIn
<1>3. Keeps(stepSamples, Len(h), Total(Durated(h)))
  BY DEF KeptOK, KeptOf
<1>4. D = Seen /\ Seen \subseteq Names
  BY DEF Seen, Recorded, RecordedIn, KeptOK, KeptOf
<1>5. ASSUME NEW name \in D
      PROVE  /\ Keeps(phaseSamples[name], Cardinality(Recorded(name)), TimeIn(name))
             /\ TimeIn(name) \in Nat /\ Cardinality(Recorded(name)) \in Nat
             /\ Cardinality(Recorded(name)) <= Len(h)
             /\ Totals[name] = Total(phaseSamples[name]) /\ Totals[name] \in Nat
  <2>1. name \in Names /\ Recorded(name) = RecordedIn(h, name)
    BY <1>4 DEF Recorded, RecordedIn
  <2>2. Keeps(phaseSamples[name], Cardinality(RecordedIn(h, name)), SpentIn(h, name))
    BY <2>1 DEF KeptOK, KeptOf, SamplesOf
  <2>3. RecordedIn(h, name) \subseteq DOMAIN h /\ Cardinality(RecordedIn(h, name)) \in Nat
    BY <1>1, <2>1, HistoryFacts
  <2>4. Cardinality(RecordedIn(h, name)) <= Len(h)
    <3>1. Cardinality(DOMAIN h) = Len(h)
      <4>1. \A n \in Nat : Cardinality(1 .. n) = n
        BY FS_Interval
      <4> HIDE DEF h
      <4> QED BY <1>1, <4>1
    <3> QED BY <1>1, <2>3, <3>1, FS_Subset
  <2>5. Totals[name] = Total(phaseSamples[name]) /\ Totals[name] \in Nat
    BY TotalsAreSums DEF Totals
  <2> QED BY <1>1, <1>2, <2>1, <2>2, <2>3, <2>4, <2>5, HistoryFacts
<1>6. \A s \in Seq(Nat) : Metric(s).count = Len(s) /\ Metric(s).total = Total(s)
  BY TotalSorted DEF Metric
<1>7. ASSUME NEW name \in D
      PROVE  /\ PhaseMetric(name).count = Len(phaseSamples[name])
             /\ PhaseMetric(name).total = Total(phaseSamples[name])
  <2>1. phaseSamples[name] \in Seq(Nat)
    BY <1>5 DEF Keeps
  <2> QED BY <1>6, <2>1 DEF PhaseMetric
<1>8. /\ Snapshot.steps = steps /\ Snapshot.total = Total(stepSamples)
      /\ Snapshot.bottleneck = Bottleneck /\ DOMAIN Snapshot.phases = D
      /\ \A name \in D : Snapshot.phases[name] = PhaseMetric(name)
      /\ Snapshot.recommendations = Recommendations
  BY DEF Snapshot
<1>9. Snapshot.steps = Len(h) /\ Snapshot.total <= TimeOfSteps
  BY <1>1, <1>2, <1>3, <1>8 DEF Keeps
<1>10. \A name \in D : Total(phaseSamples[name]) <= TimeIn(name)
  BY <1>5 DEF Keeps
<1>11. DOMAIN stages = Seen \cup {name \in {StepName} : h # <<>>}
  BY <1>4 DEF KeptOK, KeptOf
<1>12. ASSUME NEW name \in DOMAIN stages
       PROVE  IF Observations(name) <= Limit
                THEN /\ Metric(stages[name]).count = Observations(name)
                     /\ Metric(stages[name]).total = Behind(name)
                ELSE Metric(stages[name]).total <= Behind(name)
  <2>1. name \in Names \cup {StepName}
    BY <1>4, <1>11
  <2>2. Keeps(stages[name], ObservedIn(h, name), BehindIn(h, name))
    BY <2>1 DEF KeptOK, KeptOf, SamplesOf
  <2>3. ObservedIn(h, name) = Observations(name) /\ BehindIn(h, name) = Behind(name)
    BY <1>2 DEF ObservedIn, BehindIn, Observations, Behind
  <2>4. /\ Metric(stages[name]).count = Len(stages[name])
        /\ Metric(stages[name]).total = Total(stages[name])
    BY <1>6, <2>2 DEF Keeps
  <2>5. Observations(name) \in Nat /\ Limit \in Nat
    BY <1>1, <1>2, LimitAssumption, HistoryFacts DEF Observations, LimitAssumption
  <2> QED BY <2>2, <2>3, <2>4, <2>5 DEF Keeps
<1>13. ASSUME steps <= Limit
       PROVE  /\ Snapshot.total = TimeOfSteps /\ DOMAIN Snapshot.phases = Seen
              /\ \A name \in Seen :
                   /\ Snapshot.phases[name].count = Cardinality(Recorded(name))
                   /\ Snapshot.phases[name].total = TimeIn(name)
                   /\ TimeIn(Snapshot.bottleneck) >= TimeIn(name)
              /\ \A name \in {DataWait, Optimizer} :
                   name \in Snapshot.recommendations <=> Weighs({name}, 15)
              /\ Checkpoint \in Snapshot.recommendations <=> Weighs({Checkpoint}, 10)
              /\ Forward \in Snapshot.recommendations <=> Weighs({Forward, Backward}, 70)
  <2>0. Limit \in Nat /\ Limit > 0
    BY LimitAssumption DEF LimitAssumption
  <2>1. Snapshot.total = TimeOfSteps
    BY <1>1, <1>2, <1>3, <1>8, <1>13 DEF Keeps
  <2>2. ASSUME NEW name \in D
        PROVE  /\ Total(phaseSamples[name]) = TimeIn(name)
               /\ Len(phaseSamples[name]) = Cardinality(Recorded(name))
    <3>1. Cardinality(Recorded(name)) <= Limit
      BY <1>1, <1>5, <1>13, <2>0
    <3> QED BY <1>5, <2>0, <3>1 DEF Keeps
  <2>3. ASSUME NEW name \in D PROVE TimeIn(Snapshot.bottleneck) >= TimeIn(name)
    <3>1. Bottleneck \in D /\ Total(phaseSamples[Bottleneck]) >= Total(phaseSamples[name])
      BY BottleneckFacts
    <3> QED BY <1>8, <2>2, <3>1
  <2>4. ASSUME NEW S \in SUBSET D
        PROVE  MapThenSumSet(LAMBDA name : Total(phaseSamples[name]), S) = MapThenSumSet(TimeIn, S)
    <3> DEFINE spent == [name \in S |-> TimeIn(name)]
    <3>1. /\ IsFiniteSet(S)
          /\ MapThenSumSet(LAMBDA name : Total(phaseSamples[name]), S) = SumOver(Totals, S)
      BY TotalsAreSums
    <3>2. MapThenSumSet(TimeIn, S) = SumOver(spent, S)
      BY <1>4, SeenIsSum
    <3>3. \A name \in S : Totals[name] \in Nat /\ Totals[name] = spent[name]
      BY <1>5, <2>2
    <3> HIDE DEF spent
    <3>4. SumOver(Totals, S) = SumOver(spent, S)
      BY <3>1, <3>3, SumSame
    <3> QED BY <3>1, <3>2, <3>4
  <2>5. ASSUME NEW P, NEW percent PROVE Takes(P, percent) <=> Weighs(P, percent)
    <3>1. PhaseTotal = MapThenSumSet(TimeIn, Seen)
      BY <1>4, <2>4 DEF PhaseTotal
    <3>2. MapThenSumSet(LAMBDA name : Total(phaseSamples[name]), P \cap D)
            = MapThenSumSet(TimeIn, P \cap Seen)
      BY <1>4, <2>4
    <3> QED BY <1>4, <3>1, <3>2 DEF Takes, Weighs
  <2>6. /\ \A name \in {DataWait, Optimizer} : name \in Recommendations <=> Takes({name}, 15)
        /\ Checkpoint \in Recommendations <=> Takes({Checkpoint}, 10)
        /\ Forward \in Recommendations <=> Takes({Forward, Backward}, 70)
    BY DEF Recommendations, DataWait, Optimizer, Checkpoint, Forward
  <2> QED BY <1>4, <1>7, <1>8, <2>1, <2>2, <2>3, <2>5, <2>6
<1> QED BY <1>4, <1>8, <1>9, <1>10, <1>11, <1>12, <1>13 DEF ProfileIsTrue

\* The snapshot is true in every state: it is about the steps that were
\* recorded, whole, and no others (training_profiler.py:109-166).
THEOREM ProfileTrue == Spec => []ProfileIsTrue
<1>1. ProfilerInv => ProfileIsTrue
  BY SnapshotIsTrue DEF ProfilerInv
<1> QED BY <1>1, ProfilerInvariant, PTL

-----------------------------------------------------------------------------
(* The sweep                                                                *)

Lens == [key \in DOMAIN axes |-> Len(axes[key])]

\* The axes of a sweep
LEMMA AxesFacts ==
  ASSUME axes \in Axes
  PROVE  /\ IsFiniteSet(DOMAIN axes) /\ \A key \in DOMAIN axes : key \in Nat
         /\ \A key \in DOMAIN axes :
              /\ axes[key] \in Seq(Nat) /\ DOMAIN axes[key] = 1 .. Len(axes[key])
              /\ Len(axes[key]) \in Nat \ {0} /\ Lens[key] = Len(axes[key])
<1>1. /\ IsFiniteSet(DOMAIN axes) /\ \A key \in DOMAIN axes : key \in Nat
      /\ \A key \in DOMAIN axes : axes[key] \in Seq(Nat) /\ axes[key] # <<>>
  BY TunerAssumption DEF TunerAssumption
<1>2. \A s \in Seq(Nat) : s # <<>> => DOMAIN s = 1 .. Len(s) /\ Len(s) \in Nat \ {0}
  OBVIOUS
<1> QED BY <1>1, <1>2 DEF Lens

\* The size of some axes is the product of their lengths.
LEMMA SizeIsProduct ==
  ASSUME axes \in Axes, NEW keys \in SUBSET DOMAIN axes
  PROVE  \E g : MultipliesUp(g, keys, Lens) /\ Size(keys) = g[keys]
<1> DEFINE One(s) == CHOOSE x \in s : TRUE
           c == [s \in SUBSET keys |-> One(s)]
           Fold(g) == g = [s \in SUBSET keys |-> IF s = {} THEN 1 ELSE Lens[c[s]] * g[s \ {c[s]}]]
           Sized(g) == g = [s \in SUBSET keys |-> IF s = {} THEN 1
                              ELSE g[s \ {One(s)}] * Len(axes[One(s)])]
<1>1. IsFiniteSet(keys) /\ \A key \in keys : Lens[key] \in Nat /\ Lens[key] = Len(axes[key])
  BY AxesFacts, FS_Subset
<1>2. Chooses(c, keys) /\ \A s \in SUBSET keys : c[s] = One(s)
  BY DEF Chooses
<1>3. ASSUME NEW s \in SUBSET keys, s # {}
      PROVE  /\ One(s) \in s /\ One(s) \in keys /\ s \ {One(s)} \in SUBSET keys
             /\ s \ {One(s)} # s /\ Lens[One(s)] \in Nat /\ Lens[One(s)] = Len(axes[One(s)])
  <2>1. One(s) \in s
    BY <1>3
  <2> HIDE DEF One
  <2> QED BY <1>1, <2>1
<1>4. Size(keys) = (CHOOSE g : Sized(g))[keys]
  BY DEF Size, FoldSet, MapThenFoldSet
<1> HIDE DEF c, One
<1>5. (\E g : Fold(g)) /\ \A g : Fold(g) => MultipliesUp(g, keys, Lens)
  BY <1>1, <1>2, FoldMultiplies
<1>6. ASSUME NEW g, \A s \in SUBSET keys : g[s] \in Nat PROVE Fold(g) <=> Sized(g)
  <2>1. \A a, b \in Nat : a * b = b * a
    OBVIOUS
  <2>2. ASSUME NEW s \in SUBSET keys, s # {}
        PROVE  Lens[c[s]] * g[s \ {c[s]}] = g[s \ {One(s)}] * Len(axes[One(s)])
    BY <1>2, <1>3, <1>6, <2>1, <2>2
  <2> QED BY <2>2
<1>7. ASSUME NEW g, Sized(g) PROVE \A s \in SUBSET keys : g[s] \in Nat
  <2> DEFINE NoNumber == {s \in SUBSET keys : g[s] \notin Nat}
  <2>1. \A s \in SUBSET keys : g[s] = IF s = {} THEN 1 ELSE g[s \ {One(s)}] * Len(axes[One(s)])
    BY <1>7
  <2>2. ASSUME NoNumber # {} PROVE FALSE
    <3>1. PICK T \in NoNumber : \A U \in NoNumber : U \subseteq T => U = T
      <4>1. NoNumber \subseteq SUBSET keys
        OBVIOUS
      <4> HIDE DEF NoNumber
      <4> QED BY <1>1, <2>2, <4>1, SmallestSubset
    <3>2. T \in SUBSET keys /\ T # {} /\ g[T] \notin Nat
      <4>1. T \in SUBSET keys /\ g[T] \notin Nat
        OBVIOUS
      <4>2. T = {} => g[T] = 1
        BY <2>1
      <4> QED BY <4>1, <4>2
    <3>3. g[T] = g[T \ {One(T)}] * Len(axes[One(T)])
      BY <2>1, <3>2
    <3>4. g[T \ {One(T)}] \in Nat /\ Len(axes[One(T)]) \in Nat
      BY <1>3, <3>1, <3>2
    <3> QED BY <3>2, <3>3, <3>4
  <2> QED BY <2>2
<1>8. ASSUME NEW g, Fold(g) PROVE \A s \in SUBSET keys : g[s] \in Nat
  BY <1>5, <1>8 DEF MultipliesUp
<1> HIDE DEF Fold, Sized
<1>9. Sized(CHOOSE g : Sized(g)) /\ Fold(CHOOSE g : Sized(g))
  BY <1>5, <1>6, <1>7, <1>8
<1> QED BY <1>4, <1>5, <1>9

\* It is one for no axes, and each axis multiplies it.
LEMMA SizeFacts ==
  ASSUME axes \in Axes, NEW keys \in SUBSET DOMAIN axes
  PROVE  /\ Size(keys) \in Nat \ {0} /\ (keys = {} => Size(keys) = 1)
         /\ \A key \in keys : Size(keys) = Len(axes[key]) * Size(keys \ {key})
<1>1. PICK g : MultipliesUp(g, keys, Lens) /\ Size(keys) = g[keys]
  BY SizeIsProduct
<1>2. IsFiniteSet(keys)
  BY AxesFacts, FS_Subset
<1>3. ASSUME NEW key \in keys PROVE Size(keys) = Len(axes[key]) * Size(keys \ {key})
  <2>1. PICK h : MultipliesUp(h, keys \ {key}, Lens) /\ Size(keys \ {key}) = h[keys \ {key}]
    BY SizeIsProduct
  <2>2. IsFiniteSet(keys \ {key}) /\ keys \ {key} \subseteq keys
    BY <1>2, FS_RemoveElement
  <2>3. h[keys \ {key}] = g[keys \ {key}]
    BY <1>1, <2>1, <2>2, MultipliesUpAgree
  <2>4. g[keys] = Lens[key] * g[keys \ {key}] /\ Lens[key] = Len(axes[key])
    BY <1>1, AxesFacts DEF MultipliesUp
  <2> QED BY <1>1, <2>1, <2>3, <2>4
<1>4. /\ g \in [SUBSET keys -> Nat] /\ g[{}] = 1
      /\ \A s \in SUBSET keys : \A x \in s : g[s] = Lens[x] * g[s \ {x}]
  BY <1>1 DEF MultipliesUp
<1> DEFINE Wrong == {s \in SUBSET keys : g[s] = 0}
<1>5. ASSUME Wrong # {} PROVE FALSE
  <2>1. PICK T \in Wrong : \A U \in Wrong : U \subseteq T => U = T
    <3>1. Wrong \subseteq SUBSET keys
      OBVIOUS
    <3> HIDE DEF Wrong
    <3> QED BY <1>2, <1>5, <3>1, SmallestSubset
  <2>2. T \in SUBSET keys /\ g[T] = 0 /\ T # {}
    <3>1. T \in SUBSET keys /\ g[T] = 0
      OBVIOUS
    <3>2. T = {} => g[T] = 1
      BY <1>4
    <3> QED BY <3>1, <3>2
  <2>3. PICK x \in T : TRUE
    BY <2>2
  <2>4. T \ {x} \in SUBSET keys /\ T \ {x} # T
    BY <2>2
  <2>5. g[T \ {x}] \in Nat /\ g[T \ {x}] # 0 /\ Lens[x] \in Nat \ {0} /\ g[T] = Lens[x] * g[T \ {x}]
    <3>1. Lens[x] \in Nat \ {0}
      BY <2>2, AxesFacts
    <3> QED BY <1>4, <2>1, <2>2, <2>4, <3>1
  <2>6. \A a, b \in Nat \ {0} : a * b # 0
    OBVIOUS
  <2> QED BY <2>2, <2>5, <2>6
<1>6. g[keys] # 0
  BY <1>5
<1> HIDE DEF Wrong
<1> QED BY <1>1, <1>3, <1>4, <1>6

\* The size of some axes divides that of more of them.
LEMMA SizeDivides ==
  ASSUME axes \in Axes, NEW all \in SUBSET DOMAIN axes, NEW some \in SUBSET all
  PROVE  \E q \in Nat : Size(all) = q * Size(some)
<1> DEFINE Divides(keys) == some \subseteq keys => \E q \in Nat : Size(keys) = q * Size(some)
           Wrong == {keys \in SUBSET all : ~Divides(keys)}
<1>1. SUFFICES ASSUME Wrong # {} PROVE FALSE
  OBVIOUS
<1>2. PICK T \in Wrong : \A U \in Wrong : U \subseteq T => U = T
  <2>1. Wrong \subseteq SUBSET all
    OBVIOUS
  <2>2. IsFiniteSet(all)
    BY AxesFacts, FS_Subset
  <2> HIDE DEF Wrong
  <2> QED BY <1>1, <2>1, <2>2, SmallestSubset
<1>3. T \in SUBSET DOMAIN axes /\ some \subseteq T /\ \A q \in Nat : Size(T) # q * Size(some)
  OBVIOUS
<1>4. some \in SUBSET DOMAIN axes /\ Size(some) \in Nat
  BY SizeFacts
<1>5. T # some
  <2>1. Size(some) = 1 * Size(some)
    BY <1>4
  <2> QED BY <1>3, <2>1
<1>6. PICK key \in T : key \notin some
  BY <1>3, <1>5
<1>7. T \ {key} \notin Wrong
  BY <1>2, <1>6
<1>8. T \ {key} \in SUBSET all /\ some \subseteq T \ {key}
  BY <1>3, <1>6
<1>9. PICK q \in Nat : Size(T \ {key}) = q * Size(some)
  BY <1>7, <1>8
<1>10. Size(T) = Len(axes[key]) * Size(T \ {key}) /\ Len(axes[key]) \in Nat
  BY <1>3, AxesFacts, SizeFacts
<1>11. \A a, b, c \in Nat : a * (b * c) = (a * b) * c /\ a * b \in Nat
  OBVIOUS
<1>12. Size(T) = (Len(axes[key]) * q) * Size(some) /\ Len(axes[key]) * q \in Nat
  BY <1>4, <1>9, <1>10, <1>11
<1> QED BY <1>3, <1>12

\* Where the n-th combination stands on an axis
Turn(n, key) == (n \div Size({k \in DOMAIN axes : k > key})) % Len(axes[key])

\* Each way to choose a place on every axis is the turn of some combination.
LEMMA EveryTurn ==
  ASSUME axes \in Axes, NEW place \in [DOMAIN axes -> Nat],
         \A key \in DOMAIN axes : place[key] < Len(axes[key])
  PROVE  \E n \in Nat : n < Size(DOMAIN axes) /\ \A key \in DOMAIN axes : Turn(n, key) = place[key]
<1> DEFINE After(key) == {k \in DOMAIN axes : k > key}
           Upper(keys) == \A key \in keys : After(key) \subseteq keys
           Reached(keys) == \E n \in Nat :
             n < Size(keys) /\ \A key \in keys : Turn(n, key) = place[key]
           Wrong == {keys \in SUBSET DOMAIN axes : Upper(keys) /\ ~Reached(keys)}
<1>1. SUFFICES ASSUME Wrong # {} PROVE FALSE
  <2>1. Upper(DOMAIN axes)
    OBVIOUS
  <2> QED BY <2>1
<1>2. PICK T \in Wrong : \A U \in Wrong : U \subseteq T => U = T
  <2>1. Wrong \subseteq SUBSET DOMAIN axes
    OBVIOUS
  <2>2. IsFiniteSet(DOMAIN axes)
    BY AxesFacts
  <2> HIDE DEF Wrong
  <2> QED BY <1>1, <2>1, <2>2, SmallestSubset
<1>3. T \in SUBSET DOMAIN axes /\ Upper(T) /\ ~Reached(T)
  OBVIOUS
<1> HIDE DEF Wrong, After, Upper, Reached
<1>4. T # {}
  <2>1. Size({}) = 1 /\ 0 < 1 /\ 0 \in Nat
    BY SizeFacts
  <2> QED BY <1>3, <2>1 DEF Reached
<1> DEFINE first == Min(T)
           rest == T \ {first}
<1>5. first \in T /\ \A key \in T : first <= key
  <2>1. IsFiniteSet(T) /\ \A key \in T : key \in Int
    BY <1>3, AxesFacts, FS_Subset
  <2> QED BY <1>4, <2>1, MinFacts
<1> HIDE DEF first
<1>6. first \in DOMAIN axes /\ rest \in SUBSET DOMAIN axes /\ rest # T /\ first \in Nat
      /\ \A key \in DOMAIN axes : key \in Nat
  BY <1>3, <1>5, AxesFacts
<1>7. rest = After(first)
  BY <1>3, <1>5, <1>6 DEF After, Upper
<1>8. Upper(rest) /\ \A key \in rest : After(key) \cup {key} \subseteq rest
  BY <1>6, <1>7 DEF Upper, After
<1>9. PICK m \in Nat : m < Size(rest) /\ \A key \in rest : Turn(m, key) = place[key]
  <2>1. rest \notin Wrong
    BY <1>2, <1>6
  <2> QED BY <1>6, <1>8, <2>1 DEF Wrong, Reached
<1> DEFINE n == place[first] * Size(rest) + m
<1>10. /\ Size(rest) \in Nat \ {0} /\ place[first] \in Nat /\ m \in 0 .. Size(rest) - 1
       /\ Len(axes[first]) \in Nat \ {0} /\ place[first] < Len(axes[first])
       /\ Size(T) = Len(axes[first]) * Size(rest)
  <2>1. Size(rest) \in Nat \ {0} /\ Size(T) = Len(axes[first]) * Size(rest)
    BY <1>3, <1>5, <1>6, SizeFacts
  <2> QED BY <1>6, <1>9, <2>1, AxesFacts
<1> HIDE DEF rest
<1>11. n \in Nat /\ n < Size(T)
  <2>1. (place[first] + 1) * Size(rest) <= Len(axes[first]) * Size(rest)
    BY <1>10, Multiplied
  <2>2. (place[first] + 1) * Size(rest) = place[first] * Size(rest) + Size(rest)
        /\ place[first] * Size(rest) \in Nat
    BY <1>10
  <2> QED BY <1>10, <2>1, <2>2
<1>12. Turn(n, first) = place[first]
  <2>1. n \div Size(rest) = place[first]
    BY <1>10, Quotient
  <2>2. place[first] % Len(axes[first]) = place[first]
    BY <1>10
  <2> QED BY <1>7, <2>1, <2>2 DEF Turn, After
<1>13. ASSUME NEW key \in rest PROVE Turn(n, key) = place[key]
  <2> DEFINE size == Size(After(key))
             len == Len(axes[key])
  <2>1. After(key) \in SUBSET DOMAIN axes /\ key \in DOMAIN axes /\ key \notin After(key)
        /\ After(key) \cup {key} \in SUBSET rest
    BY <1>6, <1>8 DEF After
  <2>2. size \in Nat \ {0} /\ len \in Nat \ {0} /\ Size(After(key) \cup {key}) = len * size
    <3>1. After(key) \cup {key} \in SUBSET DOMAIN axes /\ (After(key) \cup {key}) \ {key} = After(key)
      BY <2>1
    <3>2. Size(After(key) \cup {key}) = len * Size((After(key) \cup {key}) \ {key})
      BY <3>1, SizeFacts
    <3> QED BY <2>1, <3>1, <3>2, AxesFacts, SizeFacts
  <2>3. PICK q \in Nat : Size(rest) = q * Size(After(key) \cup {key})
    BY <1>6, <2>1, SizeDivides
  <2> DEFINE k == place[first] * q
  <2> HIDE DEF size, len
  <2>4. k \in Nat /\ k * len \in Nat /\ place[first] * Size(rest) = (k * len) * size
    <3>1. \A a, b, c, d \in Nat : a * (b * (c * d)) = ((a * b) * c) * d /\ a * b \in Nat
      OBVIOUS
    <3> QED BY <1>10, <2>2, <2>3, <3>1
  <2>5. n \div size = k * len + (m \div size)
    <3>1. n = (k * len) * size + m
      BY <2>4
    <3>2. ((k * len) * size + m) \div size = k * len + (m \div size)
      BY <1>9, <2>2, <2>4, Shifted
    <3> QED BY <3>1, <3>2
  <2>6. (k * len + (m \div size)) % len = (m \div size) % len
    <3>1. m \div size \in Nat
      BY <2>2
    <3> QED BY <2>2, <2>4, <3>1, Shifted
  <2>7. Turn(n, key) = (n \div size) % len /\ Turn(m, key) = (m \div size) % len
    BY DEF Turn, size, len, After
  <2> QED BY <1>9, <2>5, <2>6, <2>7
<1>14. Reached(T)
  <2> HIDE DEF n
  <2> QED BY <1>11, <1>12, <1>13 DEF Reached, rest
<1> QED BY <1>3, <1>14

-----------------------------------------------------------------------------
(* The sweep                                                                *)

\* What the loop takes is on the axes, and as the baseline off them.
LEMMA CandidateIsWanted ==
  ASSUME axes \in Axes, NEW n \in Nat
  PROVE  Candidate(n) \in Wanted
<1> DEFINE All == DOMAIN Baseline \cup DOMAIN axes
           Values == UNION ({Range(Baseline)} \cup {Range(axes[k]) : k \in DOMAIN axes})
<1>1. ASSUME NEW key \in DOMAIN axes PROVE Combination(n)[key] \in Range(axes[key])
  <2>1. {k \in DOMAIN axes : k > key} \in SUBSET DOMAIN axes
    OBVIOUS
  <2>2. Size({k \in DOMAIN axes : k > key}) \in Nat \ {0} /\ Len(axes[key]) \in Nat \ {0}
        /\ DOMAIN axes[key] = 1 .. Len(axes[key])
    BY <2>1, AxesFacts, SizeFacts
  <2>3. \A size, len \in Nat \ {0} : 1 + ((n \div size) % len) \in 1 .. len
    OBVIOUS
  <2>4. Combination(n)[key]
          = axes[key][1 + ((n \div Size({k \in DOMAIN axes : k > key})) % Len(axes[key]))]
    BY DEF Combination
  <2> QED BY <2>2, <2>3, <2>4 DEF Range
<1>2. ASSUME NEW key \in All
      PROVE  /\ key \in DOMAIN axes => Candidate(n)[key] \in Range(axes[key])
             /\ key \notin DOMAIN axes => Candidate(n)[key] = Baseline[key]
             /\ Candidate(n)[key] \in Values
  <2>1. Candidate(n)[key] = IF key \in DOMAIN axes THEN Combination(n)[key] ELSE Baseline[key]
    BY DEF Candidate
  <2>2. CASE key \in DOMAIN axes
    BY <1>1, <2>1, <2>2
  <2>3. CASE key \notin DOMAIN axes
    <3>1. Baseline[key] \in Range(Baseline)
      BY <2>3 DEF Range
    <3> QED BY <2>1, <2>3, <3>1
  <2> QED BY <2>2, <2>3
<1>3. Candidate(n) \in [All -> Values]
  <2>1. Candidate(n) = [key \in All |-> Candidate(n)[key]]
    BY DEF Candidate
  <2> HIDE DEF All, Values
  <2> QED BY <1>2, <2>1
<1> QED BY <1>2, <1>3 DEF Wanted

\* And nothing that is wanted is left out.
LEMMA WantedIsCandidate ==
  ASSUME axes \in Axes, NEW c \in Wanted
  PROVE  \E n \in 0 .. Size(DOMAIN axes) - 1 : c = Candidate(n)
<1> DEFINE All == DOMAIN Baseline \cup DOMAIN axes
           place == [key \in DOMAIN axes |->
                       (CHOOSE i \in DOMAIN axes[key] : axes[key][i] = c[key]) - 1]
<1>1. /\ c = [key \in All |-> c[key]]
      /\ \A key \in DOMAIN axes : c[key] \in Range(axes[key])
      /\ \A key \in All \ DOMAIN axes : c[key] = Baseline[key]
  BY DEF Wanted
<1>2. ASSUME NEW key \in DOMAIN axes
      PROVE  place[key] \in Nat /\ place[key] < Len(axes[key]) /\ axes[key][1 + place[key]] = c[key]
  <2>1. PICK i \in DOMAIN axes[key] : i = (CHOOSE j \in DOMAIN axes[key] : axes[key][j] = c[key])
                                      /\ axes[key][i] = c[key]
    BY <1>1 DEF Range
  <2>2. place[key] = i - 1
    BY <2>1
  <2>3. i \in 1 .. Len(axes[key]) /\ Len(axes[key]) \in Nat
    BY <2>1, AxesFacts
  <2>4. 1 + (i - 1) = i /\ i - 1 \in Nat /\ i - 1 < Len(axes[key])
    BY <2>3
  <2> QED BY <2>1, <2>2, <2>4
<1>3. place \in [DOMAIN axes -> Nat]
  BY <1>2
<1> HIDE DEF place
<1>4. PICK n \in Nat : n < Size(DOMAIN axes) /\ \A key \in DOMAIN axes : Turn(n, key) = place[key]
  BY <1>2, <1>3, EveryTurn
<1>5. ASSUME NEW key \in All PROVE Candidate(n)[key] = c[key]
  <2>1. Candidate(n)[key] = IF key \in DOMAIN axes THEN Combination(n)[key] ELSE Baseline[key]
    BY DEF Candidate
  <2>2. CASE key \in DOMAIN axes
    <3>1. Combination(n)[key] = axes[key][1 + Turn(n, key)]
      BY <2>2 DEF Combination, Turn
    <3> QED BY <1>2, <1>4, <2>1, <2>2, <3>1
  <2> QED BY <1>1, <2>1, <2>2
<1>6. Candidate(n) = [key \in All |-> Candidate(n)[key]]
  BY DEF Candidate
<1>7. c = Candidate(n)
  BY <1>1, <1>5, <1>6
<1>8. n \in 0 .. Size(DOMAIN axes) - 1
  <2>1. Size(DOMAIN axes) \in Nat
    BY SizeFacts
  <2> QED BY <1>4, <2>1
<1> QED BY <1>7, <1>8

\* The loop has each combination it took among its candidates, and there once.
SweepOK ==
  /\ axes \in Axes /\ next \in Nat /\ next <= Size(DOMAIN axes)
  /\ candidates \in Seq(Wanted) /\ IsInjective(candidates) /\ Len(candidates) <= MaxTrials
  /\ Range(candidates) = {Candidate(n) : n \in 0 .. next - 1}

LEMMA SweepBegins ==
  ASSUME SweepInit
  PROVE  SweepOK
<1>1. axes \in Axes /\ next = 0 /\ candidates = <<>>
  BY DEF SweepInit
<1>2. Size(DOMAIN axes) \in Nat
  BY <1>1, SizeFacts
<1>3. 0 .. next - 1 = {} /\ DOMAIN candidates = {} /\ Len(candidates) = 0
  BY <1>1
<1>4. Range(candidates) = {} /\ IsInjective(candidates) /\ candidates \in Seq(Wanted)
  BY <1>1, <1>3 DEF Range, IsInjective
<1>5. MaxTrials \in Nat
  BY TunerAssumption DEF TunerAssumption
<1> QED BY <1>1, <1>2, <1>3, <1>4, <1>5 DEF SweepOK

\* Nothing else changes the sweep.
LEMMA SweepStays ==
  ASSUME SweepOK, UNCHANGED sweepVars
  PROVE  SweepOK'
<1>1. axes' = axes /\ next' = next /\ candidates' = candidates
  BY DEF sweepVars
<1>2. Size(DOMAIN axes)' = Size(DOMAIN axes) /\ Wanted' = Wanted
  BY <1>1 DEF Size, FoldSet, MapThenFoldSet, Wanted
<1>3. ASSUME NEW n \in 0 .. next - 1 PROVE Candidate(n)' = Candidate(n)
  BY <1>1 DEF Candidate, Combination, Size, FoldSet, MapThenFoldSet
<1> QED BY <1>1, <1>2, <1>3 DEF SweepOK

\* One iteration of the loop
LEMMA GenerateKeeps ==
  ASSUME SweepOK, Generate
  PROVE  SweepOK'
<1> DEFINE c == Candidate(next)
           Reached(n) == {Candidate(m) : m \in 0 .. n - 1}
<1>1. /\ axes \in Axes /\ next \in Nat /\ next <= Size(DOMAIN axes) /\ Size(DOMAIN axes) \in Nat
      /\ candidates \in Seq(Wanted) /\ IsInjective(candidates) /\ Len(candidates) <= MaxTrials
      /\ Range(candidates) = Reached(next)
  BY SizeFacts DEF SweepOK
<1>2. /\ axes' = axes /\ next' = next + 1
      /\ next # Size(DOMAIN axes) /\ ~(Len(candidates) >= MaxTrials)
      /\ candidates' = IF Contains(candidates, c) THEN candidates ELSE Append(candidates, c)
  BY DEF Generate, SweepDone
<1>3. Size(DOMAIN axes)' = Size(DOMAIN axes) /\ Wanted' = Wanted
  BY <1>2 DEF Size, FoldSet, MapThenFoldSet, Wanted
<1>4. ASSUME NEW n \in 0 .. next PROVE Candidate(n)' = Candidate(n)
  BY <1>2 DEF Candidate, Combination, Size, FoldSet, MapThenFoldSet
<1>5. next' \in Nat /\ next' <= Size(DOMAIN axes) /\ 0 .. next' - 1 = (0 .. next - 1) \cup {next}
  BY <1>1, <1>2
<1>6. Reached(next)' = Reached(next) \cup {c}
  <2>1. \A m \in 0 .. next' - 1 : Candidate(m)' = Candidate(m)
    <3>1. 0 .. next' - 1 = 0 .. next
      BY <1>1, <1>2
    <3> QED BY <1>4, <3>1
  <2>2. Reached(next)' = {Candidate(m) : m \in 0 .. next' - 1}
    BY <2>1
  <2> QED BY <1>5, <2>2
<1>7. c \in Wanted
  BY <1>1, CandidateIsWanted
<1> HIDE DEF c, Reached
<1>8. MaxTrials \in Nat /\ Len(candidates) \in Nat /\ DOMAIN candidates = 1 .. Len(candidates)
  BY <1>1, TunerAssumption DEF TunerAssumption
<1>9. CASE Contains(candidates, c)
  <2>1. candidates' = candidates /\ c \in Range(candidates)
    BY <1>2, <1>8, <1>9 DEF Contains, Range
  <2>2. Reached(next)' = Reached(next)
    BY <1>1, <1>6, <2>1
  <2> QED BY <1>1, <1>2, <1>3, <1>5, <2>1, <2>2 DEF SweepOK, Reached
<1>10. CASE ~Contains(candidates, c)
  <2> DEFINE more == Append(candidates, c)
             len == Len(candidates)
  <2>1. /\ candidates' = more /\ more \in Seq(Wanted) /\ Len(more) = len + 1
        /\ DOMAIN more = DOMAIN candidates \cup {len + 1} /\ more[len + 1] = c
        /\ \A i \in DOMAIN candidates : more[i] = candidates[i]
    BY <1>1, <1>2, <1>7, <1>8, <1>10
  <2>2. \A i \in DOMAIN candidates : candidates[i] # c
    BY <1>8, <1>10 DEF Contains
  <2> HIDE DEF more
  <2>3. IsInjective(more)
    BY <1>1, <2>1, <2>2 DEF IsInjective
  <2>4. Range(more) = Range(candidates) \cup {c}
    BY <2>1 DEF Range
  <2>5. Len(more) <= MaxTrials
    BY <1>1, <1>2, <1>8, <2>1
  <2>6. Range(more) = Reached(next)'
    BY <1>1, <1>6, <2>4
  <2> QED BY <1>1, <1>2, <1>3, <1>5, <2>1, <2>3, <2>5, <2>6 DEF SweepOK, Reached
<1> QED BY <1>9, <1>10

\* THEOREM: the loop has what it took, whatever the runs of the trials do.
THEOREM SweepInvariant == Spec => []SweepOK
<1>1. Init => SweepOK
  BY SweepBegins DEF Init
<1>2. SweepOK /\ [Next]_vars => SweepOK'
  <2> SUFFICES ASSUME SweepOK, [Next]_vars PROVE SweepOK'
    OBVIOUS
  <2>1. CASE Sweeps
    BY <2>1, GenerateKeeps DEF Sweeps
  <2>2. CASE UNCHANGED sweepVars
    BY <2>2, SweepStays
  <2>3. ASSUME Trains \/ Measured \/ Breaks \/ Selects \/ UNCHANGED vars PROVE UNCHANGED sweepVars
    BY <2>3 DEF Trains, Measured, Breaks, Ends, Selects, vars
  <2> QED BY <2>1, <2>2, <2>3 DEF Next
<1> QED BY <1>1, <1>2, PTL DEF Spec

\* A sequence that repeats nothing is as long as what it holds is large.
LEMMA InjectiveLength ==
  ASSUME NEW T, NEW s \in Seq(T), IsInjective(s)
  PROVE  IsFiniteSet(Range(s)) /\ Cardinality(Range(s)) = Len(s)
<1>1. Len(s) \in Nat /\ DOMAIN s = 1 .. Len(s) /\ s = [i \in 1 .. Len(s) |-> s[i]]
  OBVIOUS
<1>2. \A n \in Nat : Cardinality(1 .. n) = n /\ IsFiniteSet(1 .. n)
  BY FS_Interval
<1>3. s \in Surjection(1 .. Len(s), Range(s)) /\ s \in Injection(1 .. Len(s), Range(s))
  BY <1>1 DEF Surjection, Injection, IsInjective, Range
<1>4. /\ IsFiniteSet(Range(s))
      /\ Cardinality(Range(s)) = Cardinality(1 .. Len(s)) <=> s \in Injection(1 .. Len(s), Range(s))
  BY <1>1, <1>2, <1>3, FS_Surjection
<1> QED BY <1>1, <1>2, <1>3, <1>4

\* A sweep holds no more than there is to sweep, and all of it when the loop is through.
LEMMA SweepHolds ==
  ASSUME SweepOK
  PROVE  SweepIsComplete
<1>1. /\ axes \in Axes /\ candidates \in Seq(Wanted) /\ IsInjective(candidates)
      /\ Len(candidates) <= MaxTrials /\ Len(candidates) \in Nat /\ MaxTrials \in Nat
      /\ Range(candidates) = {Candidate(n) : n \in 0 .. next - 1}
  BY TunerAssumption DEF SweepOK, TunerAssumption
<1>2. Range(candidates) \subseteq Wanted
  <2>1. \A i \in DOMAIN candidates : candidates[i] \in Wanted
    BY <1>1
  <2> QED BY <2>1 DEF Range
<1>3. Cardinality(Range(candidates)) = Len(candidates)
  BY <1>1, InjectiveLength
<1> DEFINE all == 0 .. Size(DOMAIN axes) - 1
           taken == [n \in all |-> Candidate(n)]
<1>4. IsFiniteSet(Wanted)
  <2>1. IsFiniteSet(all) /\ \A n \in all : n \in Nat
    <3>1. Size(DOMAIN axes) \in Nat
      BY <1>1, SizeFacts
    <3> QED BY <3>1, FS_Interval
  <2>2. taken \in [all -> Wanted]
    BY <1>1, <2>1, CandidateIsWanted
  <2>3. \A c \in Wanted : \E n \in all : taken[n] = c
    BY <1>1, WantedIsCandidate
  <2> HIDE DEF all, taken
  <2>4. taken \in Surjection(all, Wanted)
    BY <2>2, <2>3 DEF Surjection
  <2> QED BY <2>1, <2>4, FS_Surjection
<1>5. Cardinality(Wanted) \in Nat /\ Len(candidates) <= Cardinality(Wanted)
  BY <1>2, <1>3, <1>4, FS_Subset, FS_CardinalityType
<1>6. ASSUME next = Size(DOMAIN axes) PROVE Len(candidates) = Cardinality(Wanted)
  <2>1. Wanted \subseteq Range(candidates)
    BY <1>1, <1>6, WantedIsCandidate
  <2> QED BY <1>2, <1>3, <2>1
<1> HIDE DEF all, taken
<1>7. SweepDone =>
        Len(candidates) = IF Cardinality(Wanted) < MaxTrials THEN Cardinality(Wanted) ELSE MaxTrials
  BY <1>1, <1>5, <1>6 DEF SweepDone
<1> QED BY <1>1, <1>2, <1>7 DEF SweepIsComplete

\* THEOREM: for any axes, a sweep that is through has every combination of them once,
\* or as many different ones as it may have (generate_sweep()).
THEOREM SweepComplete == Spec => []SweepIsComplete
<1>1. SweepOK => SweepIsComplete
  BY SweepHolds
<1> QED BY <1>1, SweepInvariant, PTL

-----------------------------------------------------------------------------
(* The order of the trials                                                  *)

\* Ratios are compared by what they make crosswise.
LEMMA Crosswise ==
  ASSUME NEW a \in Nat, NEW b \in Nat, NEW c \in Nat,
         NEW p \in Nat \ {0}, NEW q \in Nat \ {0}, NEW r \in Nat \ {0},
         b * p <= a * q, c * q <= b * r
  PROVE  /\ c * p <= a * r
         /\ b * p < a * q \/ c * q < b * r => c * p < a * r
<1> DEFINE left == a * r
           right == c * p
<1>1. left \in Nat /\ right \in Nat /\ a * q \in Nat /\ b * p \in Nat /\ b * r \in Nat /\ c * q \in Nat
  OBVIOUS
<1>2. (a * q) * r = left * q /\ (b * p) * r = (b * r) * p /\ (c * q) * p = right * q
  <2>1. \A x, y, z \in Nat : (x * y) * z = (x * z) * y
    OBVIOUS
  <2> QED BY <2>1
<1>3. (b * p) * r <= (a * q) * r /\ (c * q) * p <= (b * r) * p
  BY <1>1, Multiplied
<1>4. /\ b * p < a * q => (b * p) * r + r <= (a * q) * r
      /\ c * q < b * r => (c * q) * p + p <= (b * r) * p
  <2>1. ASSUME NEW x \in Nat, NEW y \in Nat, NEW z \in Nat, x < y PROVE x * z + z <= y * z
    <3>1. (x + 1) * z <= y * z
      BY <2>1, Multiplied
    <3>2. (x + 1) * z = x * z + z
      OBVIOUS
    <3> QED BY <3>1, <3>2
  <2>2. p \in Nat /\ r \in Nat
    OBVIOUS
  <2> QED BY <1>1, <2>1, <2>2
<1>5. /\ (b * p) * r \in Nat /\ (b * r) * p \in Nat /\ (a * q) * r \in Nat /\ (c * q) * p \in Nat
  BY <1>1
<1> HIDE DEF left, right
<1>6. left * q \in Nat /\ right * q \in Nat /\ right * q <= left * q
  BY <1>1, <1>2, <1>3, <1>5
<1>7. b * p < a * q \/ c * q < b * r => right * q < left * q
  <2> DEFINE x == (b * p) * r
             y == (a * q) * r
             z == (b * r) * p
             w == (c * q) * p
  <2>1. /\ x \in Nat /\ y \in Nat /\ w \in Nat
        /\ y = left * q /\ x = z /\ w = right * q /\ x <= y /\ w <= z
        /\ b * p < a * q => x + r <= y
        /\ c * q < b * r => w + p <= z
    BY <1>2, <1>3, <1>4, <1>5
  <2> HIDE DEF x, y, z, w
  <2> QED BY <2>1
<1>8. left < right => left * q + q <= right * q
  <2>1. ASSUME left < right PROVE (left + 1) * q <= right * q
    BY <1>1, <2>1, Multiplied
  <2>2. (left + 1) * q = left * q + q
    BY <1>1
  <2> QED BY <2>1, <2>2
<1>9. left <= right => left * q <= right * q
  BY <1>1, Multiplied
<1>10. right <= left /\ (right * q < left * q => right < left)
  BY <1>1, <1>6, <1>8, <1>9
<1> QED BY <1>7, <1>10 DEF left, right

\* Two configurations with the same keys differ at a first key.
LEMMA JsonOrder ==
  ASSUME NEW keys, IsFiniteSet(keys), \A key \in keys : key \in Nat,
         NEW c \in [keys -> Nat], NEW d \in [keys -> Nat], NEW e \in [keys -> Nat]
  PROVE  /\ ~JsonAfter(c, c)
         /\ c # d => JsonAfter(c, d) \/ JsonAfter(d, c)
         /\ JsonAfter(c, d) /\ JsonAfter(d, e) => JsonAfter(c, e)
<1>1. ~JsonAfter(c, c)
  BY DEF JsonAfter
<1>2. ASSUME c # d PROVE JsonAfter(c, d) \/ JsonAfter(d, c)
  <2> DEFINE Differ == {key \in keys : c[key] # d[key]}
             first == Min(Differ)
  <2>1. Differ # {}
    BY <1>2
  <2>2. IsFiniteSet(Differ) /\ \A key \in Differ : key \in Int
    BY FS_Subset
  <2>3. first \in Differ /\ \A key \in Differ : first <= key
    <3> HIDE DEF Differ
    <3> QED BY <2>1, <2>2, MinFacts
  <2> HIDE DEF first
  <2>4. \A key \in keys : key < first => c[key] = d[key]
    BY <2>3
  <2>5. c[first] > d[first] \/ d[first] > c[first]
    BY <2>3
  <2> QED BY <2>3, <2>4, <2>5 DEF JsonAfter
<1>3. ASSUME JsonAfter(c, d), JsonAfter(d, e) PROVE JsonAfter(c, e)
  <2>1. PICK m \in keys : c[m] > d[m] /\ \A k \in keys : k < m => c[k] = d[k]
    BY <1>3 DEF JsonAfter
  <2>2. PICK n \in keys : d[n] > e[n] /\ \A k \in keys : k < n => d[k] = e[k]
    BY <1>3 DEF JsonAfter
  <2>3. CASE m < n
    <3>1. c[m] > e[m] /\ \A k \in keys : k < m => c[k] = e[k]
      BY <2>1, <2>2, <2>3
    <3> QED BY <3>1 DEF JsonAfter
  <2>4. CASE m = n
    <3>1. c[m] > e[m] /\ \A k \in keys : k < m => c[k] = e[k]
      BY <2>1, <2>2, <2>4
    <3> QED BY <3>1 DEF JsonAfter
  <2>5. CASE n < m
    <3>1. c[n] > e[n] /\ \A k \in keys : k < n => c[k] = e[k]
      BY <2>1, <2>2, <2>5
    <3> QED BY <3>1 DEF JsonAfter
  <2> QED BY <2>3, <2>4, <2>5
<1> QED BY <1>1, <1>2, <1>3

\* A trial as select_training_trial() accepts it
Timed(keys) == {t \in TrialsOf(keys) : t.throughput.time > 0}

\* Trials with different configurations are ordered, whatever was measured of them.
LEMMA OutranksOrders ==
  ASSUME NEW keys, IsFiniteSet(keys), \A key \in keys : key \in Nat,
         NEW a \in Timed(keys), NEW b \in Timed(keys), NEW c \in Timed(keys)
  PROVE  /\ ~Outranks(a, a)
         /\ a.config # b.config => Outranks(a, b) \/ Outranks(b, a)
         /\ Outranks(a, b) /\ Outranks(b, c) => Outranks(a, c)
<1>1. /\ \A t \in {a, b, c} :
           /\ t.config \in [keys -> Nat] /\ t.p95 \in Nat /\ t.headroom \in Int
           /\ t.throughput.samples \in Nat /\ t.throughput.time \in Nat \ {0}
  BY DEF Timed, TrialsOf
<1>2. ASSUME NEW t \in {a, b, c}, NEW u \in {a, b, c}
      PROVE  /\ t.throughput.samples * u.throughput.time \in Nat
             /\ Faster(t, u) => ~Faster(u, t)
             /\ ~JsonAfter(t.config, t.config)
             /\ t.config # u.config => JsonAfter(t.config, u.config) \/ JsonAfter(u.config, t.config)
  <2>1. /\ t.throughput.samples * u.throughput.time \in Nat
        /\ u.throughput.samples * t.throughput.time \in Nat
    BY <1>1
  <2> QED BY <1>1, <2>1, JsonOrder DEF Faster
<1>3. ~Faster(a, a)
  BY <1>2
<1>4. /\ ~Faster(b, a) /\ ~Faster(c, b) => ~Faster(c, a)
      /\ ~Faster(b, a) /\ ~Faster(c, b) /\ (Faster(a, b) \/ Faster(b, c)) => Faster(a, c)
  <2> DEFINE x == a.throughput.samples
             y == b.throughput.samples
             z == c.throughput.samples
             p == a.throughput.time
             q == b.throughput.time
             r == c.throughput.time
  <2>1. x \in Nat /\ y \in Nat /\ z \in Nat /\ p \in Nat \ {0} /\ q \in Nat \ {0} /\ r \in Nat \ {0}
    BY <1>1
  <2>2. /\ Faster(b, a) <=> y * p > x * q
        /\ Faster(a, b) <=> x * q > y * p
        /\ Faster(c, b) <=> z * q > y * r
        /\ Faster(b, c) <=> y * r > z * q
        /\ Faster(c, a) <=> z * p > x * r
        /\ Faster(a, c) <=> x * r > z * p
    BY DEF Faster
  <2> HIDE DEF x, y, z, p, q, r
  <2>3. /\ x * q \in Nat /\ y * p \in Nat /\ z * q \in Nat
        /\ y * r \in Nat /\ z * p \in Nat /\ x * r \in Nat
    BY <2>1
  <2>4. y * p <= x * q /\ z * q <= y * r =>
          /\ z * p <= x * r
          /\ y * p < x * q \/ z * q < y * r => z * p < x * r
    BY <2>1, Crosswise
  <2> QED BY <2>2, <2>3, <2>4
<1>5. JsonAfter(a.config, b.config) /\ JsonAfter(b.config, c.config) => JsonAfter(a.config, c.config)
  BY <1>1, JsonOrder
<1>6. ~Outranks(a, a)
  BY <1>1, <1>2, <1>3 DEF Outranks
<1>7. ASSUME a.config # b.config PROVE Outranks(a, b) \/ Outranks(b, a)
  <2>1. CASE Faster(a, b) \/ Faster(b, a)
    BY <2>1 DEF Outranks
  <2>2. CASE ~Faster(a, b) /\ ~Faster(b, a)
    <3>1. a.p95 < b.p95 \/ b.p95 < a.p95 \/ a.p95 = b.p95
      BY <1>1
    <3>2. a.headroom > b.headroom \/ b.headroom > a.headroom \/ a.headroom = b.headroom
      BY <1>1
    <3>3. JsonAfter(a.config, b.config) \/ JsonAfter(b.config, a.config)
      BY <1>2, <1>7
    <3> QED BY <2>2, <3>1, <3>2, <3>3 DEF Outranks
  <2> QED BY <2>1, <2>2
<1>8. Outranks(a, b) /\ Outranks(b, c) => Outranks(a, c)
  BY <1>1, <1>2, <1>4, <1>5 DEF Outranks
<1> QED BY <1>6, <1>7, <1>8

-----------------------------------------------------------------------------
(* The decision                                                             *)

\* What select_training_trial() is given: trials of different configurations
Comparable(list, keys) ==
  /\ list \in Seq(Timed(keys))
  /\ \A i, j \in DOMAIN list : list[i].config = list[j].config => i = j

Best(list) ==
  LET eligible == Indices(list, "eligible")
  IN  {i \in eligible : \A j \in eligible : ~Outranks(list[j], list[i])}

\* Of the eligible trials one outranks all the others.
LEMMA BestIsOne ==
  ASSUME NEW keys, IsFiniteSet(keys), \A key \in keys : key \in Nat,
         NEW list, Comparable(list, keys), Indices(list, "eligible") # {}
  PROVE  \E b \in Indices(list, "eligible") : Best(list) = {b} /\ Decision(list).selected = list[b]
<1> DEFINE E == Indices(list, "eligible")
           Ahead == [i \in E |-> {j \in E : Outranks(list[j], list[i])}]
<1>1. /\ Len(list) \in Nat /\ DOMAIN list = 1 .. Len(list) /\ E \subseteq 1 .. Len(list)
      /\ \A i \in E : list[i] \in Timed(keys)
  BY DEF Comparable, Indices
<1>2. IsFiniteSet(E) /\ \A i \in E : i \in Int
  <2>1. IsFiniteSet(1 .. Len(list)) /\ E \in SUBSET (1 .. Len(list))
    BY <1>1, FS_Interval
  <2> HIDE DEF E
  <2>2. IsFiniteSet(E)
    BY <2>1, FS_Subset
  <2> QED BY <1>1, <2>1, <2>2
<1>3. \A i, j, k \in E :
        /\ ~Outranks(list[i], list[i])
        /\ i # j => Outranks(list[i], list[j]) \/ Outranks(list[j], list[i])
        /\ Outranks(list[i], list[j]) /\ Outranks(list[j], list[k]) => Outranks(list[i], list[k])
  <2>1. \A i, j \in E : i # j => list[i].config # list[j].config
    BY <1>1 DEF Comparable
  <2> HIDE DEF E
  <2> QED BY <1>1, <2>1, OutranksOrders
<1>4. Ahead \in [E -> SUBSET E]
  OBVIOUS
<1>5. PICK b \in E : \A i \in E : Ahead[i] \subseteq Ahead[b] => Ahead[i] = Ahead[b]
  <2> HIDE DEF Ahead, E
  <2> QED BY <1>2, <1>4, SmallestImage DEF E
<1>6. \A j \in E : ~Outranks(list[j], list[b])
  <2>1. SUFFICES ASSUME NEW j \in E, Outranks(list[j], list[b]) PROVE FALSE
    OBVIOUS
  <2>2. Ahead[j] \subseteq Ahead[b] /\ j \in Ahead[b] /\ j \notin Ahead[j]
    BY <1>3, <2>1
  <2> QED BY <1>5, <2>2
<1>7. Best(list) = {b}
  BY <1>3, <1>6 DEF Best
<1>8. Min({b}) = b
  <2>1. b \in Int
    BY <1>2
  <2>2. Min({b}) \in {b}
    BY <2>1, FS_Singleton, MinFacts
  <2> QED BY <2>2
<1>9. Decision(list).selected = list[Min(Best(list))]
  BY DEF Decision, Best
<1> QED BY <1>7, <1>8, <1>9

\* The verdicts on the trials are as many as these.
LEMMA VerdictsAddUp ==
  ASSUME NEW list, Len(list) \in Nat
  PROVE  /\ Cardinality(Indices(list, "eligible")) + Cardinality(Indices(list, "status"))
              + Cardinality(Indices(list, "memory")) + Cardinality(Indices(list, "latency")) = Len(list)
         /\ \A verdict \in {"eligible", "status", "memory", "latency"} :
              Cardinality(Indices(list, verdict)) \in Nat
<1> DEFINE A == Indices(list, "eligible")
           B == Indices(list, "status")
           C == Indices(list, "memory")
           D == Indices(list, "latency")
<1>1. \A trial : Verdict(trial) \in {"eligible", "status", "memory", "latency"}
  BY DEF Verdict
<1>2. A \cup B \cup C \cup D = 1 .. Len(list)
  BY <1>1 DEF Indices
<1>3. A \cap B = {} /\ (A \cup B) \cap C = {} /\ (A \cup B \cup C) \cap D = {}
  BY DEF Indices
<1>4. IsFiniteSet(1 .. Len(list)) /\ Cardinality(1 .. Len(list)) = Len(list)
  BY FS_Interval
<1> HIDE DEF A, B, C, D
<1>5. IsFiniteSet(A) /\ IsFiniteSet(B) /\ IsFiniteSet(C) /\ IsFiniteSet(D)
  BY <1>2, <1>4, FS_Subset
<1>6. /\ Cardinality(A) \in Nat /\ Cardinality(B) \in Nat
      /\ Cardinality(C) \in Nat /\ Cardinality(D) \in Nat
  BY <1>5, FS_CardinalityType
<1>7. Cardinality({}) = 0
  BY FS_EmptySet
<1>8. IsFiniteSet(A \cup B) /\ Cardinality(A \cup B) = Cardinality(A) + Cardinality(B)
  <2>1. Cardinality(A \cup B) = Cardinality(A) + Cardinality(B) - Cardinality(A \cap B)
    BY <1>5, FS_Union
  <2>2. Cardinality(A \cap B) = 0
    BY <1>3, <1>7
  <2> QED BY <1>5, <1>6, <2>1, <2>2, FS_Union
<1>9. /\ IsFiniteSet(A \cup B \cup C)
      /\ Cardinality(A \cup B \cup C) = Cardinality(A \cup B) + Cardinality(C)
  <2>1. Cardinality((A \cup B) \cup C)
          = Cardinality(A \cup B) + Cardinality(C) - Cardinality((A \cup B) \cap C)
    BY <1>5, <1>8, FS_Union
  <2>2. Cardinality((A \cup B) \cap C) = 0
    BY <1>3, <1>7
  <2> QED BY <1>5, <1>6, <1>8, <2>1, <2>2, FS_Union
<1>10. Cardinality(A \cup B \cup C \cup D) = Cardinality(A \cup B \cup C) + Cardinality(D)
  <2>1. Cardinality((A \cup B \cup C) \cup D)
          = Cardinality(A \cup B \cup C) + Cardinality(D) - Cardinality((A \cup B \cup C) \cap D)
    BY <1>5, <1>9, FS_Union
  <2>2. Cardinality((A \cup B \cup C) \cap D) = 0
    BY <1>3, <1>7
  <2> QED BY <1>6, <1>8, <1>9, <2>1, <2>2
<1>11. Cardinality(A) + Cardinality(B) + Cardinality(C) + Cardinality(D) = Len(list)
  <2>1. Cardinality(A \cup B \cup C \cup D) = Len(list)
    BY <1>2, <1>4
  <2> QED BY <1>6, <1>8, <1>9, <1>10, <2>1
<1> QED BY <1>6, <1>11 DEF A, B, C, D

\* In the other order the places are others, and as many of each verdict.
LEMMA ReversedIndices ==
  ASSUME NEW T, NEW list \in Seq(T)
  PROVE  /\ Reverse(list) \in Seq(T) /\ Len(Reverse(list)) = Len(list) /\ Len(list) \in Nat
         /\ \A i \in 1 .. Len(list) :
              /\ (Len(list) - i) + 1 \in 1 .. Len(list)
              /\ (Len(list) - ((Len(list) - i) + 1)) + 1 = i
              /\ Reverse(list)[i] = list[(Len(list) - i) + 1]
         /\ \A verdict :
              /\ \A i \in 1 .. Len(list) :
                   i \in Indices(Reverse(list), verdict)
                     <=> (Len(list) - i) + 1 \in Indices(list, verdict)
              /\ Cardinality(Indices(Reverse(list), verdict)) = Cardinality(Indices(list, verdict))
<1> DEFINE n == Len(list)
           back == Reverse(list)
           mirror(i) == (n - i) + 1
<1>1. n \in Nat /\ \A i \in 1 .. n : list[i] \in T
  OBVIOUS
<1>2. \A i \in 1 .. n : mirror(i) \in 1 .. n /\ mirror(mirror(i)) = i
  BY <1>1
<1>3. back = [i \in 1 .. n |-> list[mirror(i)]]
  BY DEF Reverse
<1> HIDE DEF mirror
<1>4. back \in Seq(T) /\ Len(back) = n /\ \A i \in 1 .. n : back[i] = list[mirror(i)]
  BY <1>1, <1>2, <1>3
<1> HIDE DEF back, n
<1>5. ASSUME NEW verdict
      PROVE  /\ \A i \in 1 .. n : i \in Indices(back, verdict) <=> mirror(i) \in Indices(list, verdict)
             /\ Cardinality(Indices(back, verdict)) = Cardinality(Indices(list, verdict))
  <2> DEFINE A == Indices(list, verdict)
             B == Indices(back, verdict)
             f == [i \in A |-> mirror(i)]
  <2>1. A \subseteq 1 .. n /\ B \subseteq 1 .. n
    BY <1>4 DEF Indices, n
  <2>2. \A i \in 1 .. n : i \in B <=> mirror(i) \in A
    BY <1>2, <1>4 DEF Indices, n
  <2>3. IsFiniteSet(A)
    <3>1. IsFiniteSet(1 .. n) /\ A \in SUBSET (1 .. n)
      BY <1>1, <2>1, FS_Interval
    <3> HIDE DEF A
    <3> QED BY <3>1, FS_Subset
  <2> HIDE DEF A, B
  <2>4. f \in [A -> B] /\ (\A i, j \in A : f[i] = f[j] => i = j) /\ \A j \in B : \E i \in A : f[i] = j
    <3>1. \A i \in A : mirror(i) \in B
      BY <1>2, <2>1, <2>2
    <3>2. \A j \in B : mirror(j) \in A /\ f[mirror(j)] = j
      BY <1>2, <2>1, <2>2
    <3> QED BY <1>2, <2>1, <3>1, <3>2
  <2>5. f \in Bijection(A, B)
    <3> HIDE DEF f
    <3> QED BY <2>4 DEF Bijection, Injection, Surjection, IsInjective
  <2>6. Cardinality(B) = Cardinality(A)
    <3>1. ExistsBijection(A, B)
      BY <2>5 DEF ExistsBijection
    <3> QED BY <2>3, <3>1, FS_Bijection
  <2> QED BY <2>2, <2>6 DEF A, B
<1> QED BY <1>1, <1>2, <1>4, <1>5 DEF n, back, mirror

\* The decision does not depend on the order of the trials.
LEMMA DecisionReversed ==
  ASSUME NEW keys, IsFiniteSet(keys), \A key \in keys : key \in Nat,
         NEW list, Comparable(list, keys)
  PROVE  Decision(Reverse(list)) = Decision(list)
<1> DEFINE back == Reverse(list)
           n == Len(list)
           mirror(i) == (n - i) + 1
           E == Indices(list, "eligible")
<1>1. list \in Seq(Timed(keys)) /\ DOMAIN list = 1 .. n
  BY DEF Comparable
<1>2. /\ back \in Seq(Timed(keys)) /\ Len(back) = n /\ n \in Nat
      /\ \A i \in 1 .. n : mirror(i) \in 1 .. n /\ mirror(mirror(i)) = i /\ back[i] = list[mirror(i)]
      /\ \A i \in 1 .. n : i \in Indices(back, "eligible") <=> mirror(i) \in E
      /\ \A verdict : Cardinality(Indices(back, verdict)) = Cardinality(Indices(list, verdict))
  BY <1>1, ReversedIndices
<1> HIDE DEF back, mirror
<1>3. Comparable(back, keys)
  <2>1. DOMAIN back = 1 .. n
    BY <1>2
  <2>2. ASSUME NEW i \in 1 .. n, NEW j \in 1 .. n, back[i].config = back[j].config PROVE i = j
    <3>1. mirror(i) = mirror(j)
      BY <1>1, <1>2, <2>2 DEF Comparable
    <3> QED BY <1>2, <3>1
  <2> QED BY <1>2, <2>1, <2>2 DEF Comparable
<1>4. E \subseteq 1 .. n /\ Indices(back, "eligible") \subseteq 1 .. n
  BY <1>2 DEF Indices
<1>5. Decision(back).selected = Decision(list).selected
  <2>1. CASE E = {}
    <3>1. Indices(back, "eligible") = {}
      BY <1>2, <1>4, <2>1
    <3> QED BY <2>1, <3>1 DEF Decision
  <2>2. CASE E # {}
    <3>1. PICK b \in E : Best(list) = {b} /\ Decision(list).selected = list[b]
      BY <2>2, BestIsOne
    <3>2. Indices(back, "eligible") # {}
      <4>1. mirror(b) \in Indices(back, "eligible")
        BY <1>2, <1>4, <3>1
      <4> QED BY <4>1
    <3>3. PICK c \in Indices(back, "eligible") : Best(back) = {c} /\ Decision(back).selected = back[c]
      BY <1>3, <3>2, BestIsOne
    <3>4. mirror(c) \in E /\ back[c] = list[mirror(c)] /\ c \in 1 .. n
      BY <1>2, <1>4, <3>3
    <3>5. mirror(c) \in Best(list)
      <4>1. ASSUME NEW j \in E, Outranks(list[j], list[mirror(c)]) PROVE FALSE
        <5>1. mirror(j) \in Indices(back, "eligible") /\ back[mirror(j)] = list[j]
          BY <1>2, <1>4, <4>1
        <5>2. Outranks(back[mirror(j)], back[c])
          BY <3>4, <4>1, <5>1
        <5>3. c \in Best(back)
          BY <3>3
        <5> QED BY <5>1, <5>2, <5>3 DEF Best
      <4> QED BY <3>4, <4>1 DEF Best
    <3>6. mirror(c) = b
      BY <3>1, <3>5
    <3> QED BY <3>1, <3>3, <3>4, <3>6
  <2> QED BY <2>1, <2>2
<1>6. \A any : Decision(any) = [selected |-> Decision(any).selected,
         eligible |-> Cardinality(Indices(any, "eligible")),
         status |-> Cardinality(Indices(any, "status")),
         memory |-> Cardinality(Indices(any, "memory")),
         latency |-> Cardinality(Indices(any, "latency"))]
  BY DEF Decision
<1>7. Decision(back) = Decision(list)
  BY <1>2, <1>5, <1>6
<1> QED BY <1>7 DEF back

\* The trials are of the sweep, in its order; what was measured of one is what
\* really went by unless the profiler had dropped some of it; the decision is
\* about all of them.
StudyOK ==
  /\ trials \in Seq(Timed(DOMAIN Baseline \cup DOMAIN axes))
  /\ truth \in Seq([samples : Nat, time : Nat, whole : BOOLEAN])
  /\ Len(truth) = Len(trials) /\ Len(trials) <= Len(candidates)
  /\ \A i \in 1 .. Len(trials) :
       /\ trials[i].config = candidates[i]
       /\ trials[i].status = "ok" /\ truth[i].whole /\ truth[i].time > 0 =>
            trials[i].throughput = [samples |-> truth[i].samples, time |-> truth[i].time]
  /\ decision # None => decision = Decision(trials) /\ SweepDone /\ Len(trials) = Len(candidates)

\* What the axes and the baseline take values for
LEMMA WantedFacts ==
  ASSUME axes \in Axes
  PROVE  /\ IsFiniteSet(DOMAIN Baseline \cup DOMAIN axes)
         /\ \A key \in DOMAIN Baseline \cup DOMAIN axes : key \in Nat
         /\ \A c \in Wanted : c \in [DOMAIN Baseline \cup DOMAIN axes -> Nat]
<1> DEFINE All == DOMAIN Baseline \cup DOMAIN axes
<1>1. /\ IsFiniteSet(DOMAIN Baseline) /\ DOMAIN Baseline \subseteq Nat
      /\ \A key \in DOMAIN Baseline : Baseline[key] \in Nat
  BY TunerAssumption DEF TunerAssumption
<1>2. IsFiniteSet(All) /\ \A key \in All : key \in Nat
  BY <1>1, AxesFacts, FS_Union
<1>3. ASSUME NEW c \in Wanted PROVE c \in [All -> Nat]
  <2>1. /\ c = [key \in All |-> c[key]]
        /\ \A key \in DOMAIN axes : c[key] \in Range(axes[key])
        /\ \A key \in All \ DOMAIN axes : c[key] = Baseline[key]
    BY DEF Wanted
  <2>2. \A key \in DOMAIN axes : \A i \in DOMAIN axes[key] : axes[key][i] \in Nat
    BY AxesFacts
  <2>3. \A key \in All : c[key] \in Nat
    BY <1>1, <2>1, <2>2 DEF Range
  <2> HIDE DEF All
  <2> QED BY <2>1, <2>3
<1> QED BY <1>2, <1>3

\* A trial ends.
LEMMA EndsKeeps ==
  ASSUME ProfilerInv, SweepOK, StudyOK, NEW status \in {"ok", "oom", "failed"},
         NEW throughput \in [samples : Nat, time : Nat], throughput.time > 0,
         status = "ok" => throughput = Snapshot.throughput,
         NEW p95 \in Nat, NEW headroom \in Int, Ends(status, throughput, p95, headroom)
  PROVE  StudyOK'
<1> DEFINE All == DOMAIN Baseline \cup DOMAIN axes
           n == Len(trials)
           trial == Trial(candidates[n + 1], status, throughput, p95, headroom)
           ran == [samples |-> Total([i \in DOMAIN history |-> history[i].samples]),
                   time |-> Total([i \in DOMAIN history |-> history[i].duration]),
                   whole |-> steps <= Limit]
<1>1. /\ SweepDone /\ n < Len(candidates) /\ trials' = Append(trials, trial)
      /\ truth' = Append(truth, ran)
      /\ axes' = axes /\ next' = next /\ candidates' = candidates /\ decision' = decision
  BY DEF Ends, Running, sweepVars
<1>2. /\ n \in Nat /\ Len(candidates) \in Nat /\ axes \in Axes
      /\ \A i \in 1 .. Len(candidates) : candidates[i] \in Wanted
      /\ DOMAIN trials = 1 .. n /\ DOMAIN truth = 1 .. n
  BY DEF StudyOK, SweepOK
<1>3. trial \in Timed(All)
  <2>1. candidates[n + 1] \in [All -> Nat]
    <3>1. n + 1 \in 1 .. Len(candidates)
      BY <1>1, <1>2
    <3>2. candidates[n + 1] \in Wanted
      BY <1>2, <3>1
    <3> QED BY <1>2, <3>2, WantedFacts
  <2> HIDE DEF All
  <2> QED BY <2>1 DEF Timed, TrialsOf, Trial
<1>4. /\ ran \in [samples : Nat, time : Nat, whole : BOOLEAN]
      /\ ran.samples = samples /\ ran.whole = (steps <= Limit)
      /\ ran.whole => Total(stepSamples) = ran.time
  <2>1. /\ history \in Seq(StepRecord) /\ steps = Len(history) /\ samples = Total(Sampled(history))
        /\ Keeps(stepSamples, Len(history), Total(Durated(history)))
    BY DEF ProfilerInv, HistoryOK, KeptOK, Accepted, KeptOf, StepRecord
  <2>2. ran.samples = Total(Sampled(history)) /\ ran.time = Total(Durated(history))
    BY DEF Sampled, Durated
  <2>3. Total(Sampled(history)) \in Nat /\ Total(Durated(history)) \in Nat
    BY <2>1, HistoryFacts
  <2>4. (steps <= Limit) \in BOOLEAN
    OBVIOUS
  <2> QED BY <2>1, <2>2, <2>3, <2>4 DEF Keeps
<1>5. status = "ok" /\ ran.whole /\ ran.time > 0 =>
        throughput = [samples |-> ran.samples, time |-> ran.time]
  BY <1>4 DEF Snapshot
<1>6. trial.config = candidates[n + 1] /\ trial.status = status /\ trial.throughput = throughput
  BY DEF Trial
<1> HIDE DEF trial, ran
<1>7. /\ trials' \in Seq(Timed(All)) /\ Len(trials') = n + 1 /\ trials'[n + 1] = trial
      /\ \A i \in 1 .. n : trials'[i] = trials[i]
  BY <1>1, <1>2, <1>3 DEF StudyOK
<1>8. /\ truth' \in Seq([samples : Nat, time : Nat, whole : BOOLEAN]) /\ Len(truth') = n + 1
      /\ truth'[n + 1] = ran /\ \A i \in 1 .. n : truth'[i] = truth[i]
  BY <1>1, <1>2, <1>4 DEF StudyOK
<1>9. decision' = None
  BY <1>1, <1>2 DEF StudyOK
<1>10. n + 1 <= Len(candidates) /\ 1 .. n + 1 = (1 .. n) \cup {n + 1}
  BY <1>1, <1>2
<1>11. ASSUME NEW i \in 1 .. n + 1
       PROVE  /\ trials'[i].config = candidates[i]
              /\ trials'[i].status = "ok" /\ truth'[i].whole /\ truth'[i].time > 0 =>
                   trials'[i].throughput = [samples |-> truth'[i].samples, time |-> truth'[i].time]
  <2>1. CASE i \in 1 .. n
    BY <1>7, <1>8, <2>1 DEF StudyOK
  <2>2. CASE i = n + 1
    BY <1>5, <1>6, <1>7, <1>8, <2>2
  <2> QED BY <1>10, <2>1, <2>2
<1> HIDE DEF n
<1> QED BY <1>1, <1>7, <1>8, <1>9, <1>10, <1>11 DEF StudyOK

\* The order in which the sweep goes on leaves the trials theirs.
LEMMA StudyStep ==
  ASSUME ProfilerInv, SweepOK, StudyOK, [Next]_vars
  PROVE  StudyOK'
<1>1. ASSUME UNCHANGED <<sweepVars, studyVars>> PROVE StudyOK'
  <2>1. /\ axes' = axes /\ next' = next /\ candidates' = candidates
        /\ trials' = trials /\ truth' = truth /\ decision' = decision
    BY <1>1 DEF sweepVars, studyVars
  <2>2. SweepDone' = SweepDone
    BY <2>1 DEF SweepDone, Size, FoldSet, MapThenFoldSet
  <2> QED BY <2>1, <2>2 DEF StudyOK
<1>2. CASE Sweeps
  <2>1. /\ ~SweepDone /\ axes' = axes /\ trials' = trials /\ truth' = truth /\ decision' = decision
        /\ candidates' = IF Contains(candidates, Candidate(next)) THEN candidates
                         ELSE Append(candidates, Candidate(next))
    BY <1>2 DEF Sweeps, Generate, studyVars
  <2>2. candidates \in Seq(Wanted) /\ Candidate(next) \in Wanted
    BY CandidateIsWanted DEF SweepOK
  <2>3. /\ Len(candidates) \in Nat /\ Len(candidates)' \in Nat /\ Len(candidates) <= Len(candidates)'
        /\ \A i \in 1 .. Len(candidates) : candidates'[i] = candidates[i]
    <3>1. CASE Contains(candidates, Candidate(next))
      BY <2>1, <2>2, <3>1
    <3>2. CASE ~Contains(candidates, Candidate(next))
      BY <2>1, <2>2, <3>2
    <3> QED BY <3>1, <3>2
  <2>4. decision' = None
    BY <2>1 DEF StudyOK
  <2>5. Len(trials) \in Nat /\ \A i \in 1 .. Len(trials) : i \in 1 .. Len(candidates)
    BY <2>3 DEF StudyOK
  <2> QED BY <2>1, <2>3, <2>4, <2>5 DEF StudyOK
<1>3. CASE Trains
  BY <1>1, <1>3 DEF Trains
<1>4. CASE Measured
  <2>1. PICK p95 \in Latencies, headroom \in Headrooms : Ends("ok", Snapshot.throughput, p95, headroom)
    BY <1>4 DEF Measured
  <2>2. p95 \in Nat /\ headroom \in Int
    BY StudyAssumption DEF StudyAssumption
  <2>3. Snapshot.throughput \in [samples : Nat, time : Nat] /\ Snapshot.throughput.time > 0
    <3>1. history \in Seq(StepRecord) /\ samples = Total(Sampled(history)) /\ stepSamples \in Seq(Nat)
      BY DEF ProfilerInv, HistoryOK, KeptOK, Accepted, KeptOf, Keeps, StepRecord
    <3>2. samples \in Nat /\ Total(stepSamples) \in Nat
      BY <3>1, HistoryFacts, TotalSorted
    <3>3. Snapshot.throughput = IF Total(stepSamples) = 0 THEN [samples |-> 0, time |-> 1]
                                ELSE [samples |-> samples, time |-> Total(stepSamples)]
      BY DEF Snapshot
    <3> QED BY <3>2, <3>3
  <2> QED BY <2>1, <2>2, <2>3, EndsKeeps
<1>5. CASE Breaks
  <2>1. PICK status \in {"oom", "failed"} : Ends(status, [samples |-> 0, time |-> 1], 0, 0)
    BY <1>5 DEF Breaks
  <2>2. /\ [samples |-> 0, time |-> 1] \in [samples : Nat, time : Nat]
        /\ [samples |-> 0, time |-> 1].time > 0 /\ status # "ok" /\ status \in {"ok", "oom", "failed"}
    OBVIOUS
  <2> QED BY <2>1, <2>2, EndsKeeps
<1>6. CASE Selects
  <2>1. /\ SweepDone /\ Len(trials) = Len(candidates) /\ decision' = Decision(trials)
        /\ trials' = trials /\ truth' = truth
        /\ axes' = axes /\ next' = next /\ candidates' = candidates
    BY <1>6 DEF Selects, sweepVars
  <2>2. SweepDone' = SweepDone
    BY <2>1 DEF SweepDone, Size, FoldSet, MapThenFoldSet
  <2> QED BY <2>1, <2>2 DEF StudyOK
<1>7. CASE UNCHANGED vars
  BY <1>1, <1>7 DEF vars
<1> QED BY <1>2, <1>3, <1>4, <1>5, <1>6, <1>7 DEF Next

LEMMA StudyBegins ==
  ASSUME Init
  PROVE  StudyOK
<1>1. SweepOK /\ trials = <<>> /\ decision = None /\ truth = <<>>
  BY SweepBegins DEF Init
<1>2. Len(trials) = 0 /\ Len(truth) = 0 /\ 1 .. Len(trials) = {}
  BY <1>1
<1>3. Len(candidates) \in Nat
  BY <1>1 DEF SweepOK
<1>4. <<>> \in Seq(Timed(DOMAIN Baseline \cup DOMAIN axes))
      /\ <<>> \in Seq([samples : Nat, time : Nat, whole : BOOLEAN])
  OBVIOUS
<1> QED BY <1>1, <1>2, <1>3, <1>4 DEF StudyOK

\* THEOREM: the trials stay what the sweep and the runs made them.
THEOREM StudyInvariant == Spec => []StudyOK
<1>1. Init => StudyOK
  BY StudyBegins
<1>2. ProfilerInv /\ SweepOK /\ StudyOK /\ [Next]_vars => StudyOK'
  BY StudyStep
<1> QED BY <1>1, <1>2, ProfilerInvariant, SweepInvariant, PTL DEF Spec

\* The decision on them is for the fastest that fits.
LEMMA DecisionHolds ==
  ASSUME SweepOK, StudyOK
  PROVE  PicksTheFastest
<1> DEFINE All == DOMAIN Baseline \cup DOMAIN axes
           n == Len(trials)
           fit == {i \in DOMAIN trials :
                     /\ trials[i].status = "ok" /\ trials[i].headroom >= MinHeadroom
                     /\ \A limit \in MaxP95 : trials[i].p95 <= limit}
           rate(i, j) == truth[i].samples * truth[j].time - truth[j].samples * truth[i].time
<1>1. SUFFICES ASSUME decision # None
               PROVE  /\ decision.selected = Nobody <=> fit = {}
                      /\ decision.eligible = Cardinality(fit)
                      /\ decision.eligible + decision.status + decision.memory + decision.latency = n
                      /\ decision = Decision(Reverse(trials))
                      /\ fit # {} /\ (\A i \in fit : truth[i].whole /\ truth[i].time > 0) =>
                           \E i \in fit :
                             /\ decision.selected = trials[i]
                             /\ \A j \in fit : \/ rate(i, j) > 0
                                               \/ rate(i, j) = 0 /\ trials[i].p95 <= trials[j].p95
  BY DEF PicksTheFastest
<1>2. /\ decision = Decision(trials) /\ trials \in Seq(Timed(All)) /\ DOMAIN trials = 1 .. n
      /\ n \in Nat /\ n = Len(candidates)
      /\ \A i \in 1 .. n : trials[i] \in Timed(All) /\ trials[i].config = candidates[i]
  <2>1. /\ decision = Decision(trials) /\ trials \in Seq(Timed(All)) /\ n = Len(candidates)
        /\ \A i \in 1 .. n : trials[i].config = candidates[i]
    BY <1>1 DEF StudyOK
  <2> HIDE DEF All
  <2> QED BY <2>1
<1>3. axes \in Axes /\ IsInjective(candidates) /\ DOMAIN candidates = 1 .. n
  BY <1>2 DEF SweepOK
<1>4. IsFiniteSet(All) /\ \A key \in All : key \in Nat
  BY <1>3, WantedFacts
<1>5. \A i \in 1 .. n : trials[i].p95 \in Nat /\ trials[i].headroom \in Int
  BY <1>2 DEF Timed, TrialsOf
<1>6. fit = Indices(trials, "eligible")
  <2>1. MinHeadroom \in Nat /\ \A limit \in MaxP95 : limit \in Nat
    BY TunerAssumption DEF TunerAssumption
  <2>2. ASSUME NEW i \in 1 .. n
        PROVE  Verdict(trials[i]) = "eligible" <=>
                 /\ trials[i].status = "ok" /\ trials[i].headroom >= MinHeadroom
                 /\ \A limit \in MaxP95 : trials[i].p95 <= limit
    <3>1. trials[i].headroom < MinHeadroom <=> ~(trials[i].headroom >= MinHeadroom)
      BY <1>5, <2>1
    <3>2. (\E limit \in MaxP95 : trials[i].p95 > limit)
            <=> ~\A limit \in MaxP95 : trials[i].p95 <= limit
      BY <1>5, <2>1
    <3> QED BY <3>1, <3>2 DEF Verdict
  <2> QED BY <1>2, <2>2 DEF Indices
<1>7. Comparable(trials, All)
  <2>1. \A i, j \in 1 .. n : trials[i].config = trials[j].config => i = j
    BY <1>2, <1>3 DEF IsInjective
  <2> QED BY <1>2, <2>1 DEF Comparable
<1> HIDE DEF All, fit
<1>8. /\ decision.eligible = Cardinality(fit)
      /\ decision.eligible + decision.status + decision.memory + decision.latency = n
      /\ fit = {} => decision.selected = Nobody
  BY <1>2, <1>6, VerdictsAddUp DEF Decision
<1>9. decision = Decision(Reverse(trials))
  BY <1>2, <1>4, <1>7, DecisionReversed
<1>10. ASSUME fit # {}
       PROVE  \E b \in fit : decision.selected = trials[b] /\ b \in Best(trials)
  <2>1. PICK b \in fit : Best(trials) = {b} /\ Decision(trials).selected = trials[b]
    BY <1>4, <1>6, <1>7, <1>10, BestIsOne
  <2> QED BY <1>2, <2>1
<1>11. fit # {} => decision.selected # Nobody
  <2>1. Nobody \notin TrialsOf(All)
    BY <1>3, StudyAssumption DEF StudyAssumption, All
  <2>2. \A b \in fit : trials[b] \in TrialsOf(All)
    BY <1>2 DEF fit, Timed
  <2> QED BY <1>10, <2>1, <2>2
<1>12. ASSUME fit # {}, \A i \in fit : truth[i].whole /\ truth[i].time > 0
       PROVE  \E i \in fit :
                /\ decision.selected = trials[i]
                /\ \A j \in fit : \/ rate(i, j) > 0
                                  \/ rate(i, j) = 0 /\ trials[i].p95 <= trials[j].p95
  <2>1. PICK b \in fit : decision.selected = trials[b] /\ b \in Best(trials)
    BY <1>10, <1>12
  <2>2. ASSUME NEW i \in fit
        PROVE  /\ trials[i].throughput.samples = truth[i].samples /\ truth[i].samples \in Nat
               /\ trials[i].throughput.time = truth[i].time /\ truth[i].time \in Nat
               /\ trials[i].p95 \in Nat
    <3>1. i \in 1 .. n /\ trials[i].status = "ok" /\ truth[i].whole /\ truth[i].time > 0
      BY <1>2, <1>12 DEF fit
    <3>2. truth[i] \in [samples : Nat, time : Nat, whole : BOOLEAN]
      <4> DEFINE T == [samples : Nat, time : Nat, whole : BOOLEAN]
      <4>1. truth \in Seq(T) /\ Len(truth) = n
        BY DEF StudyOK
      <4> HIDE DEF T, n
      <4>2. truth[i] \in T
        BY <3>1, <4>1
      <4> QED BY <4>2 DEF T
    <3>3. trials[i].throughput = [samples |-> truth[i].samples, time |-> truth[i].time]
      BY <3>1 DEF StudyOK
    <3> QED BY <1>5, <3>1, <3>2, <3>3
  <2>3. ASSUME NEW j \in fit
        PROVE  rate(b, j) > 0 \/ (rate(b, j) = 0 /\ trials[b].p95 <= trials[j].p95)
    <3> DEFINE ours == truth[b].samples * truth[j].time
               theirs == truth[j].samples * truth[b].time
    <3>1. ours \in Nat /\ theirs \in Nat /\ rate(b, j) = ours - theirs
      BY <2>2
    <3>2. /\ Faster(trials[b], trials[j]) <=> ours > theirs
          /\ Faster(trials[j], trials[b]) <=> theirs > ours
      BY <2>2 DEF Faster
    <3>3. ~Outranks(trials[j], trials[b])
      BY <1>6, <2>1 DEF Best
    <3> HIDE DEF ours, theirs, rate
    <3>4. ~(theirs > ours) /\ (ours > theirs \/ ~(trials[j].p95 < trials[b].p95))
      BY <3>2, <3>3 DEF Outranks
    <3> QED BY <2>2, <3>1, <3>4
  <2> QED BY <2>1, <2>3
<1> QED BY <1>8, <1>9, <1>11, <1>12

\* THEOREM: for any trials the selected one fits and is as fast as any that does, and
\* the order in which they were run makes no difference (select_training_trial()).
THEOREM FastestPicked == Spec => []PicksTheFastest
<1>1. SweepOK /\ StudyOK => PicksTheFastest
  BY DecisionHolds
<1> QED BY <1>1, SweepInvariant, StudyInvariant, PTL
===============================================================================
