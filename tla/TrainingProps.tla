---------------------------- MODULE TrainingProps ----------------------------
(***************************************************************************)
(* What a training study may rely on, stated over TrainingStudy.           *)
(***************************************************************************)
EXTENDS TrainingStudy

Recorded(name) == {i \in DOMAIN history : name \in DOMAIN history[i].phases}
TimeIn(name) == MapThenSumSet(LAMBDA i : history[i].phases[name], Recorded(name))
TimeOfSteps == MapThenSumSet(LAMBDA i : history[i].duration, DOMAIN history)
Seen == {name \in Names : Recorded(name) # {}}

\* What the stage profiler behind was told of a name, and how often: the time of
\* the phase, of the whole steps under the name `step`, and of both if a phase
\* is called so.
Observations(name) == Cardinality(Recorded(name)) + IF name = StepName THEN Len(history) ELSE 0
Behind(name) == TimeIn(name) + IF name = StepName THEN TimeOfSteps ELSE 0

\* Some phases took at least so many percent of the time of all phases.
Weighs(phases, percent) ==
  /\ phases \cap Seen # {} /\ MapThenSumSet(TimeIn, Seen) > 0
  /\ 100 * MapThenSumSet(TimeIn, phases \cap Seen) >= percent * MapThenSumSet(TimeIn, Seen)

\* The snapshot is about the steps that were recorded, whole, and no others: as
\* long as there are no more of them than sample_limit, its totals, counts and
\* bottleneck are theirs, and it recommends to look after the phases that took
\* their share of the recorded time, all of these and no others.  So does the
\* stage profiler behind, as long as a name was not observed more often.  A step
\* that is refused leaves no trace, and past the limit time is missing but none
\* is invented (training_profiler.py:109-166, 178-200).
ProfileIsTrue ==
  LET snapshot == Snapshot IN
  /\ snapshot.steps = Len(history) /\ snapshot.total <= TimeOfSteps
  /\ \A name \in DOMAIN phaseSamples : Total(phaseSamples[name]) <= TimeIn(name)
  /\ DOMAIN stages = Seen \cup {name \in {StepName} : history # <<>>}
  /\ \A name \in DOMAIN stages :
       IF Observations(name) <= Limit
         THEN /\ Metric(stages[name]).count = Observations(name)
              /\ Metric(stages[name]).total = Behind(name)
         ELSE Metric(stages[name]).total <= Behind(name)
  /\ steps <= Limit =>
       /\ snapshot.total = TimeOfSteps
       /\ DOMAIN snapshot.phases = Seen
       /\ \A name \in Seen :
            /\ snapshot.phases[name].count = Cardinality(Recorded(name))
            /\ snapshot.phases[name].total = TimeIn(name)
            /\ TimeIn(snapshot.bottleneck) >= TimeIn(name)
       /\ \A name \in {DataWait, Optimizer} :
            name \in snapshot.recommendations <=> Weighs({name}, 15)
       /\ Checkpoint \in snapshot.recommendations <=> Weighs({Checkpoint}, 10)
       /\ Forward \in snapshot.recommendations <=> Weighs({Forward, Backward}, 70)

\* The sweep has every combination of the axes once, or as many different ones
\* as it may have, and each differs from the baseline in the axes only
\* (training_tuner.py:63-85).
Wanted ==
  {c \in [DOMAIN Baseline \cup DOMAIN axes ->
            UNION ({Range(Baseline)} \cup {Range(axes[k]) : k \in DOMAIN axes})] :
     \A key \in DOMAIN c : IF key \in DOMAIN axes THEN c[key] \in Range(axes[key])
                           ELSE c[key] = Baseline[key]}

SweepIsComplete ==
  SweepDone =>
    /\ Range(candidates) \subseteq Wanted /\ IsInjective(candidates)
    /\ Len(candidates) = IF Cardinality(Wanted) < MaxTrials THEN Cardinality(Wanted) ELSE MaxTrials

\* The trial that is selected ran to its end within the limits of memory and
\* latency, no other such trial trained faster by the time that really went
\* by unless the profiler had dropped some of it, none as fast had shorter
\* steps, and the order in which the trials were run makes no difference
\* (training_tuner.py:101-118).
PicksTheFastest ==
  decision # None =>
    LET fit == {i \in DOMAIN trials :
                  /\ trials[i].status = "ok" /\ trials[i].headroom >= MinHeadroom
                  /\ \A limit \in MaxP95 : trials[i].p95 <= limit}
        rate(i, j) == truth[i].samples * truth[j].time - truth[j].samples * truth[i].time
    IN  /\ decision.selected = Nobody <=> fit = {}
        /\ decision.eligible = Cardinality(fit)
        /\ decision.eligible + decision.status + decision.memory + decision.latency = Len(trials)
        /\ decision = Decision(Reverse(trials))
        /\ fit # {} /\ (\A i \in fit : truth[i].whole /\ truth[i].time > 0) =>
             \E i \in fit :
               /\ decision.selected = trials[i]
               /\ \A j \in fit : rate(i, j) > 0 \/ (rate(i, j) = 0 /\ trials[i].p95 <= trials[j].p95)
=============================================================================
