--------------------------- MODULE TrainingProfiler ---------------------------
(***************************************************************************)
(* TrainingProfiler of src/actserve/training_profiler.py: the steps of a   *)
(* training loop, the time each of them spends in its phases, and what the *)
(* snapshot makes of them.                                                 *)
(*                                                                         *)
(* Phases are numbers in the order of their names: 0 is the empty name,    *)
(* which is refused, 1 to 5 are STANDARD_PHASES and 6 is `step`, the name  *)
(* under which the stage profiler behind gets the time of whole steps; a   *)
(* phase may have it too.                                                  *)
(***************************************************************************)
EXTENDS StageProfiler, FiniteSets, FiniteSetsExt

CONSTANTS
  Steps,      \* TrainingStep objects that may be open at the same time
  Names,      \* of phases
  Durations,
  Bad,        \* a duration that is negative or not finite
  Batches,    \* values of the samples parameter
  MaxSteps,   \* bound: steps recorded by one profiler
  MaxPhase,   \* bound: what a step may collect in one phase
  None

Backward == 1   Checkpoint == 2   DataWait == 3   Forward == 4   Optimizer == 5
NoName == 0   StepName == 6

ASSUME TrainingAssumption ==
  /\ Names \subseteq Nat /\ IsFiniteSet(Names) /\ Durations \subseteq Nat /\ Bad \notin Nat
  /\ Batches \subseteq Nat /\ MaxSteps \in Nat /\ MaxPhase \in Nat /\ None \notin Nat

VARIABLES
  open,          \* the TrainingStep objects, with the time since they began
  steps, samples, stepSamples, phaseSamples,
  stages,        \* the samples of _profiler, a StageProfiler
  history        \* what was recorded, all of it

profilerVars == <<steps, samples, stepSamples, phaseSamples, stages, history>>
trainingVars == <<open, profilerVars>>

Empty == [name \in {} |-> 0]

Fresh ==
  /\ steps = 0 /\ samples = 0 /\ stepSamples = <<>>
  /\ phaseSamples = Empty /\ stages = Empty /\ history = <<>>

TrainingInit == open = [s \in Steps |-> None] /\ Fresh

-----------------------------------------------------------------------------
\* _validate_duration()
IsValid(name, duration) == name # NoName /\ duration # Bad

\* Mutant: what is valid of a step that is refused stays recorded.
RecordedInPart(phases, count, duration) ==
  LET valid == [name \in {n \in DOMAIN phases : IsValid(n, phases[n])} |-> phases[name]]
  IN  /\ phaseSamples' = Observed(phaseSamples, valid)
      /\ IF valid = phases /\ duration # Bad
           THEN /\ steps' = steps + 1 /\ samples' = samples + count
                /\ stepSamples' = Kept(stepSamples, duration)
                /\ stages' = Observed(Observed(stages, [name \in {StepName} |-> duration]), phases)
                /\ history' = Append(history,
                                     [phases |-> phases, samples |-> count, duration |-> duration])
           ELSE UNCHANGED <<steps, samples, stepSamples, stages, history>>

\* record_step(): a step with a duration or a name that is refused raises before
\* anything of it is recorded.
RecordStep(phases, count, duration) ==
  IF duration # Bad /\ \A name \in DOMAIN phases : IsValid(name, phases[name])
    THEN /\ steps' = steps + 1 /\ samples' = samples + count
         /\ stepSamples' = Kept(stepSamples, duration)
         /\ phaseSamples' = Observed(phaseSamples, phases)
         /\ stages' = Observed(Observed(stages, [name \in {StepName} |-> duration]), phases)
         /\ history' = Append(history, [phases |-> phases, samples |-> count, duration |-> duration])
    ELSE UNCHANGED profilerVars

\* A framework's own measurements; without step_ms the step is the sum of them.
RecordDirectly(phases, count) ==
  /\ steps < MaxSteps
  /\ \E duration \in {Bad} \cup Durations :
       \/ RecordStep(phases, count, duration)
       \/ /\ \A name \in DOMAIN phases : IsValid(name, phases[name])
          /\ RecordStep(phases, count, MapThenSumSet(LAMBDA name : phases[name], DOMAIN phases))
  /\ UNCHANGED open

Begin(s, count) ==
  /\ open[s] = None /\ steps < MaxSteps
  /\ open' = [open EXCEPT ![s] = [samples |-> count, elapsed |-> 0, phases |-> Empty]]
  /\ UNCHANGED profilerVars

Spent(s, name) == IF name \in DOMAIN open[s].phases THEN open[s].phases[name] ELSE 0

\* A duration is added to a phase of a step while time goes by, for every step.
Adds(s, name, duration, time) ==
  /\ open[s] # None /\ Spent(s, name) + duration <= MaxPhase
  /\ open' = [t \in Steps |->
       IF open[t] = None THEN None
       ELSE [open[t] EXCEPT
               !.elapsed = @ + time,
               !.phases = IF t # s THEN @
                          ELSE [n \in DOMAIN @ \cup {name} |->
                                  IF n = name THEN Spent(s, name) + duration ELSE @[n]]]]
  /\ UNCHANGED profilerVars

\* phase(): whatever the name, and whether the body raises or not
Phase(s, name, duration) == Adds(s, name, duration, duration)

\* record(): a refused duration changes nothing; the exception ends the step if
\* the training loop does not handle it.
Record(s, name, duration) == IsValid(name, duration) /\ Adds(s, name, duration, 0)

\* finish(), at the end of the with block however that ends
Finish(s) ==
  /\ open[s] # None /\ steps < MaxSteps
  /\ RecordStep(open[s].phases, open[s].samples, open[s].elapsed)
  /\ open' = [open EXCEPT ![s] = None]

-----------------------------------------------------------------------------
(* snapshot()                                                               *)

PhaseTotal == MapThenSumSet(LAMBDA name : Total(phaseSamples[name]), DOMAIN phaseSamples)

\* A TrainingPhaseMetric; its share is total / PhaseTotal.
PhaseMetric(name) ==
  LET metric == Metric(phaseSamples[name])
  IN  [count |-> metric.count, total |-> metric.total, p95 |-> metric.p95]

Bottleneck ==
  IF DOMAIN phaseSamples = {} THEN None
  ELSE LET longest == {n \in DOMAIN phaseSamples : \A m \in DOMAIN phaseSamples :
                         Total(phaseSamples[n]) >= Total(phaseSamples[m])}
       IN  Min(longest)

\* The share of some phases is at least so many percent.
Takes(phases, percent) ==
  /\ phases \cap DOMAIN phaseSamples # {} /\ PhaseTotal > 0
  /\ 100 * MapThenSumSet(LAMBDA name : Total(phaseSamples[name]), phases \cap DOMAIN phaseSamples)
       >= percent * PhaseTotal

\* _recommend(): which phases the recommendations are about
Recommendations ==
  {name \in {DataWait, Optimizer} : Takes({name}, 15)}
    \cup {name \in {Checkpoint} : Takes({name}, 10)}
    \cup {name \in {Forward} : Takes({Forward, Backward}, 70)}

\* samples_per_second is samples / time, or 0.
Snapshot ==
  [steps |-> steps, samples |-> samples, total |-> Total(stepSamples),
   throughput |-> IF Total(stepSamples) = 0 THEN [samples |-> 0, time |-> 1]
                  ELSE [samples |-> samples, time |-> Total(stepSamples)],
   bottleneck |-> Bottleneck,
   phases |-> [name \in DOMAIN phaseSamples |-> PhaseMetric(name)],
   recommendations |-> Recommendations]

TrainingNext ==
  \/ \E s \in Steps :
       \/ \E count \in Batches : Begin(s, count)
       \/ \E name \in Names, d \in Durations : Phase(s, name, d) \/ Record(s, name, d)
       \/ Finish(s)
  \/ \E D \in SUBSET Names, count \in Batches :
       \E phases \in [D -> Durations \cup {Bad}] : RecordDirectly(phases, count)
=============================================================================
