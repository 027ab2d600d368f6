---------------------------- MODULE TrainingStudy ----------------------------
(***************************************************************************)
(* What docs/TRAINING_PROFILER.md describes: a sweep of configurations, an *)
(* isolated training run with a profiler for each, and the selection of one*)
(* from what was measured.  Who runs the trials is not part of ActServe.   *)
(***************************************************************************)
EXTENDS TrainingProfiler, TrainingTuner

CONSTANTS
  Headrooms,   \* what a run may leave of the memory
  Latencies,   \* and the p95 of its steps, which the profiler does not tell
  LongSweep    \* bound: in longer sweeps a run has one step

ASSUME StudyAssumption ==
  /\ Headrooms \subseteq Int /\ Latencies \subseteq Nat /\ LongSweep \in Nat /\ None # Nobody
  /\ \A swept \in Axes : Nobody \notin TrialsOf(DOMAIN Baseline \cup DOMAIN swept)

VARIABLES
  trials,     \* the TrainingTrial objects
  decision,
  truth       \* of each trial the time it took and whether the profiler kept it all

studyVars == <<trials, decision, truth>>
vars == <<trainingVars, sweepVars, studyVars>>

Init ==
  /\ TrainingInit /\ SweepInit
  /\ trials = <<>> /\ decision = None /\ truth = <<>>

Sweeps == Generate /\ UNCHANGED <<trainingVars, studyVars>>

Running == SweepDone /\ Len(trials) < Len(candidates)

Trains ==
  /\ Running /\ (steps = 0 \/ Len(candidates) <= LongSweep)
  /\ TrainingNext /\ UNCHANGED <<sweepVars, studyVars>>

Ends(status, throughput, p95, headroom) ==
  /\ Running /\ \A s \in Steps : open[s] = None
  /\ trials' = Append(trials,
       Trial(candidates[Len(trials) + 1], status, throughput, p95, headroom))
  /\ truth' = Append(truth,
       [samples |-> Total([i \in DOMAIN history |-> history[i].samples]),
        time |-> Total([i \in DOMAIN history |-> history[i].duration]),
        whole |-> steps <= Limit])
  /\ open' = open /\ steps' = 0 /\ samples' = 0 /\ stepSamples' = <<>>
  /\ phaseSamples' = Empty /\ stages' = Empty /\ history' = <<>>
  /\ UNCHANGED <<sweepVars, decision>>

\* A run is measured, or ends without a result.
Measured ==
  \E p95 \in Latencies, headroom \in Headrooms : Ends("ok", Snapshot.throughput, p95, headroom)

Breaks == \E status \in {"oom", "failed"} : Ends(status, [samples |-> 0, time |-> 1], 0, 0)

Selects ==
  /\ SweepDone /\ Len(trials) = Len(candidates) /\ decision = None
  /\ decision' = Decision(trials)
  /\ UNCHANGED <<trainingVars, sweepVars, trials, truth>>

Next == Sweeps \/ Trains \/ Measured \/ Breaks \/ Selects

Spec == Init /\ [][Next]_vars
=============================================================================
