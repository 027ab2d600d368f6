----------------------------- MODULE TrainingTuner -----------------------------
(***************************************************************************)
(* src/actserve/training_tuner.py: generate_sweep(), whose loop is one step*)
(* an iteration, and select_training_trial().                              *)
(*                                                                         *)
(* The keys of a configuration are numbers in the order of their names, its*)
(* values numbers in the order of their JSON.                              *)
(***************************************************************************)
EXTENDS Integers, Sequences, FiniteSets, FiniteSetsExt, SequencesExt

CONSTANTS
  Baseline,     \* a configuration: a function from keys to values
  Axes,         \* the axes to sweep: for a key the sequence of its values
  MaxTrials,
  MinHeadroom,  \* min_memory_headroom_mb
  MaxP95,       \* max_p95_step_ms: a set of one latency, or of none
  Nobody        \* no trial is selected

ASSUME TunerAssumption ==
  /\ IsFiniteSet(DOMAIN Baseline) /\ DOMAIN Baseline \subseteq Nat
  /\ \A key \in DOMAIN Baseline : Baseline[key] \in Nat
  /\ \A axes \in Axes :
       /\ IsFiniteSet(DOMAIN axes) /\ DOMAIN axes \subseteq Nat
       /\ \A key \in DOMAIN axes : axes[key] \in Seq(Nat) /\ axes[key] # <<>>
  /\ MaxTrials \in Nat \ {0} /\ MinHeadroom \in Nat /\ MaxP95 \subseteq Nat

VARIABLES
  axes,
  next,        \* how many combinations the loop has taken
  candidates   \* the configurations of the sweep

sweepVars == <<axes, next, candidates>>

SweepInit == axes \in Axes /\ next = 0 /\ candidates = <<>>

-----------------------------------------------------------------------------
(* generate_sweep()                                                         *)

Size(keys) == FoldSet(LAMBDA key, n : n * Len(axes[key]), 1, keys)

\* The next of itertools.product(): the last axis changes with every combination,
\* another when all those after it are through.
Combination(n) ==
  [key \in DOMAIN axes |->
     LET turns == n \div Size({k \in DOMAIN axes : k > key})
     IN  axes[key][1 + (turns % Len(axes[key]))]]

Candidate(n) ==
  [key \in DOMAIN Baseline \cup DOMAIN axes |->
     IF key \in DOMAIN axes THEN Combination(n)[key] ELSE Baseline[key]]

SweepDone == Len(candidates) >= MaxTrials \/ next = Size(DOMAIN axes)

\* Mutant: a combination that was there already counts as a trial.
GenerateAgain ==
  /\ ~SweepDone /\ next' = next + 1
  /\ candidates' = Append(candidates, Candidate(next))
  /\ UNCHANGED axes

\* One iteration of the loop
Generate ==
  /\ ~SweepDone /\ next' = next + 1
  /\ candidates' = IF Contains(candidates, Candidate(next)) THEN candidates
                   ELSE Append(candidates, Candidate(next))
  /\ UNCHANGED axes

-----------------------------------------------------------------------------
(* select_training_trial()                                                  *)

\* A TrainingTrial; its status is "ok", "oom" or "failed".
Trial(config, status, throughput, p95, headroom) ==
  [config |-> config, status |-> status, throughput |-> throughput, p95 |-> p95,
   headroom |-> headroom]

\* The trials of configurations with these keys; throughput is a ratio.
TrialsOf(keys) ==
  [config : [keys -> Nat], status : {"ok", "oom", "failed"},
   throughput : [samples : Nat, time : Nat], p95 : Nat, headroom : Int]

Verdict(trial) ==
  CASE trial.status # "ok" -> "status"
    [] trial.status = "ok" /\ trial.headroom < MinHeadroom -> "memory"
    [] trial.status = "ok" /\ trial.headroom >= MinHeadroom
         /\ (\E limit \in MaxP95 : trial.p95 > limit) -> "latency"
    [] OTHER -> "eligible"

Faster(a, b) == a.throughput.samples * b.throughput.time > b.throughput.samples * a.throughput.time

\* The order of the JSON of two configurations with the same keys
JsonAfter(c, d) ==
  \E key \in DOMAIN c : c[key] > d[key] /\ \A k \in DOMAIN c : k < key => c[k] = d[k]

\* Mutant: ties prefer the longer steps.
OutranksSlowly(a, b) ==
  \/ Faster(a, b)
  \/ ~Faster(b, a) /\ a.p95 > b.p95

\* How the keys of max() compare: by throughput, then p95, headroom and JSON
Outranks(a, b) ==
  \/ Faster(a, b)
  \/ ~Faster(b, a) /\ a.p95 < b.p95
  \/ ~Faster(b, a) /\ a.p95 = b.p95 /\ a.headroom > b.headroom
  \/ ~Faster(b, a) /\ a.p95 = b.p95 /\ a.headroom = b.headroom /\ JsonAfter(a.config, b.config)

Indices(trials, verdict) == {i \in 1 .. Len(trials) : Verdict(trials[i]) = verdict}

\* A TuningDecision; max() takes the first of equals.
Decision(trials) ==
  LET eligible == Indices(trials, "eligible")
      best == {i \in eligible : \A j \in eligible : ~Outranks(trials[j], trials[i])}
  IN  [selected |-> IF eligible = {} THEN Nobody ELSE trials[Min(best)],
       eligible |-> Cardinality(eligible),
       status |-> Cardinality(Indices(trials, "status")),
       memory |-> Cardinality(Indices(trials, "memory")),
       latency |-> Cardinality(Indices(trials, "latency"))]
=============================================================================
