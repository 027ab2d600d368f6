--------------------------- MODULE LatencyEstimator ---------------------------
(***************************************************************************)
(* The latency estimate that HttpJsonBackend and SmolVLABackend (both in   *)
(* src/actserve/integrations) keep for the scheduler: the last latencies   *)
(* of every batch size, and from them the time a batch of any size may     *)
(* take.  Latencies are whole numbers and estimates hundredths of them,    *)
(* rounded down; the scheduler cuts them to whole nanoseconds anyway.      *)
(***************************************************************************)
EXTENDS Integers, Sequences, SequencesExt, FiniteSetsExt, Percentile

CONSTANTS
  MaxBatchSize,
  LatencyWindow,   \* maxlen of the deque of each batch size
  SafetyPercent,   \* latency_safety_factor
  Initial          \* initial_latency_ms: a set of one estimate, or of none

ASSUME EstimatorAssumption ==
  /\ MaxBatchSize \in Nat \ {0} /\ LatencyWindow \in Nat \ {0}
  /\ SafetyPercent \in Nat /\ SafetyPercent >= 100
  /\ Initial \subseteq Nat /\ \A x, y \in Initial : x = y

Sizes == 1 .. MaxBatchSize
NoEstimate == -1

\* The deque keeps the last latencies only.
Appended(samples, latency) ==
  LET all == Append(samples, latency)
  IN  IF Len(all) > LatencyWindow THEN Tail(all) ELSE all

\* statistics.quantiles(n=10)[8]; one sample is its own quantile.
P90(samples) == Percentile(Ascending(samples), 90)

\* A larger batch than the one observed takes longer in proportion; a smaller
\* one is not assumed to take less.
Scaled(observed, size, batch) == IF batch <= size THEN observed ELSE (observed * batch) \div size

\* What each of the windows, and the initial latency, says of a batch.
Candidates(latencies, batch) ==
  {(Scaled(P90(latencies[n]), n, batch) * SafetyPercent) \div 100 :
     n \in {n \in Sizes : latencies[n] # <<>>}} \cup Initial

\* Mutant: the window of the size itself is enough.
OwnWindowFirst(latencies, batch) ==
  IF latencies[batch] # <<>> THEN (P90(latencies[batch]) * SafetyPercent) \div 100
  ELSE IF Candidates(latencies, batch) = {} THEN NoEstimate
  ELSE Max(Candidates(latencies, batch))

\* estimate_batch_latency_ms()
Estimate(latencies, batch) ==
  IF Candidates(latencies, batch) = {} THEN NoEstimate
  ELSE Max(Candidates(latencies, batch))
=============================================================================
