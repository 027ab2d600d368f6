---------------------------- MODULE StageProfiler ----------------------------
(***************************************************************************)
(* StageProfiler of src/actserve/profiler.py.  A lock makes observe() and  *)
(* the copying in snapshot() atomic, so the profiler is its samples: a     *)
(* function from the names observed to the values kept.                    *)
(***************************************************************************)
EXTENDS Percentile, SequencesExt

CONSTANT Limit   \* sample_limit

ASSUME LimitAssumption == Limit \in Nat \ {0}

Total(values) == FoldLeft(+, 0, values)

\* Once there are Limit values the later ones are not kept.
Kept(values, value) == IF Len(values) < Limit THEN Append(values, value) ELSE values

\* observe() of each entry of values, in any order: their names are different.
Observed(samples, values) ==
  [name \in DOMAIN samples \cup DOMAIN values |->
     LET before == IF name \in DOMAIN samples THEN samples[name] ELSE <<>>
     IN  IF name \in DOMAIN values THEN Kept(before, values[name]) ELSE before]

\* A ProfileMetric of snapshot(); its mean is total / count.
Metric(values) ==
  LET ordered == Ascending(values)
  IN  [count |-> Len(ordered), total |-> Total(ordered),
       minimum |-> Head(ordered), maximum |-> Last(ordered),
       p50 |-> Percentile(ordered, 50), p95 |-> Percentile(ordered, 95),
       p99 |-> Percentile(ordered, 99)]
=============================================================================
