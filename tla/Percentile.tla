------------------------------ MODULE Percentile ------------------------------
(***************************************************************************)
(* _percentile() of src/actserve/profiler.py, which src/actserve/metrics.py*)
(* repeats and which statistics.quantiles(method="inclusive") agrees with: *)
(* linear interpolation between the neighbours, here in hundredths.        *)
(***************************************************************************)
EXTENDS Integers, Sequences, FiniteSets

\* sorted(): every value goes to the place after those that come before it.  The
\* provers cannot expand SortSeq of the module TLC, hence this definition.
Place(values, i) ==
  1 + Cardinality({j \in DOMAIN values :
        values[j] < values[i] \/ (values[j] = values[i] /\ j < i)})

Ascending(values) ==
  [n \in DOMAIN values |-> values[CHOOSE i \in DOMAIN values : Place(values, i) = n]]

Percentile(ordered, percent) ==
  LET position == (Len(ordered) - 1) * percent
      weight   == position % 100
  IN  ordered[1 + (position \div 100)] * (100 - weight)
        + ordered[1 + ((position + 99) \div 100)] * weight
=============================================================================
