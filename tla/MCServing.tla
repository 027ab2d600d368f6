------------------------------ MODULE MCServing ------------------------------
EXTENDS ServingProps

\* One adapter each of two policies on a shared backbone; "m3" has no route.
TwoRoutes ==
  [m1 |-> [backbone |-> "b1", adapter |-> "a1", signature |-> "s"],
   m2 |-> [backbone |-> "b1", adapter |-> "a2", signature |-> "s"]]

\* initial_latency_ms is 3, between the latencies that are measured.
InitialLatency == {300}
=============================================================================
