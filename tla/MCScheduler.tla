----------------------------- MODULE MCScheduler -----------------------------
(***************************************************************************)
(* Small instances of the scheduler for TLC.                               *)
(***************************************************************************)
EXTENDS SchedulerProps, TLC

\* The backend has no latency estimator.
NoEstimator == {<<NoEstimate, NoEstimate>>}

\* Nothing measurable for a single request, a tick for a batch of two.
LinearEstimator == {<<0, 1>>}

\* The profile of the backend moves between two calls, or is not there yet.
MovingEstimator == {<<1, 1>>, <<NoEstimate, 2>>}

\* Envelopes are created alike; so are sessions, workers and callers of close().
AnyRequestOrSession == Permutations(Requests) \cup Permutations(Sessions)
AnyRequestOrTask == Permutations(Requests) \cup Permutations(Workers) \cup Permutations(Closers)
=============================================================================
