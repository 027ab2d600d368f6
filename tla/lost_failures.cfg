\* A backend whose batch_key raises on one of two keys.
CONSTANTS
  None = None
  Alien = Alien
  Requests = {r1, r2}
  Sessions = {s1, s2}
  Workers = {w1}
  Closers = {c1}
  SeqNos = {1}
  Timeouts = {1, 3}
  Ages = {0}
  Priorities = {0}
  Keys = {k1, k2}
  BadKeys = {k2}
  Policy = "edf"
  Window = 1
  Guard = 0
  MaxBatchSize = 0
  Coalesce = TRUE
  Enforce = TRUE
  DropMissed = TRUE
  DropUnserviceable = FALSE
  MaxPending = 0
  BackendMax = 2
  Estimates <- NoEstimator
  BackendFaults = FALSE
  BackendAborts = FALSE
  CancelModes = {FALSE}
  Abandons = FALSE
  CloseCancels = FALSE
  LockYields = FALSE
  PassDelay = 0
  MaxTime = 3
SPECIFICATION Spec
INVARIANT FailuresBecomeOutcomes
CHECK_DEADLOCK FALSE
