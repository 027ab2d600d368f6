\* Everything that may go wrong at once: a backend that fails, answers another
\* request, is cancelled or raises in batch_key, callers that give up, a
\* close() that is cancelled, two closers racing a restart, a slow lock.
CONSTANTS
  Requests = {r1, r2}
  Sessions = {s1}
  Workers = {w1, w2}
  Closers = {c1, c2}
  None = None
  Alien = Alien
  SeqNos = {1, 2}
  Timeouts = {1, 2}
  Ages = {0, 1}
  Priorities = {0}
  Keys = {k1, k2}
  BadKeys = {k2}
  Policy = "edf"
  Window = 1
  Guard = 0
  MaxBatchSize = 2
  Coalesce = TRUE
  Enforce = TRUE
  DropMissed = TRUE
  DropUnserviceable = TRUE
  MaxPending = 1
  BackendMax = 3
  Estimates <- MovingEstimator
  BackendFaults = TRUE
  BackendAborts = TRUE
  CancelModes = {TRUE, FALSE}
  Abandons = TRUE
  CloseCancels = TRUE
  LockYields = TRUE
  PassDelay = 1
  MaxTime = 2
SPECIFICATION Spec
INVARIANTS ReplacedByNewer MetricsAgree
PROPERTIES DispatchedOnce ActionsAreSafe KeepsContract
SYMMETRY AnyRequestOrTask
CHECK_DEADLOCK FALSE
