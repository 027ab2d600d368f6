\* A request that finds the lock taken after its check, close() and the last worker before it.
CONSTANTS
  None = None
  Alien = Alien
  Requests = {r1, r2}
  Sessions = {s1}
  Workers = {w1}
  Closers = {c1}
  SeqNos = {1, 2}
  Timeouts = {3}
  Ages = {0}
  Priorities = {0}
  Keys = {k1}
  BadKeys = {}
  Policy = "edf"
  Window = 1
  Guard = 0
  MaxBatchSize = 0
  Coalesce = TRUE
  Enforce = TRUE
  DropMissed = TRUE
  DropUnserviceable = FALSE
  MaxPending = 0
  BackendMax = 2
  Estimates <- NoEstimator
  BackendFaults = FALSE
  BackendAborts = FALSE
  CancelModes = {FALSE}
  Abandons = FALSE
  CloseCancels = FALSE
  LockYields = TRUE
  PassDelay = 0
  MaxTime = 4
SPECIFICATION Spec
INVARIANT LateRequestsRefused
CHECK_DEADLOCK FALSE
