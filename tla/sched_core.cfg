\* One worker and one close() over a backend that may fail: the EDF queue with
\* coalescing, admission control, batches of two and the batching window.
CONSTANTS
  Requests = {r1, r2, r3}
  Sessions = {s1, s2, s3}
  Workers = {w1}
  Closers = {c1}
  None = None
  Alien = Alien
  SeqNos = {1, 2}
  Timeouts = {1, 3}
  Ages = {0}
  Priorities = {0}
  Keys = {k1}
  BadKeys = {}
  Policy = "edf"
  Window = 1
  Guard = 1
  MaxBatchSize = 0
  Coalesce = TRUE
  Enforce = TRUE
  DropMissed = TRUE
  DropUnserviceable = FALSE
  MaxPending = 2
  BackendMax = 2
  Estimates <- LinearEstimator
  BackendFaults = TRUE
  BackendAborts = FALSE
  CancelModes = {TRUE, FALSE}
  Abandons = FALSE
  CloseCancels = FALSE
  LockYields = FALSE
  PassDelay = 0
  MaxTime = 4
SPECIFICATION Spec
INVARIANTS QueuedIsPointed QueuedIsNewest CapacityRespected NoSleepOnWork NothingLost
  SleepEndsBeforeGuard CloseDrains
PROPERTIES BatchOnTime EarliestDispatched
SYMMETRY AnyRequestOrSession
CHECK_DEADLOCK FALSE
