\* Two requests in a batch whose second action names another request.
CONSTANTS
  None = None
  Alien = Alien
  Requests = {r1, r2}
  Sessions = {s1, s2}
  Workers = {w1}
  Closers = {c1}
  SeqNos = {1}
  Timeouts = {1, 3}
  Ages = {0}
  Priorities = {0}
  Keys = {k1}
  BadKeys = {}
  Policy = "edf"
  Window = 1
  Guard = 0
  MaxBatchSize = 0
  Coalesce = TRUE
  Enforce = TRUE
  DropMissed = TRUE
  DropUnserviceable = FALSE
  MaxPending = 0
  BackendMax = 2
  Estimates <- NoEstimator
  BackendFaults = TRUE
  BackendAborts = FALSE
  CancelModes = {FALSE}
  Abandons = FALSE
  CloseCancels = FALSE
  LockYields = FALSE
  PassDelay = 0
  MaxTime = 3
SPECIFICATION Spec
PROPERTY WholeBatchFailsClosed
CHECK_DEADLOCK FALSE
