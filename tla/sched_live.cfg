\* Arrival order without coalescing, a backend whose estimate moves and which
\* may fail, callers that give up: whoever waits is answered, close() returns.
CONSTANTS
  Requests = {r1, r2}
  Sessions = {s1}
  Workers = {w1}
  Closers = {c1}
  None = None
  Alien = Alien
  SeqNos = {1}
  Timeouts = {1, 3}
  Ages = {0, 1}
  Priorities = {0, 1}
  Keys = {k1}
  BadKeys = {}
  Policy = "fifo"
  Window = 1
  Guard = 0
  MaxBatchSize = 1
  Coalesce = FALSE
  Enforce = FALSE
  DropMissed = FALSE
  DropUnserviceable = TRUE
  MaxPending = 0
  BackendMax = 2
  Estimates <- MovingEstimator
  BackendFaults = TRUE
  BackendAborts = FALSE
  CancelModes = {TRUE, FALSE}
  Abandons = TRUE
  CloseCancels = FALSE
  LockYields = FALSE
  PassDelay = 0
  MaxTime = 3
SPECIFICATION FairSpec
PROPERTIES EveryRequestResolved CloseReturns
CHECK_DEADLOCK FALSE
