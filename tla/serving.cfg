\* Two requests of three models, one without a route, over each of the
\* backends; batches of up to two, fast and slow.
CONSTANTS
  MaxBatchSize = 2
  LatencyWindow = 2
  SafetyPercent = 110
  Initial <- InitialLatency
  Requests = {r1, r2}
  None = None
  Alien = Alien
  Kinds = {"http", "smolvla", "adapter"}
  Signatures = {"s"}
  Routes <- TwoRoutes
  Models = {"m1", "m2", "m3"}
  Served = "m1"
  Mixed = FALSE
  KeepsMissed = FALSE
  Durations = {1, 5}
SPECIFICATION FairSpec
INVARIANTS BackendClosedLast LargerNeverCheaper
PROPERTIES KeepsService EveryoneAnswered
CHECK_DEADLOCK FALSE
