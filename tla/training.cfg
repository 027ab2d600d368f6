CONSTANTS
  Limit = 2
  Steps = {s1}
  Names <- SomeNames
  Durations = {1}
  Bad = Bad
  Batches = {2}
  MaxSteps = 3
  MaxPhase = 2
  None = None
  Baseline <- NoBaseline
  Axes <- SmallAxes
  MaxTrials = 2
  MinHeadroom = 1
  MaxP95 <- LatencyLimit
  Nobody = Nobody
  Headrooms = {0, 1, 2}
  Latencies = {1, 2, 3}
  LongSweep = 1
SPECIFICATION Spec
INVARIANTS ProfileIsTrue SweepIsComplete PicksTheFastest
CHECK_DEADLOCK FALSE
