\* Three inferences and two aclose() calls over a server that may answer
\* wrongly, late or never.
CONSTANTS
  Calls = {c1, c2, c3}
  Closers = {k1, k2}
  None = None
  Failed = Failed
  Released = Released
  Alien = Alien
  Durations = {1}
  LatencyWindow = 2
SPECIFICATION FairSpec
INVARIANTS NotPoisoned CleanShutdown
PROPERTIES NoWorkForTheGone CallsEnd KeepsService
CHECK_DEADLOCK FALSE
