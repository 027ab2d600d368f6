\* Three adapters of every size up to a MiB and a half, and every budget up to
\* three MiB.
CONSTANTS
  Count = 3
  Unit = 2
  Sizes = {0, 1, 2, 3}
  Gains = {0, 1, 2}
  Budgets = {0, 1, 2, 3, 5, 6}
  None = None
SPECIFICATION Spec
INVARIANTS TableIsBest PlanIsOptimal PlanFits FirstOfEquals
CHECK_DEADLOCK FALSE
