\* Two consumers and two producers, chunks of up to two actions, both handoff
\* policies and two watermarks.
CONSTANTS
  Getters = {g1, g2}
  Producers = {p1, p2}
  None = None
  SeqNos = {1, 2}
  Sizes = {0, 1, 2}
  Configs <- AllConfigs
SPECIFICATION FairSpec
INVARIANTS OneRefill NobodySleepsOnWork ActionsConserved CountersAgree
PROPERTIES ServedInOrder HandoffKept CloseReleasesAll TimedGetReturns
CHECK_DEADLOCK FALSE
