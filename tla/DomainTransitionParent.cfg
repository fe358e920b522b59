\* A domain with children never runs its members phase or publishes.
CONSTANTS
  s1 = s1
  s2 = s2
  ctl = ctl
  None = None
  Db <- MCDb
  HierId = 1
  Sess <- MCSess
  Ctl = ctl
  FailPolicy = "Stop"
  AckErrs <- MCAckErrs
  ObserveTypes <- MCObserveTypes
  BadId = 7
  MaxTransitions = 2
SPECIFICATION MCServerSpec
\* States without a successor are those a null dereference ended.
CHECK_DEADLOCK FALSE
PROPERTY TraversalReachesEveryDomain
