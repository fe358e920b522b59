\* Two member sessions, each joined once, on the leaves of root - {1, 2};
\* two transitions under fail policy Continue; the timer is weakly fair.
CONSTANTS
  s1 = s1
  s2 = s2
  ctl = ctl
  None = None
  Db <- MCForkDb
  HierId = 1
  Sess <- MCTwoSess
  Ctl = ctl
  FailPolicy = "Continue"
  AckErrs <- MCAckErrs
  ObserveTypes <- MCObserveTypes
  BadId = 7
  MaxTransitions = 2
SPECIFICATION MCJoinOnceSpec
\* States without a successor are those a null dereference ended.
CHECK_DEADLOCK FALSE
PROPERTY AcknowledgementWaitEnds
