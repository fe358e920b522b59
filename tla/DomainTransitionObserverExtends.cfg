\* The whole engine on the tree root - 1: an observer that re-arms its notify
\* request while the member owes an acknowledgement; one transition, policy Stop.
CONSTANTS
  s1 = s1
  s2 = s2
  ctl = ctl
  None = None
  Db <- MCLeafDb
  HierId = 1
  Sess <- MCSess
  Ctl = ctl
  FailPolicy = "Stop"
  AckErrs <- MCAckErrs
  ObserveTypes <- MCObserveTypes
  BadId = 7
  MaxTransitions = 1
SPECIFICATION Spec
\* States without a successor are those a null dereference ended.
CHECK_DEADLOCK FALSE
PROPERTY AcknowledgementWaitEnds
