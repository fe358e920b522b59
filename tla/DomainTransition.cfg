\* The whole engine on the tree root - {1 - 2, 3}: the manager, one member
\* session, the observer and the timer, one transition, fail policy Stop.
CONSTANTS
  s1 = s1
  s2 = s2
  ctl = ctl
  None = None
  Db <- MCDb
  HierId = 1
  Sess <- MCSess
  Ctl = ctl
  FailPolicy = "Stop"
  AckErrs <- MCAckErrs
  ObserveTypes <- MCObserveTypes
  BadId = 7
  MaxTransitions = 1
SPECIFICATION Spec
\* Every state without a successor is one where a null dereference ended
\* the emulator (crash # "none"); every handler is enabled otherwise.
CHECK_DEADLOCK FALSE
PROPERTY TraversalReachesEveryLeaf
