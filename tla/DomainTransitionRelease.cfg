\* Two member sessions, each joined once, on the leaves of root - {1, 2};
\* one transition under fail policy Continue.
CONSTANTS
  s1 = s1
  s2 = s2
  ctl = ctl
  None = None
  Db <- MCForkDb
  HierId = 1
  Sess <- MCTwoSess
  Ctl = ctl
  FailPolicy = "Continue"
  AckErrs <- MCAckErrs
  ObserveTypes <- MCObserveTypes
  BadId = 7
  MaxTransitions = 1
SPECIFICATION MCJoinOnceSpec
\* Every state without a successor is one where a null dereference ended
\* the emulator (crash # "none"); every handler is enabled otherwise.
CHECK_DEADLOCK FALSE
INVARIANT AwaitedAckDeliverable
