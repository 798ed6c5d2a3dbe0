SPECIFICATION Spec
CONSTANTS
  Nobody = Nobody
  UserMsgs <- MCUserMsgs
  OwnMsgs <- MCOwnMsgs
  Workers = {w1, w2}
  Window = 2
  StaleAfter = 2
  Backoff = 1
  MaxAttempts = 2
  Horizon = 5
  KeepLast = 3
  KeepTail = 1
  ReadLimit = 2
  MaxLines = 2
  MaxDelay = 1
  MaxFaults = 1
INVARIANT TypeOK
INVARIANT NothingSkipped
INVARIANT NothingForgotten
INVARIANT SummarisedOnce
PROPERTY EveryMessageSettles
CHECK_DEADLOCK FALSE
