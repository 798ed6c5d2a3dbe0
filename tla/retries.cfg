SPECIFICATION FairSpec
CONSTANTS
  Events = {e1}
  Workers = {w1, w2}
  NoRecord = none
  MaxAttempts = 1
  RedisStates = {"up", "down"}
  HandlerMayFail = TRUE
  SendMayFail = TRUE
  MaxPublished = 2
  MaxRedelivered = 1
  MaxCrashes = 1
INVARIANT TypeOK
INVARIANT BegunOnce
INVARIANT AccountedWithoutKeys
PROPERTY FatesSpec
PROPERTY Concluded
CHECK_DEADLOCK FALSE
