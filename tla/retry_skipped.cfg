SPECIFICATION Spec
CONSTANTS
  Events = {e1}
  Workers = {w1, w2}
  NoRecord = none
  MaxAttempts = 2
  RedisStates = {"up"}
  HandlerMayFail = TRUE
  SendMayFail = FALSE
  MaxPublished = 1
  MaxRedelivered = 0
  MaxCrashes = 0
SYMMETRY Symmetry
INVARIANT Accounted
CHECK_DEADLOCK FALSE
