SPECIFICATION Spec
CONSTANTS
  Nobody = Nobody
  Topics <- MCTopics
  Targets <- MCTargets
  Workers = {w1, w2}
  Interval = 2
  StaleAfter = 1
  Backoff = 1
  MaxAttempts = 2
  Horizon = 3
  MaxRuns = 2
  MaxFaults = 1
INVARIANT TypeOK
INVARIANT NothingTwice
PROPERTY JobEnds
CHECK_DEADLOCK FALSE
