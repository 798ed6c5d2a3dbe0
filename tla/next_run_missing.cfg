SPECIFICATION Spec
CONSTANTS
  Nobody = Nobody
  Topics <- MCTopics
  Targets <- MCTargets
  Workers = {w1}
  Interval = 2
  StaleAfter = 1
  Backoff = 1
  MaxAttempts = 2
  Horizon = 3
  MaxRuns = 1
  MaxFaults = 0
PROPERTY NextRunComes
CHECK_DEADLOCK FALSE
