SPECIFICATION FairSpec
CONSTANTS
  Consumers = {c1, c2}
  Nobody = nobody
  Slots = {s1, s2}
  AutoReset = "earliest"
  MaxBatch = 1
  MaxGap = 1
  ResumeAt = 0
  HandOnMayFail = FALSE
  CommitMayRaise = FALSE
  RestartMayFail = FALSE
  MaxLog = 5
  MaxExpels = 0
  MaxCrashes = 1
  MaxRestarts = 0
INVARIANT GapBounded
PROPERTY Delivered
PROPERTY PauseIsReleased
