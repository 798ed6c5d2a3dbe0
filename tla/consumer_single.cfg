SPECIFICATION Spec
CONSTANTS
  Consumers = {c1}
  Nobody = nobody
  Slots = {s1, s2}
  AutoReset = "earliest"
  MaxBatch = 1
  MaxGap = 1
  ResumeAt = 0
  HandOnMayFail = TRUE
  CommitMayRaise = TRUE
  RestartMayFail = TRUE
  MaxLog = 2
  MaxExpels = 1
  MaxCrashes = 1
  MaxRestarts = 1
SYMMETRY SlotSymmetry
INVARIANT TrackerKeepsUp
PROPERTY CommitMonotone
