SPECIFICATION Spec
CONSTANTS
  Consumers = {c1, c2}
  Nobody = nobody
  Slots = {s1, s2}
  AutoReset = "latest"
  MaxBatch = 2
  MaxGap = 1
  ResumeAt = 0
  HandOnMayFail = TRUE
  CommitMayRaise = TRUE
  RestartMayFail = FALSE
  MaxLog = 2
  MaxExpels = 1
  MaxCrashes = 1
  MaxRestarts = 0
SYMMETRY Symmetry
INVARIANT TypeOK
INVARIANT NothingSkipped
PROPERTY LedgerSpec
