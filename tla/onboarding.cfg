SPECIFICATION Spec
CONSTANTS
  p1 = p1
  p2 = p2
  Processes <- MCProcesses
  FullFee = 4
  MaxTurns = 4
  MaxFaults = 2
INVARIANT TypeOK
INVARIANT StageIsEarned
INVARIANT CompletionIsWhole
PROPERTY NeverGoesBack
