SPECIFICATION Spec
CONSTANTS
  Nobody = Nobody
  Msgs <- MCMsgs
  Workers = {w1, w2}
  Window = 2
  StaleAfter = 2
  Backoff = 1
  MaxAttempts = 2
  Horizon = 5
  MaxDelay = 1
  MaxFaults = 1
INVARIANT TypeOK
INVARIANT NudgedOncePerSilence
INVARIANT DoneMeansNudged
INVARIANT NudgedInSilence
PROPERTY EverySilenceEnds
CHECK_DEADLOCK FALSE
