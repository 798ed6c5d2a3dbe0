SPECIFICATION FairSpec
CONSTANTS
  Kinds <- TextsAndShares
  Debounce = 2
  Window = 3
  ProcessingMayFail = TRUE
  CancelMayBeLost = TRUE
  MaxMessages = 3
  MaxShutdowns = 1
  MaxHeld = 2
INVARIANT TypeOK
INVARIANT Conserved
INVARIANT FirstWaitBounded
PROPERTY InboxSpec
PROPERTY AllHandled
