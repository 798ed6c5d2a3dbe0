SPECIFICATION Spec
CONSTANTS
  Uma = Uma
  Amy = Amy
  Bob = Bob
  UmaAmy = UmaAmy
  UmaBob = UmaBob
  BobAmy = BobAmy
  Users <- MCUsers
  Requests <- MCRequests
  Batches <- MCBatches
  InitiatorOf <- MCInitiatorOf
  TargetOf <- MCTargetOf
  Workers = {w1, w2}
  NumChats = 4
  MaxAnswers = 3
  MaxFaults = 1
  Threshold = 1
INVARIANT TypeOK
INVARIANT GroupIsReal
INVARIANT OneChatUnlessDisturbed
PROPERTY AcceptedMeet
PROPERTY IntroductionsSpec
CHECK_DEADLOCK FALSE
