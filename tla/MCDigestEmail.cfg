SPECIFICATION FairSpec
CONSTANTS
  w1 = w1
  w2 = w2
  NoOwner = NoOwner
  Workers = {w1, w2}
  MaxAttempts = 2
  MaxStalls = 1
  MaxEvents = 5
INVARIANTS
  SentMeansAccepted
  SentOnceUnlessLate
PROPERTIES
  PendingDeliveryProceeds
CHECK_DEADLOCK FALSE
