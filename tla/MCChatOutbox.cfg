SPECIFICATION Spec
CONSTANTS
  w1 = w1
  w2 = w2
  n1 = n1
  n2 = n2
  MaxRows = 2
  Workers = {w1, w2}
  Names = {n1, n2}
  NoOwner = NoOwner
  Lease = 2
  Backoff = 1
  BatchSize = 2
  MaxAttempts = 2
  MaxStall = 2
  MaxFaults = 1
INVARIANTS
  PublishersOverlapOnlyLate
PROPERTIES
  SettledIsFinal
  EventSettles
CHECK_DEADLOCK FALSE
