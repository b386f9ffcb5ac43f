SPECIFICATION FairSpec
CONSTANTS
  w1 = w1
  w2 = w2
  a = a
  b = b
  NoOwner = NoOwner
  Workers = {w1, w2}
  Items = {a, b}
  Versions = 2
  Doc <- MCDoc
  BatchSize = 1
  MaxAttempts = 2
  MaxStalls = 1
  MaxGen = 3
  MaxEvents = 2
INVARIANTS
  ValidatorsCoverUnlessLate
PROPERTIES
  NewerResultStays
  OnlyInsertedAnnounced
  DueFeedRefreshed
CHECK_DEADLOCK FALSE
