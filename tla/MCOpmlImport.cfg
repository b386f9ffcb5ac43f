SPECIFICATION FairSpec
CONSTANTS
  w1 = w1
  w2 = w2
  v1 = v1
  v2 = v2
  s1 = s1
  s2 = s2
  NoEntry = NoEntry
  NoOwner = NoOwner
  NoSlot = NoSlot
  Entries = {1, 2}
  Subscribed = {2}
  Workers = {w1, w2}
  Sessions = {v1, v2}
  Slots = {s1}
  Lease = 1
  Deadline = 1
  BatchDeadline = 1
  BatchSize = 1
  MaxAttempts = 2
  MaxStalls = 1
  MaxEvents = 2
INVARIANTS
  CountersBackedByEntries
  CompletedMeansFinished
PROPERTIES
  OutcomeIsFinal
  QueuedImportEnds
