SPECIFICATION BulkSpec
CONSTANTS
  r1 = r1
  r2 = r2
  w1 = w1
  w2 = w2
  NoOwner = NoOwner
  MaxArticle = 3
  Touched = {2}
  ReadBatchSize = 2
  MaxJobs = 2
  Requests = {r1, r2}
  Workers = {w1, w2}
  MaxBulkAttempts = 2
  MaxStalls = 1
  MaxBulkEvents = 2
INVARIANTS
  CompletedMeansMarked
PROPERTIES
  BulkJobEnds
CHECK_DEADLOCK FALSE
