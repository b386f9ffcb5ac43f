SPECIFICATION FairSpec
CONSTANTS
  w1 = w1
  w2 = w2
  a1 = a1
  a2 = a2
  NoOwner = NoOwner
  Articles = {a1}
  Matching = {a1}
  Published <- PublishedAt
  Workers = {w1, w2}
  Day = 2
  Lookback = 1
  IngestDelay = 1
  Lease = 2
  CandidateLimit = 2
  ItemLimit = 2
  EmailEnabled = TRUE
  MaxAttempts = 1
  MaxStalls = 1
  MaxClock = 4
  MaxEvents = 1
INVARIANTS
  NoArticleRepeated
  NoMatchingArticleLost
PROPERTIES
  NothingAfterDisable
  DueRuleRuns
  PendingEmailQueued
