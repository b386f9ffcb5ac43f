SPECIFICATION Spec
CONSTANTS
  u1 = u1
  a = a
  b = b
  w1 = w1
  w2 = w2
  NoOwner = NoOwner
  NoKey = NoKey
  Users = {u1}
  Keys = {a, b}
  Owners = {w1, w2}
  UserOf <- MCUserOf
  Limit <- MCLimit
  Lease = 2
  MaxSkew = 0
  BatchSize = 1
  MaxClock = 2
  MaxAttempts = 1
  MaxStalls = 1
  PeriodStart <- MCPeriodStart
INVARIANTS
  WithinLimit
  DigestChargedOnce
PROPERTIES
  AttemptFencesLease
  HolderKeepsLiveLease
SYMMETRY DigestSymmetry
CHECK_DEADLOCK FALSE
