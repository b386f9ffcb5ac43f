SPECIFICATION SummarySpec
CONSTANTS
  u1 = u1
  u2 = u2
  a = a
  b = b
  w1 = w1
  w2 = w2
  r1 = r1
  NoOwner = NoOwner
  NoRequestKey = NoRequestKey
  Users = {u1, u2}
  Keys = {a, b}
  Owners = {w1, w2}
  Results = {r1}
  ResultOf <- MCResultOf
  UserOf <- MCUserOf
  Limit <- MCLimit
  Lease = 2
  MaxSkew = 0
  BatchSize = 1
  MaxClock = 3
  PeriodStart <- MCPeriodStart
INVARIANTS
  LedgerBalanced
  ChargedOnceWithResult
  OneHolderPerAttempt
PROPERTIES
  ImplementsLedger
  ExpiredLeaseReleased
CHECK_DEADLOCK FALSE
