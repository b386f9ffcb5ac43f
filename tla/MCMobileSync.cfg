SPECIFICATION SyncSpec
CONSTANTS
  w1 = w1
  w2 = w2
  k1 = k1
  k2 = k2
  NoKey = NoKey
  Keys = {k1, k2}
  Writers = {w1, w2}
  MaxSeq = 2
  PageLimit = 1
  PruneBatch = 1
  MaxSyncFaults = 1
INVARIANTS
  StaleIsCaught
PROPERTIES
  RequestCatchesUp
CHECK_DEADLOCK FALSE
