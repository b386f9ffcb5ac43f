SPECIFICATION Spec
CONSTANTS
  c1 = c1
  c2 = c2
  NoOne = NoOne
  Calls = {c1, c2}
  MaxRequests = 2
  MaxSessions = 3
  MaxDevices = 1
  MaxEvents = 2
PROPERTIES
  SupersededLeavesState
SYMMETRY CallSymmetry
CHECK_DEADLOCK FALSE
