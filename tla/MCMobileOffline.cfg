SPECIFICATION Spec
CONSTANTS
  MaxChange = 3
  Input <- MCInput
  MaxRequests = 2
  QueueLimit = 2
  MaxAttempts = 2
  MaxFaults = 3
  MaxEvents = 1
INVARIANTS
  AppliedOnce
  ConfirmedIsApplied
PROPERTIES
  ConfirmedStays
  QueueDrains
CHECK_DEADLOCK FALSE
