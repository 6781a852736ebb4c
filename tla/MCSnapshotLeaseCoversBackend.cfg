CONSTANTS
  c1 = c1
  c2 = c2
  Nobody = Nobody
  Callers <- MCCallers
  WarmupFrames = 1
  MaxAttempts = 2
  MaxRequests = 4
SPECIFICATION Spec
CHECK_DEADLOCK FALSE
INVARIANTS LeaseCoversBackend
