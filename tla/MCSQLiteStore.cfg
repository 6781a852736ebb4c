SPECIFICATION Spec
CONSTANTS
  w = w
  p = p
  ka = ka
  kb = kb
  Nobody = Nobody
  Connections = {w, p}
  Observations <- MCObservations
  MaxRows = 2
  MaxBytes = 3
  MaxPurgeRows = 1
  MaxSequence = 4
  MaxTime = 1
INVARIANTS
  FileVerifies
  ReceiptsHold
  OwnCountersAgree
PROPERTIES
  ImplementsStore
