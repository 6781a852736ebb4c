CONSTANTS
  MaxEpoch = 1
  MaxSequence = 1
SPECIFICATION FairSpec
CHECK_DEADLOCK FALSE
INVARIANTS StopTrueIsFinal WriterClosedInOrder
PROPERTIES PublishedAdvance NoResultOfOldStream WorkerEnds
