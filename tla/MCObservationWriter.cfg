CONSTANTS
  s1 = s1
  s2 = s2
  Stoppers <- MCStoppers
  Sizes <- MCSizes
  MaxPendingCount = 2
  MaxPendingBytes = 3
  MaxSubmissions = 4
SPECIFICATION FairSpec
INVARIANTS Accounting DrainLosesNothing StoreNotLeaked
PROPERTIES ImplementsDelivery ShutdownCompletes EventuallySettled
