CONSTANTS
  s1 = s1
  s2 = s2
  Stoppers <- TwoStoppers
  Gated = TRUE
  MaxReopenAttempts = 1
  WarmupFrames = 1
  MaxEpoch = 1
  MaxSequence = 1
SPECIFICATION FairSpec
INVARIANTS CleanupComplete OneCallAfterStop
PROPERTIES ImplementsOwner FramesAdvance StopCompletes
