CONSTANTS
  s1 = s1
  s2 = s2
  Stoppers <- OneStopper
  Gated = TRUE
  MaxReopenAttempts = 1
  WarmupFrames = 1
  MaxEpoch = 1
  MaxSequence = 1
SPECIFICATION Spec
INVARIANT StopTrueIsTerminal
