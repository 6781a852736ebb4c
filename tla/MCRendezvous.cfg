SPECIFICATION MCSpec
CONSTANTS
  ra = ra
  rb = rb
  rc = rc
  sa = sa
  sb = sb
  Readers = {ra, rb}
  Callers = {ra, rb, rc}
  Schemas = {sa, sb}
  Ages = {0, 1}
  MaxOffers = 2
  MaxTime = 2
  MaxFrames = 3
INVARIANTS
  OkIsFresh
  EveryWaiterServed
  FrameOfItsDemand
