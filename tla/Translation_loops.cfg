\* two requests, one of them of any kind, with two texts to ask for
SPECIFICATION Spec
CONSTANTS
  Requests = {r1, r2}
  Keys = {k1, k2}
  Watched = r1
  Pieces = 2
  Trivial = {2}
  MaxAttempts = 3
  Accept = 2
  Top = 2
  CacheMax = 1
  Unscored = Unscored
  Pending = Pending
  Failed = Failed
INVARIANTS
  DocumentWhole
  CacheHoldsFinished
PROPERTIES
  KeepsPromise
SYMMETRY Symmetry
\* every request may have ended
CHECK_DEADLOCK FALSE
