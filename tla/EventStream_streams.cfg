\* rotation, pruning and the races of one consumer with two jobs
SPECIFICATION StreamFairSpec
CONSTANTS
  Jobs = {j1, j2}
  Streams = {c1}
  Followed = {j1}
  None = None
  MaxLen = 2
  MaxBuffered = 1
  MaxEvents = 4
INVARIANTS
  InOrder
  NoGap
PROPERTIES
  StreamEnds
\* every stream may have ended
CHECK_DEADLOCK FALSE
