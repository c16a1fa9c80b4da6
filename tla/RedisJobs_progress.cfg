\* progress under fair workers
SPECIFICATION FairSpec
CONSTANTS
  Jobs = {j1}
  Workers = {w1, w2}
  Uploads = {j1}
  Cancellable = {j1}
  None = None
  Orphan = Orphan
  MaxRetries = 1
  MaxCrashes = 1
  MaxLapses = 0
  MaxDrains = 0
  MaxClears = 0
  MaxFaults = 0
INVARIANTS
  PendingHasPayload
PROPERTIES
  EveryJobRetires
\* every job may have retired and every worker be idle
CHECK_DEADLOCK FALSE
