\* a claim that expired, and a recovery that dies after its script
SPECIFICATION Spec
CONSTANTS
  Jobs = {j1}
  Workers = {w1}
  Uploads = {j1}
  Cancellable = {}
  None = None
  Orphan = Orphan
  MaxRetries = 0
  MaxCrashes = 1
  MaxLapses = 1
  MaxDrains = 0
  MaxClears = 0
  MaxFaults = 0
INVARIANT EvictedEndsInError
\* every job may have retired and every worker be idle
CHECK_DEADLOCK FALSE
