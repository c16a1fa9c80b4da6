\* crashes, a lapse, a drain, clears and submit faults under two fair worker loops
SPECIFICATION FairSpec
CONSTANTS
  Jobs = {j1}
  Workers = {w1, w2}
  Uploads = {j1}
  Cancellable = {}
  None = None
  Orphan = Orphan
  MaxRetries = 1
  MaxCrashes = 2
  MaxLapses = 1
  MaxDrains = 1
  MaxClears = 1
  MaxFaults = 1
PROPERTIES
  EveryJobRetires
\* every job may have retired and every worker be idle
CHECK_DEADLOCK FALSE
