\* late_worker
SPECIFICATION Spec
CONSTANTS
  Jobs = {j1}
  Workers = {w1, w2}
  Uploads = {j1}
  Cancellable = {}
  None = None
  Orphan = Orphan
  MaxRetries = 1
  MaxCrashes = 0
  MaxLapses = 0
  MaxDrains = 0
  MaxClears = 0
  MaxFaults = 0
PROPERTIES
  LateWorkerSparesClaim
SYMMETRY Symmetry
\* every job may have retired and every worker be idle
CHECK_DEADLOCK FALSE
