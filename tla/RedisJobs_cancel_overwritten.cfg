\* cancel_overwritten
SPECIFICATION Spec
CONSTANTS
  Jobs = {j1}
  Workers = {w1}
  Uploads = {j1}
  Cancellable = {j1}
  None = None
  Orphan = Orphan
  MaxRetries = 0
  MaxCrashes = 0
  MaxLapses = 0
  MaxDrains = 0
  MaxClears = 0
  MaxFaults = 0
PROPERTIES
  CancellationKept
SYMMETRY Symmetry
\* every job may have retired and every worker be idle
CHECK_DEADLOCK FALSE
