\* drain_input
SPECIFICATION Spec
CONSTANTS
  Jobs = {j1}
  Workers = {w1}
  Uploads = {j1}
  Cancellable = {}
  None = None
  Orphan = Orphan
  MaxRetries = 1
  MaxCrashes = 0
  MaxLapses = 0
  MaxDrains = 1
  MaxClears = 0
  MaxFaults = 0
PROPERTIES
  DrainKeepsInput
SYMMETRY Symmetry
\* every job may have retired and every worker be idle
CHECK_DEADLOCK FALSE
