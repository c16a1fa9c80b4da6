\* overlapping executions, recovery, crashes, a drain, a clear and a cancel
SPECIFICATION Spec
CONSTANTS
  Jobs = {j1}
  Workers = {w1, w2}
  Uploads = {j1}
  Cancellable = {j1}
  None = None
  Orphan = Orphan
  MaxRetries = 1
  MaxCrashes = 2
  MaxLapses = 1
  MaxDrains = 1
  MaxClears = 1
  MaxFaults = 0
INVARIANTS
  TypeOK
  OneHolder
  SingleVerdict
  RetiredHasOutcome
PROPERTIES
  RefinesLifecycle
SYMMETRY Symmetry
\* every job may have retired and every worker be idle
CHECK_DEADLOCK FALSE
