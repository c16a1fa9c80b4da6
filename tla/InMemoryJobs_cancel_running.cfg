\* a running job completes after its cancellation
SPECIFICATION Spec
CONSTANTS
  Jobs = {j1}
  Uploads = {j1}
  None = None
  MaxRestarts = 0
  MaxFaults = 0
PROPERTIES
  RunningCancelWins
\* the service may be down for good, or every job settled
CHECK_DEADLOCK FALSE
