\* shutdown leaves an upload behind
SPECIFICATION Spec
CONSTANTS
  Jobs = {j1}
  Uploads = {j1}
  None = None
  MaxRestarts = 1
  MaxFaults = 0
PROPERTIES
  ShutdownCleansInput
\* the service may be down for good, or every job settled
CHECK_DEADLOCK FALSE
