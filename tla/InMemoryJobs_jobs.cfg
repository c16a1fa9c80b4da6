\* races, a restart and a failing call, with fair tasks
SPECIFICATION FairSpec
CONSTANTS
  Jobs = {j1, j2}
  Uploads = {j1}
  None = None
  MaxRestarts = 1
  MaxFaults = 2
INVARIANTS
  TypeOK
  NoStranded
  QueuedCancelWins
  CompletionStands
  SpoolDrained
PROPERTIES
  EveryJobSettles
\* the service may be down for good, or every job settled
CHECK_DEADLOCK FALSE
