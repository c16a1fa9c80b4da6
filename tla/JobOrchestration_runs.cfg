\* two runs; one mishap to the first, or a new document
SPECIFICATION Spec
CONSTANTS
  MaxRuns = 2
  MaxUpsets = 1
  Unlucky = {1}
  Seen = {1}
  MaxStatusFailures = 1
  MaxReconnects = 1
  None = None
INVARIANTS
  PagesOfThisRun
  PollKeepsGoing
  LiveRunStaysConnected
  NoRunaway
\* the user may start nothing more
CHECK_DEADLOCK FALSE
