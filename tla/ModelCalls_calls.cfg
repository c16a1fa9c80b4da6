SPECIFICATION FairSpec
CONSTANTS
  Callers = {c1, c2}
  Threshold = 2
  MaxRetries = 2
  MaxCancels = 1
PROPERTIES Recovers
