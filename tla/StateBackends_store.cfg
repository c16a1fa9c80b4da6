\* each backend, two callers and the prune loop, one mishap, one cancellation
SPECIFICATION FairSpec
CONSTANTS
  Artifacts = {a1, a2}
  Channels = {ch}
  Clients = {c1, c2}
  Pruner = pruner
  MaxMishaps = 1
  MaxCancels = 1
INVARIANTS
  KeptUntilGone
  AdmittedOnce
PROPERTIES
  BlobsReclaimed
\* nothing more may be stored
CHECK_DEADLOCK FALSE
