\* two handshakes on one channel, an API process and the worker
SPECIFICATION ProgressFairSpec
CONSTANTS
  Apis = {a1}
  Worker = w
  Conns = {c1, c2}
  Foreign = {c2}
  Outcomes = {"complete", "cancelled"}
  Job = job
  Chan = chan
  None = None
  FrameCap = 2
  MaxFrames = 1
INVARIANTS
  RelayedOnce
PROPERTIES
  VerdictArrives
\* the job told, the sockets closed and the bounds reached
CHECK_DEADLOCK FALSE
