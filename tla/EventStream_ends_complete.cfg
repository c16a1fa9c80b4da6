\* an event recorded while the backlog is being sent
SPECIFICATION StreamSpec
CONSTANTS
  Jobs = {j1, j2}
  Streams = {c1}
  Followed = {j1}
  None = None
  MaxLen = 2
  MaxBuffered = 1
  MaxEvents = 4
PROPERTIES
  EndsComplete
CHECK_DEADLOCK FALSE
