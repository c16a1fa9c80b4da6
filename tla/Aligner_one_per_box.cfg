INIT MCInit
NEXT MCNext
CONSTANTS
  Pages = {}
  Boxes = {b1, b2}
  Concurrency = 2
  MaxRetries = 2
  Readings = {"none", "noisy", "fluent"}
  Extent = 10
  Unit = 1000
  MaxChars = 8
  OverlapChars = 4
INVARIANTS OneTextPerBox
CHECK_DEADLOCK FALSE
