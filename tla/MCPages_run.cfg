SPECIFICATION MCFairSpec
CONSTANTS
  Pages = {p1, p2}
  Boxes = {b1, b2}
  Concurrency = 2
  MaxRetries = 2
  Readings = {"none", "noisy", "fluent"}
  Extent = 10
  Unit = 1000
  MaxChars = 8
  OverlapChars = 4
INVARIANTS FailuresReported CancelWins NothingOutlives TextAligned ChunksWhole
PROPERTIES TextNeverWorsens RunEnds
