SPECIFICATION Spec
CONSTANTS
  Pages = {p1, p2}
  Boxes = {b1, b2}
  Concurrency = 2
  MaxRetries = 2
  Readings = {"none", "noisy", "fluent"}
INVARIANT SignalsStayBare
