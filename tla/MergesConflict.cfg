SPECIFICATION MergeSpec
CONSTANTS
  p1 = p1
  p2 = p2
  d1 = d1
  d2 = d2
  d3 = d3
  Pulls = {p1, p2}
  Deliveries = {d1, d2}
  MaxMishaps = 0
INVARIANTS ConflictGetsWorker
CHECK_DEADLOCK FALSE
