SPECIFICATION MergeFairSpec
CONSTANTS
  p1 = p1
  p2 = p2
  d1 = d1
  d2 = d2
  d3 = d3
  Pulls = {p1, p2}
  Deliveries = {d1, d2, d3}
  MaxMishaps = 1
INVARIANTS OneMergeInFlight MergedMeansMerged NoConflictAfterMerge QueuedIsTended
PROPERTIES QueueNeverJams
CHECK_DEADLOCK FALSE
