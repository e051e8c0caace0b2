\* A restart in the middle of a run.
CONSTANTS
  NumNodes = 3
  Kind <- MCKind
  Edges <- MCEdges
  Builders = {b1}
  Resolvers = {r1}
  Sweepers = {s1}
  Choices = {"approved"}
  MaxHops = 8
  MaxAttempts = 2
  MaxMishaps = 1
  Events = {"restart"}
  Overlap = TRUE
SPECIFICATION FairSpec
PROPERTIES ApprovedPlanEnds
CHECK_DEADLOCK FALSE
