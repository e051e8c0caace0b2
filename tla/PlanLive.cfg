\* Handler and database errors, no restart, runs shorter than the stale window.
CONSTANTS
  NumNodes = 3
  Kind <- MCKind
  Edges <- MCEdges
  Builders = {b1}
  Resolvers = {r1}
  Sweepers = {s1}
  Choices = {"approved", "rejected", "revision_requested"}
  MaxHops = 8
  MaxAttempts = 2
  MaxMishaps = 1
  Events = {"agent_error", "db_error", "disconnect", "archive", "refused"}
  Overlap = TRUE
SPECIFICATION FairSpec
INVARIANTS TypeOK NoUnapprovedExecution
PROPERTIES WakeupsDrained ApprovedPlanEnds
CHECK_DEADLOCK FALSE
