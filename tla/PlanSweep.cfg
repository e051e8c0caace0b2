\* A build, an approval and the sweeper overlap; runs may be slow.
CONSTANTS
  NumNodes = 3
  Kind <- MCKind
  Edges <- MCEdges
  Builders = {b1}
  Resolvers = {r1}
  Sweepers = {s1}
  Choices = {"approved"}
  MaxHops = 8
  MaxAttempts = 2
  MaxMishaps = 0
  Events = {"slow"}
  Overlap = TRUE
SPECIFICATION Spec
INVARIANTS VerdictBacked DeadLetterEarned EdgesRespected
PROPERTIES KeepsContract
CHECK_DEADLOCK FALSE
