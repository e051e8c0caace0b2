\* One run at a time, agents that fail, interrupted runs, one restart or refused statement.
CONSTANTS
  NumNodes = 4
  Kind <- MCBranchKind
  Edges <- MCBranchEdges
  Builders = {b1}
  Resolvers = {r1, r2}
  Sweepers = {s1}
  Choices = {"approved", "revision_requested"}
  MaxHops = 3
  MaxAttempts = 2
  MaxMishaps = 1
  Events = {"agent_error", "bad_inputs", "timeout", "restart", "refused"}
  Overlap = FALSE
SPECIFICATION Spec
INVARIANTS VerdictBacked ExecOnce FailedHasCause AttemptsBounded
PROPERTIES NoWorkAfterEnd
CHECK_DEADLOCK FALSE
