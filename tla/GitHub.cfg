SPECIFICATION GitHubSpec
CONSTANTS
  p1 = p1
  d1 = d1
  b1 = b1
  b2 = b2
  Pulls = {p1}
  Deliveries = {d1}
  Reports = {b1, b2}
  Tracked = {p1}
  Triggers <- AllTriggers
  Issues <- AllIssues
  Keys = {"ci", "bug", "bugs"}
  Matches <- Starts
  PageSize = 1
  Advances = {"awaiting_ci"}
  MaxFailures = 2
  MaxBlocks = 2
  FixAttemptCap = 2
  MaxMishaps = 1
SYMMETRY Alike
INVARIANTS TypeOK FixesBounded OneIssuePerKey
CHECK_DEADLOCK FALSE
