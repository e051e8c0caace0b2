SPECIFICATION FairSpec
CONSTANTS
  root = root
  c1 = c1
  c2 = c2
  a = a
  b = b
  r1 = r1
  r2 = r2
  Tasks = {root, c1, c2}
  Agents = {a, b}
  AssignedTo <- AgentOf
  Parent <- ParentOf
  Requests = {}
  MayAsk <- Kinds
  ManualWakes <- Nothing
  MaxIterations = 1
  MaxRetries = 2
  QueueCap = 3
  MaxFaults = 1
  Events = {"crash", "stale_recovery"}
INVARIANTS SynthesisOnce AssignedIsTended
PROPERTIES LiveWorkKept NeverStuckInProgress SynthesisHappens
CHECK_DEADLOCK FALSE
