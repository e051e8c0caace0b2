SPECIFICATION Spec
CONSTANTS
  root = root
  c1 = c1
  c2 = c2
  a = a
  b = b
  r1 = r1
  r2 = r2
  Tasks = {root, c2}
  Agents = {a, b}
  AssignedTo <- AgentOf
  Parent <- ParentOf
  Requests = {r1, r2}
  MayAsk <- Kinds
  ManualWakes <- Misdirected
  MaxIterations = 1
  MaxRetries = 1
  QueueCap = 1
  MaxFaults = 1
  Events = {"stop", "budget", "many_tools", "agent_error", "db_error", "crash"}
INVARIANTS TypeOK ParkedCanWake IterationsBounded
CHECK_DEADLOCK FALSE
