SPECIFICATION FairSpec
CONSTANTS
  root = root
  c1 = c1
  c2 = c2
  a = a
  b = b
  r1 = r1
  r2 = r2
  Tasks = {root, c2}
  Agents = {a, b}
  AssignedTo <- AgentOf
  Parent <- ParentOf
  Requests = {r1}
  MayAsk <- Kinds
  ManualWakes <- Nothing
  MaxIterations = 1
  MaxRetries = 3
  QueueCap = 3
  MaxFaults = 0
  Events = {}
PROPERTIES TriggeredOnceTerminal
CHECK_DEADLOCK FALSE
