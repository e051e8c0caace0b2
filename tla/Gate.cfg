\* Two tool calls and a governance hold, answered on a card and from the inbox,
\* while one agent's policy is edited.
CONSTANTS
  t1 = t1  t2 = t2  t3 = t3  h1 = h1  a1 = a1  a2 = a2  u1 = u1  u2 = u2
  card1 = card1  card2 = card2  inbox1 = inbox1
  Calls = {t1, t2, h1}
  CallKind <- MCCallKind
  AgentOf <- MCAgentOf
  Agents = {a1, a2}
  Cards = {card1}
  Inboxes = {inbox1}
  UserOf <- MCUserOf
  Owner = u1
  Edited = {a1}
  InitialPolicy <- MCPolicy
  DefaultScope = "blocked"
  EditScopes = {"auto_approved"}
  Offered = {"allow_always", "allow_session", "allow_1h", "deny"}
  MaxMishaps = 1
SPECIFICATION FairSpec
INVARIANTS TypeOK RanOnlyIfAllowed BlockedNeverRuns GrantsEarned
PROPERTIES KeepsGateContract EveryCallEnds
CHECK_DEADLOCK FALSE
