SPECIFICATION Spec
CONSTANTS
  m = m
  n = n
  s1 = s1
  s2 = s2
  s3 = s3
  a1 = a1
  a2 = a2
  Sessions = {m, n}
  Submits = {s1, s2, s3}
  Aborts = {a1, a2}
  Serial = {n}
INVARIANTS TypeOK AbortReaches RegistryDrains AbortsOnce EventEarned
SYMMETRY Alike
CHECK_DEADLOCK FALSE
