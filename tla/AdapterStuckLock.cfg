\* A process dies while it opens a database.
CONSTANTS
  s = s
  c1 = c1
  c2 = c2
  q1 = q1
  u1 = u1
  u2 = u2
  a1 = a1
  d1 = d1
  Procs = {s, c1}
  Databases = {d1}
  Queries = {q1}
  Updates = {u1}
  Analyses = {a1}
  ProcOf <- MCProcOf
  MaxLockAttempts = 2
  MaxTries = 3
  MaxAttempts = 2
  MaxTicks = 2
  Disturbances = {"crash"}
SPECIFICATION Spec
INVARIANTS
  LocksAreReclaimed
CHECK_DEADLOCK FALSE
