\* None of these holds: TLC stops at the first, and shows another when the
\* ones before it are left out.
CONSTANTS
  s = s
  c1 = c1
  c2 = c2
  q1 = q1
  u1 = u1
  u2 = u2
  a1 = a1
  d1 = d1
  Procs = {s, c1, c2}
  Databases = {d1}
  Queries = {q1}
  Updates = {u1, u2}
  Analyses = {a1}
  ProcOf <- MCProcOf
  MaxLockAttempts = 2
  MaxTries = 3
  MaxAttempts = 2
  MaxTicks = 2
  Disturbances = {"crash", "slowOpen", "busyDelete", "slowCheckpoint"}
SPECIFICATION Spec
INVARIANTS
  QuietAfterStop
  SessionKeepsDatabase
  OneOpener
PROPERTIES
  LargeLogStays
CHECK_DEADLOCK FALSE
