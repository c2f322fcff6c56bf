\* A query and an update of the server and an analysis, one database;
\* processes die.
CONSTANTS
  s = s
  c1 = c1
  c2 = c2
  q1 = q1
  u1 = u1
  u2 = u2
  a1 = a1
  d1 = d1
  Procs = {s, c1}
  Databases = {d1}
  Queries = {q1}
  Updates = {u1}
  Analyses = {a1}
  ProcOf <- MCProcOf
  MaxLockAttempts = 2
  MaxTries = 3
  MaxAttempts = 2
  MaxTicks = 1
  Disturbances = {"crash"}
SPECIFICATION FairSpec
INVARIANTS
  TypeOK
  LockExcludes
  SessionKeepsDatabase
  QuietAfterStop
PROPERTIES
  SweepsOnlyOrphans
  OpsEnd
CHECK_DEADLOCK FALSE
