\* r1 and r2 share a database path, r3 has its own; the pool holds two entries
\* and each entry two connections for three callers.
CONSTANTS
  r1 = r1
  r2 = r2
  r3 = r3
  p1 = p1
  p2 = p2
  q1 = q1
  q2 = q2
  q3 = q3
  Repos = {r1, r2, r3}
  Paths = {p1, p2}
  PathOf <- MCPathOf
  Queries = {q1, q2, q3}
  MaxConns = 2
  MaxPool = 2
  MaxInits = 3
  MaxOrphans = 1
  Disturbances = {"close", "queryTimeout"}
SPECIFICATION FairSpec
INVARIANTS
  TypeOK
  ConnectionsAccounted
  DatabaseServesItsEntries
PROPERTIES
  WaiterServed
CHECK_DEADLOCK FALSE
