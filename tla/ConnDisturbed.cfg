\* None of these holds: TLC stops at the first, and shows another when the
\* ones before it are left out.
CONSTANTS
  r1 = r1
  r2 = r2
  r3 = r3
  p1 = p1
  p2 = p2
  q1 = q1
  q2 = q2
  q3 = q3
  Repos = {r1, r2}
  Paths = {p1}
  PathOf <- MCPathOf2
  Queries = {q1, q2, q3}
  MaxConns = 2
  MaxPool = 1
  MaxInits = 3
  MaxOrphans = 1
  Disturbances = {"close", "queryTimeout", "sharedOpen"}
SPECIFICATION Spec
INVARIANTS
  PoolBounded
  OneQueryPerConnection
  DatabaseOpenUnderQuery
  DatabaseServesItsEntries
CHECK_DEADLOCK FALSE
