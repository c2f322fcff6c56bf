\* None of these holds: TLC stops at the first, and shows another when the
\* ones before it are left out.
CONSTANTS
  w1 = w1
  w2 = w2
  r1 = r1
  r2 = r2
  Writers = {w1, w2}
  Readers = {r1, r2}
  MaxSyncs = 4
  Disturbances = {"crash", "sidecarFault", "lateRecovery", "parallelSync"}
SPECIFICATION Spec
INVARIANTS
  ReadersGetWholeBridge
PROPERTIES
  ServedOnlyAdvances
CHECK_DEADLOCK FALSE
