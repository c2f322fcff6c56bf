\* Syncs follow each other and crash, readers open and restore the backup;
\* sidecars appear while nothing crashes.
CONSTANTS
  w1 = w1
  w2 = w2
  r1 = r1
  r2 = r2
  Writers = {w1, w2}
  Readers = {r1, r2}
  MaxSyncs = 4
  Disturbances = {"crash"}
SPECIFICATION Spec
INVARIANTS
  TypeOK
  ReadersGetWholeBridge
PROPERTIES
  ServedOnlyAdvances
CHECK_DEADLOCK FALSE
