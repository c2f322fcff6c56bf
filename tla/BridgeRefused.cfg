\* A sync stops between its two renames; queries follow.
CONSTANTS
  w1 = w1
  w2 = w2
  r1 = r1
  r2 = r2
  Writers = {w1, w2}
  Readers = {r1, r2}
  MaxSyncs = 4
  Disturbances = {"crash"}
SPECIFICATION Spec
PROPERTIES
  NeverRefused
CHECK_DEADLOCK FALSE
