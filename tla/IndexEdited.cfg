\* The checkout changes between parsing and hashing.
CONSTANTS
  a = a
  b = b
  c = c
  d = d
  s = s
  NoFile = NoFile
  NoMeta = NoMeta
  Files <- MCFiles
  Steals <- MCSteals
  Trees <- MCTrees
  MaxDepth = 2
  Disturbances = {"edit"}
SPECIFICATION Spec
INVARIANTS
  IndexIsWhole
