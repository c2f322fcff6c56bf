\* Committed trees are analysed in any order; edits wait in the working tree;
\* runs stop anywhere, except between a forced wipe and the new meta.json.
CONSTANTS
  a = a
  b = b
  c = c
  d = d
  s = s
  NoFile = NoFile
  NoMeta = NoMeta
  Files <- MCFiles
  Steals <- MCSteals
  Trees <- MCTrees
  MaxDepth = 2
  Disturbances = {"force", "upgrade"}
SPECIFICATION Spec
INVARIANTS
  TypeOK
  IndexIsWhole
  WalkReachesChanges
  UpToDateIsTrue
  SuccessIsDiscoverable
