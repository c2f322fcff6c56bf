\* A query for importers fails and the run goes on.  {"readError"} and {"writeError"}
\* break IndexIsWhole and UpToDateIsTrue as well.
CONSTANTS
  a = a
  b = b
  c = c
  d = d
  s = s
  NoFile = NoFile
  NoMeta = NoMeta
  Files <- MCFiles
  Steals <- MCSteals
  Trees <- MCTrees
  MaxDepth = 2
  Disturbances = {"queryError"}
SPECIFICATION Spec
INVARIANTS
  WalkReachesChanges
