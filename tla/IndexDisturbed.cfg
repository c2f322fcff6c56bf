\* A forced rebuild stops after the database is wiped.  With {"dirtyTree"} instead,
\* uncommitted changes are analysed and then reverted.
CONSTANTS
  a = a
  b = b
  c = c
  d = d
  s = s
  NoFile = NoFile
  NoMeta = NoMeta
  Files <- MCFiles
  Steals <- MCSteals
  Trees <- MCTrees
  MaxDepth = 2
  Disturbances = {"force", "rebuildCrash"}
SPECIFICATION Spec
INVARIANTS
  UpToDateIsTrue
