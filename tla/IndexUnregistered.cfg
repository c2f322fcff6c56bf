\* A run stops before it registers the repository; a job of the server follows.
CONSTANTS
  a = a
  b = b
  c = c
  d = d
  s = s
  NoFile = NoFile
  NoMeta = NoMeta
  Files <- MCFiles
  Steals <- MCSteals
  Trees <- MCTrees
  MaxDepth = 2
  Disturbances = {}
SPECIFICATION Spec
INVARIANTS
  CompleteJobIsDiscoverable
