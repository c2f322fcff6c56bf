\* A re-exporting file is missing at the first analysis and there at the next: added or
\* restored.
CONSTANTS
  a = a
  b = b
  c = c
  d = d
  s = s
  NoFile = NoFile
  NoMeta = NoMeta
  Files <- ChainFiles
  Steals = {}
  Trees <- ChainTrees
  MaxDepth = 4
  Disturbances = {}
SPECIFICATION Spec
INVARIANTS
  IndexIsWhole
