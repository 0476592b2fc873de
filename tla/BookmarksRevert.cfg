SPECIFICATION Spec
CONSTANTS
  p = p
  q = q
  d = d
  e = e
  Sessions <- MCSessions
  Dirs <- MCDirs
  Limit = 2
  MaxTime = 3
PROPERTY
  RevertedNotSaved
