SPECIFICATION Spec
CONSTANTS
  a = a
  b = b
  c = c
  wcd = wcd
  empty = empty
  Cmds <- MCCmds
  Recorded <- MCRecorded
  Results <- MCResults
  Empty = empty
  Sizes = {2, 3}
  Filters <- MCFilters
PROPERTY
  CancelKeepsSize
