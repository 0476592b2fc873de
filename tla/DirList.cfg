SPECIFICATION Spec
CONSTANTS
  Dirs <- MCDirs
  Lists <- MCLists
  Unreliable <- MCUnreliable
  Slash <- MCSlash
  Up <- MCUp
  NoFile = nofile
  Freed = freed
  SaveMax = 3
  NoCompact = 1
  DpSizes = {2, 4}
  Filters <- MCFilters
CONSTRAINT FileStays
INVARIANTS
  TypeOK
  NamesFreed
  PanelCovers
PROPERTIES
  PlaceRestored
  RecentFirst
