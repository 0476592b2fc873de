SPECIFICATION Spec
CONSTANTS
  Collation <- MCCollation
  Expressions <- NoStrings
  Words <- NoStrings
  Unsorted = unsorted
  root = root
  sub = sub
  a = a
  b = b
  up = up
  all = all
  only_a = only_a
  half = half
  by_name = by_name
  by_time = by_time
  Dirs <- MCDirs
  Root = root
  Home = root
  Above <- MCAbove
  Files <- MCFiles
  HiddenFiles = {}
  Contents <- MCContents
  DotDirs <- MCDotDirs
  NoPattern = all
  Matches <- MCMatches
  Patterns <- CompletePatterns
  Incomplete = {}
  HideModes = {"show"}
  SortKeys = {by_name}
  Unreliable = {}
  External = {}
INVARIANTS
  ScansStayListed
