SPECIFICATION Spec
CONSTANTS
  Collation <- MCCollation
  Expressions <- NoStrings
  Words <- NoStrings
  Unsorted = unsorted
  root = root
  sub = sub
  a = a
  b = b
  up = up
  all = all
  only_a = only_a
  half = half
  by_name = by_name
  by_time = by_time
  Dirs <- MCDirs
  Root = root
  Home = root
  Above <- MCAbove
  Files <- MCFiles
  HiddenFiles = {}
  Contents <- FewContents
  DotDirs <- MCDotDirs
  NoPattern = all
  Matches <- MCMatches
  Patterns <- MCPatterns
  Incomplete = {half}
  HideModes = {"show"}
  SortKeys = {by_name}
  Unreliable = {sub}
  External = {root}
CONSTRAINT MarksBound
PROPERTIES
  MarksStayUnfiltered
INVARIANTS
  MarksSurviveReread
  TypeOK
  PanelsWellFormed
  SelectedCount
  NoOverrun
  FilterApplied
  ComparisonResult
