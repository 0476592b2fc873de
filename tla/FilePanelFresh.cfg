SPECIFICATION Spec
CONSTANTS
  Collation <- MCCollation
  Expressions <- MCExpressions
  Words <- MCWords
  Unsorted = unsorted
  root = root
  sub = sub
  a = a
  b = b
  up = up
  all = all
  only_a = only_a
  half = half
  by_name = by_name
  by_time = by_time
  Dirs <- MCDirs
  Root = root
  Home = sub
  Above <- MCAbove
  Files <- OneFile
  HiddenFiles = {a}
  Contents <- OneFileContents
  DotDirs <- MCDotDirs
  NoPattern = all
  Matches <- MCMatches
  Patterns = {all, half}
  Incomplete = {half}
  HideModes = {"show", "hide_home"}
  SortKeys <- MCSortKeys
  Unreliable = {sub}
  External = {}
INVARIANTS
  ListingCurrent
  SortedDisplay
  MatchIsShell
