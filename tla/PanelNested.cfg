SPECIFICATION Spec
CONSTANTS
  Panels <- ManyPanels
  First = "files"
  Type <- ManyTypes
  Extra <- ManyExtra
  Counts <- ManyCounts
  PanLines = {3, 4}
  Depth = 2
CONSTRAINT OneMark
INVARIANTS
  TypeOK
  ScreenCurrent
  DrawsExistingLines
PROPERTIES
  CursorVisible
  NoBlankBottom
  CursorKept
  NoLineSkipped
