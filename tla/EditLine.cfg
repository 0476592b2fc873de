SPECIFICATION Spec
CONSTANTS
  x = x
  sp = sp
  Unused = unused
  Chars <- MCChars
  Space = sp
  Separators = {sp}
  Slash = x
  Texts <- MCTexts
  Recalls <- MCRecalls
  MaxLen = 3
  Levels = 2
  MergeLimit = 3
  ScrCols = 2
  OFFSET_STEP = 4
  Areas = {9, 10, 14}
  Prompts = {0, 3, 4}
  LongLine = 40
PROPERTIES
  ImplementsUndo
INVARIANTS
  JoinedEditsAreOne
  CursorOnScreen
  TypeOK
