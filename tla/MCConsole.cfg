SPECIFICATION Spec
CONSTANTS
  Rows = 2
  Cols = 2
  Chars = {"a"}
  Tasks = {"t"}
  Texts <- MCTexts
  MaxLine = 4
  MaxOthers = 2
INVARIANTS GridRendered DirtyCovers NothingPending EchoMatches NoTrail
