SPECIFICATION Spec
CONSTANTS
  Window = {w1, w2}
  MaxVersion = 4
  Answers = {FALSE}
  Faults = {}
  MaxAstray = 0
  OldFormat = TRUE
  First <- Empty
  Words = {}
  Generator = FALSE
SYMMETRY Symmetry
PROPERTIES NothingElseIsWritten
CHECK_DEADLOCK FALSE
