SPECIFICATION Spec
CONSTANTS
  Window = {w1}
  MaxVersion = 5
  Answers = {FALSE}
  Faults = {}
  MaxAstray = 0
  OldFormat = FALSE
  First <- Empty
  Words = {}
  Generator = TRUE
PROPERTIES NothingElseIsWritten
CHECK_DEADLOCK FALSE
