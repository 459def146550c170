SPECIFICATION Spec
CONSTANTS
  Window = {w1}
  MaxVersion = 4
  Answers = {FALSE}
  Faults = {"raised"}
  MaxAstray = 1
  OldFormat = FALSE
  First <- Empty
  Words = {}
  Generator = FALSE
PROPERTIES NothingElseIsWritten
CHECK_DEADLOCK FALSE
