SPECIFICATION Spec
CONSTANTS
  Window = {w1, w2}
  MaxVersion = 3
  Answers = {FALSE}
  Faults = {"refused", "unconfirmed", "raised"}
  MaxAstray = 1
  OldFormat = FALSE
  First <- One
  Words = {}
  Generator = FALSE
SYMMETRY Symmetry
INVARIANTS TypeOK MemoryIsItsVersion CardsShowMemory
PROPERTIES WritesOnlyTheChange WritesKeepTheKeys
CHECK_DEADLOCK FALSE
