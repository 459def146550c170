SPECIFICATION Spec
CONSTANTS
  Window = {w1, w2}
  MaxVersion = 4
  Answers = {TRUE, FALSE}
  Faults = {"refused", "unconfirmed"}
  MaxAstray = 0
  OldFormat = TRUE
  First <- Empty
  Words = {w1, w2}
  Generator = TRUE
SYMMETRY Symmetry
INVARIANTS CardsShowMemory CodesOnDiskWereShown
PROPERTIES WritesOnlyTheChange
CHECK_DEADLOCK FALSE
