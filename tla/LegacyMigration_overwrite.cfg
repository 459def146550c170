SPECIFICATION Spec
CONSTANTS
  Process = {p1, p2}
  MaxVersion = 3
  Operations = {"open", "save"}
  DiskFails = FALSE
INVARIANTS LatestSurvives
CHECK_DEADLOCK FALSE
