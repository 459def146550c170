SPECIFICATION Spec
CONSTANTS
  Process = {p1}
  MaxVersion = 5
  Operations = {"open", "save", "destroy"}
  DiskFails = TRUE
INVARIANTS TypeOK LatestSurvives
PROPERTIES OriginalsIntact
CHECK_DEADLOCK FALSE
