SPECIFICATION Spec
CONSTANTS
  Process = {p1}
  MaxVersion = 3
  Operations = {"open", "destroy"}
  DiskFails = TRUE
INVARIANTS DestroyedStaysDestroyed
CHECK_DEADLOCK FALSE
