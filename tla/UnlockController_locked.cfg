SPECIFICATION Spec
CONSTANTS
  Password = {p}
  MaxDelay = 3
  MaxFailures = 2
  MaxVersion = 3
  Others = {}
  Faults = {}
INVARIANTS LockedHoldsNothing
CHECK_DEADLOCK FALSE
