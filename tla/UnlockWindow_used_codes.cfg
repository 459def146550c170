SPECIFICATION Spec
CONSTANTS
  Threshold = 3
  MaxVersion = 4
  Others = {}
  Faults = {}
INVARIANTS UsedCodesAreDead
CHECK_DEADLOCK FALSE
