SPECIFICATION Spec
CONSTANTS
  Threshold = 3
  MaxVersion = 4
  Others = {"damage"}
  Faults = {}
PROPERTIES RightPasswordIsNotBlamed
CHECK_DEADLOCK FALSE
