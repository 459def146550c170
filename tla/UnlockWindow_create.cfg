SPECIFICATION Spec
CONSTANTS
  Threshold = 3
  MaxVersion = 4
  Others = {"create"}
  Faults = {}
PROPERTIES CreateOverwritesNothing
CHECK_DEADLOCK FALSE
