SPECIFICATION Spec
CONSTANTS
  Threshold = 3
  MaxVersion = 4
  Others = {}
  Faults = {"unreadable"}
PROPERTIES RestoreReplacesDamage
CHECK_DEADLOCK FALSE
