SPECIFICATION Spec
CONSTANTS
  Threshold = 3
  MaxVersion = 4
  Others = {}
  Faults = {"refused"}
PROPERTIES FailedRecoveryKeepsPassword
CHECK_DEADLOCK FALSE
