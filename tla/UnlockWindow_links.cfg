SPECIFICATION Spec
CONSTANTS
  Threshold = 3
  MaxVersion = 4
  Others = {"activate"}
  Faults = {}
PROPERTIES LinksFitTheVault
CHECK_DEADLOCK FALSE
