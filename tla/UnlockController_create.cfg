SPECIFICATION Spec
CONSTANTS
  Password = {p}
  MaxDelay = 3
  MaxFailures = 2
  MaxVersion = 3
  Others = {"create"}
  Faults = {}
PROPERTIES CreateOverwritesNothing
CHECK_DEADLOCK FALSE
