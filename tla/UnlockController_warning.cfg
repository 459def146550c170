SPECIFICATION Spec
CONSTANTS
  Password = {p}
  MaxDelay = 3
  MaxFailures = 2
  MaxVersion = 3
  Others = {}
  Faults = {"unconfirmed"}
PROPERTIES WarningIsTrue
CHECK_DEADLOCK FALSE
