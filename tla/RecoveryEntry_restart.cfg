SPECIFICATION Spec
CONSTANTS
  MaxDelay = 3
  MaxFailures = 4
  Charset <- TwoDigits
  Upper <- TwoDigitsTyped
  Groups = 2
  GroupLen = 2
  RawLimit = 5
  Threshold = 3
  MaxText = 3
PROPERTIES EveryWrongCodeWaits
CHECK_DEADLOCK FALSE
