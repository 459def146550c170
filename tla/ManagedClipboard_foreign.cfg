SPECIFICATION Spec
CONSTANTS
  Owner = {list, codes}
  Foreign = {other}
  MaxCopies = 3
  Faults = {}
PROPERTIES OnlyOwnIsCleared
CHECK_DEADLOCK FALSE
