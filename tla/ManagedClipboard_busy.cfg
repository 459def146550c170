SPECIFICATION FairSpec
CONSTANTS
  Owner = {list, codes}
  Foreign = {other}
  MaxCopies = 2
  Faults = {"read"}
PROPERTIES SecretsLeave
CHECK_DEADLOCK FALSE
