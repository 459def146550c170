SPECIFICATION FairSpec
CONSTANTS
  Owner = {list, codes}
  Foreign = {other}
  MaxCopies = 4
  Faults = {}
INVARIANTS TypeOK
PROPERTIES SecretsLeave NoEarlyClear
CHECK_DEADLOCK FALSE
