SPECIFICATION FairSpec
CONSTANTS
  Password = {p, q}
  MaxDelay = 3
  MaxFailures = 2
  MaxVersion = 3
  Others = {"create", "save", "regenerate", "destroy", "damage"}
  Faults = {"refused", "unconfirmed", "raised", "unreadable"}
INVARIANTS TypeOK
PROPERTIES BackOffIsKept ShownCodesOpenTheVault EntryComesBack
CHECK_DEADLOCK FALSE
