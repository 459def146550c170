SPECIFICATION FairSpec
CONSTANTS
  Threshold = 3
  MaxVersion = 4
  Others = {"create", "migrate", "activate", "import", "destroy", "damage"}
  Faults = {"refused", "unconfirmed", "raised", "unreadable", "undeleted"}
INVARIANTS TypeOK SessionIsItsVersion LockoutMatchesFailures
PROPERTIES EntryComesBack
CHECK_DEADLOCK FALSE
