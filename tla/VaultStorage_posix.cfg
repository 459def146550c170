SPECIFICATION FairSpec
CONSTANTS
  Process = {p1, p2}
  Inode = {1}
  MaxContent = 3
  Operations <- WithPortable
  Posix = TRUE
INVARIANTS NeverTorn
PROPERTIES CallsEnd LockIsReleased
CHECK_DEADLOCK FALSE
