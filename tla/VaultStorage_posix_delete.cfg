SPECIFICATION Spec
CONSTANTS
  Process = {p1, p2}
  Inode = {1, 2}
  MaxContent = 4
  Operations = {"load", "migrate", "save", "create", "delete"}
  Posix = TRUE
PROPERTIES NoSilentOverwrite
CHECK_DEADLOCK FALSE
