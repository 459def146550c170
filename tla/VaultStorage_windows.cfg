SPECIFICATION Spec
CONSTANTS
  Process = {p1, p2}
  Inode = {1, 2}
  MaxContent = 4
  Operations <- WithoutPortable
  Posix = FALSE
SYMMETRY Symmetry
INVARIANTS TypeOK OneWriter
PROPERTIES NoSilentOverwrite BakHoldsReplaced IsARegister
CHECK_DEADLOCK FALSE
