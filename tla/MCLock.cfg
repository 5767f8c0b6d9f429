SPECIFICATION LockSpec
CONSTANTS
  Names = {n1, n2}
  Inodes = {i1, i2}
  Fds = {f1, f2, f3, f4, f5}
  Handlers = {h1, h2, h3}
  None = None
SYMMETRY LockSymmetry
INVARIANTS
  LockTypeOK
  TableIsTrue
  CleanAtExit
PROPERTIES
  RevokedBeforeEmptied
