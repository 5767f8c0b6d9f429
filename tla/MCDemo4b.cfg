SPECIFICATION Demo4bSpec
CONSTANTS
  Names = {n1, n2}
  Inodes = {i1, i2}
  Fds = {f1, f2, f3, f4}
  Handlers = {h1, h2}
  None = None
INVARIANTS SecondReadTells
PROPERTIES
  RevokesOwnObject
  CallsReturn
  ShutdownCompletes
