SPECIFICATION PoolSpec
CONSTANTS
  Buffers = {b1, b2, b3}
  Names = {n1, n2, n3, n4}
  Fds = {f1, f2, f3}
  NumPages = 4
  NoObject = NoObject
SYMMETRY PoolSymmetry
INVARIANTS
  PoolTypeOK
  BuffersConserved
  NamesUnique
PROPERTIES
  GrantIsUsable
  LastInIsUnlinked
  ImplementsLedger
