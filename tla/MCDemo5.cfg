SPECIFICATION SystemSpec
CONSTANTS
  Clients = {c1, c2}
  Buffers = {b1, b2, b3}
  Names = {n1, n2, n3}
  Fds = {f1, f2}
  RequestSizes = {1}
  NumPages = 2
  NoObject = NoObject
SYMMETRY SystemSymmetry
VIEW SystemView
INVARIANTS
  SystemTypeOK
  FreedIsGone
  SegmentsAccountedFor
PROPERTIES
  OnlyOwnFrees
