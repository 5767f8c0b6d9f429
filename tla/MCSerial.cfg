SPECIFICATION SerialSpec
CONSTANTS
  Buffers = {b1, b2, b3}
  Names = {n1, n2, n3}
  Fds = {f1, f2}
  NumPages = 5
  NoObject = NoObject
INVARIANTS
  NeverFaults
  SegmentsIntact
  NothingLeftBehind
  RegistrationsCurrent
