SPECIFICATION ArithmeticSpec
CONSTANTS
  SizeValues = 1024
  IntValues = 32
  MB = 2
  SegmentSize = 8
  NumSegments = 5
INVARIANTS
  GrantMatchesReply
  ClientServedExactly
CHECK_DEADLOCK FALSE
