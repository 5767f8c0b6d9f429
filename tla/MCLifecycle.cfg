SPECIFICATION LifecycleSpec
CONSTANTS
  Workers = {w1, w2}
  Buffers = {b1, b2}
  Signals = {SIGINT, SIGTERM}
  MaxSignals = 2
  None = None
INVARIANTS
  LifecycleTypeOK
  NeverFreedTwice
  CallsFindBuffers
  ServiceOutlivesCalls
PROPERTIES
  ShutdownCompletes
CHECK_DEADLOCK FALSE
