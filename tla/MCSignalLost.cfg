SPECIFICATION LifecycleSpec
CONSTANTS
  Workers = {w1, w2}
  Buffers = {b1, b2}
  Signals = {SIGINT, SIGTERM}
  MaxSignals = 2
  None = None
PROPERTIES
  SignalEndsServer
CHECK_DEADLOCK FALSE
