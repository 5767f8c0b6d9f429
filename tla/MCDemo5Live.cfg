SPECIFICATION FairSystemSpec
CONSTANTS
  Clients = {c1, c2}
  RequestSizes = {1}
  Buffers = {b1}
  Names = {n1}
  Fds = {f1}
  NumPages = 1
  NoObject = NoObject
PROPERTIES
  CallsReturn
