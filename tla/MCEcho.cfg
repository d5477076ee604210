SPECIFICATION MCSpec
CONSTANTS
  Client = {c1, c2}
  LineLengths = {4, 5}
  BufferSize = 2
  UpWindow = 2
  DownWindow = 1
  OperationSizes = {200, 1024}
  StorageSize = 1024
  UdpClient = {u1, u2}
  max_length = 2
INVARIANTS
  EchoIsExact
  OnlyLongLinesStick
  MemoryIsReturned
  ReplyIsAnEcho
PROPERTY
  EverybodyEnds
CHECK_DEADLOCK FALSE
