SPECIFICATION HandlerSpec
CONSTANTS
  MaxUnits = 4
  MaxFile = 5
  BufSize = 2
INVARIANTS
  DecodedRight
  OpensProperPath
  WholeFile
  RepliesAgree
CHECK_DEADLOCK FALSE
