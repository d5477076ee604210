SPECIFICATION FrameSpec
CONSTANTS
  LineLength <- Lengths
  OtherByte = {"nul", "blank", "+", "-", "x", "0", "5", "9"}
  MaxFrames = 2
INVARIANTS
  FitsBuffer
  InStep
CHECK_DEADLOCK FALSE
