SPECIFICATION Spec
CONSTANTS
  BufferSize = 2
  MaxText = 25
  MaxPart = 1
  Sample = {"0", ":", "space", "high"}
  MaxHeaders = 2
INVARIANTS
  BackIsDefined
  GoodIsARequest
  BadIsHopeless
  AnswersWhatWasSaid
