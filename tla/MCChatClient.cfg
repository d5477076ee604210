SPECIFICATION Spec
CONSTANTS
  Line = {"x", "y"}
  Endpoints = 2
  MaxTyped = 3
  MaxRead = 2
INVARIANTS
  EveryLineInItsPlace
  OneOfEach
PROPERTIES
  ClosedForGood
  JoinReturns
  LinesGoOut
CHECK_DEADLOCK FALSE
