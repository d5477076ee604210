SPECIFICATION Spec
CONSTANTS
  N = 10
  thread_num = 3
INVARIANTS
  AtMostN
  EnoughSent
PROPERTY
  Ends
CHECK_DEADLOCK FALSE
