SPECIFICATION MCSpec
CONSTANTS
  Thread = {t1, t2}
  Peer = {p1, p2}
INVARIANT
  OneAtATime
PROPERTIES
  Served
  ThreadsEnd
CHECK_DEADLOCK FALSE
