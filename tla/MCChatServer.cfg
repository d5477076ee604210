SPECIFICATION SafetySpec
CONSTANTS
  Session = {s1, s2, s3}
  Body = {a, b}
  MaxRecent = 2
  MaxLog = 3
SYMMETRY Symmetry
INVARIANTS
  OneWriteFromFront
  ParticipantsServed
  RecentIsEndOfLog
  PieceOfLog
PROPERTY
  BrokenForGood
