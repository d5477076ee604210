SPECIFICATION Spec
CONSTANTS
  Session = {s1, s2}
  Body = {a, b}
  MaxRecent = 1
  MaxLog = 3
PROPERTIES
  Served
  ImplementsBroadcast
