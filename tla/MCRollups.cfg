SPECIFICATION Spec
CONSTANTS
  a = a
  b = b
  None = None
  Nodes = {a, b}
  Samples <- MCSamples
  Day = 2
  Window = 3
  RawDays = 4
  KeptDays = 6
  Limit = 1
  MaxNow = 14
INVARIANTS
  TypeOK
  PurgedStaysPurged
  WholeDays
PROPERTIES
  AveragesOnlyGain
CHECK_DEADLOCK FALSE
