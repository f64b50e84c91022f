CONSTANTS
  Sessions = {c1, c2}
  Single = c1
  MayFail = TRUE
  MaxState = 4
  MaxModseq = 5
  Old = {1}
  New = {2}
  MaxNow = 4
  MaxSelects = 2
  MaxObjectsInGet = 1
SPECIFICATION MCSpec
INVARIANTS
  TypeOK
  ModseqNamesOneState
  
PROPERTIES
  ModseqIncreases
  ReportedResolves
CHECK_DEADLOCK FALSE
