\* uid_serial
CONSTANTS
  Ids = {j1, j2}
  NoId = NoId
  Tasks = {t1}
  Ops = {"sync", "add", "vanished", "move", "drop", "purge", "expire"}
  InitPhases = {"absent"}
  PageSize = 2
  MaxPages = 2
  Ttl = 1
  InsertMayFail = FALSE
  MaxList = 2
  MaxUid = 3
  MaxTime = 2
SPECIFICATION Spec
SYMMETRY Symmetry
INVARIANTS
  CleanupSparesPresentMessages
  MapsAgree
  
