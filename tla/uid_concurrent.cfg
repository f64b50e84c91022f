\* uid_concurrent
CONSTANTS
  Ids = {j1, j2}
  NoId = NoId
  Tasks = {t1, t2}
  Ops = {"sync", "add"}
  InitPhases = {"live"}
  PageSize = 2
  MaxPages = 2
  Ttl = 1
  InsertMayFail = TRUE
  MaxList = 1
  MaxUid = 2
  MaxTime = 0
SPECIFICATION Spec
SYMMETRY Symmetry
INVARIANTS
  TypeOK
  UidDesignatesOneMessage
  AscendingUids
  CompleteReply
PROPERTIES
  KeepsLifecycle
  UidNeverReused
CHECK_DEADLOCK FALSE
