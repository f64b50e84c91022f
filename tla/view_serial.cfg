CONSTANTS
  Tasks = {t1}
  Commands = {"select", "unselect", "close", "noop", "expunge", "move", "search", "append", "idle", "store"}
  Elsewhere = {"deliver", "vanish"}
  Qresync = {TRUE, FALSE}
  MayFail = TRUE
  MaxUid = 3
  MaxState = 4
SPECIFICATION Spec
INVARIANTS
  TypeOK
  InStep
CHECK_DEADLOCK FALSE
