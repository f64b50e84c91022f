CONSTANTS
  Tasks = {t1}
  Commands = {"select", "noop", "idle", "fetch"}
  Elsewhere = {"deliver", "vanish", "flags"}
  Qresync = {FALSE}
  MayFail = FALSE
  MaxUid = 2
  MaxState = 4
SPECIFICATION FairSpec
INVARIANT
  NoChangeSkipped
PROPERTY
  IdleReports
CHECK_DEADLOCK FALSE
