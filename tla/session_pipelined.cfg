SPECIFICATION MCSpec
CONSTANTS
  Buffer = 4
  Commands = {"Capability", "Noop", "Namespace", "ListRights", "Expunge", "Close", "List", "Create", "Store", "Select",
              "Examine", "Unselect", "Enable",
              "Login", "Authenticate", "Unauthenticate", "StartTls", "Logout", "Idle", "Bad"}
  MaxFailures = 1
  MaxRequests = 3
  MaxBatch = 2
  Scripts = {s1, s2}
  Names = {a, b}
  NoName = NoName
  SieveCommands = {"GetScript", "PutScript", "SetActive", "DeleteScript", "RenameScript",
                   "Capability", "Noop", "HaveSpace", "ListScripts", "CheckScript",
                   "Authenticate", "StartTls", "Logout", "Unauthenticate"}
  MaxAttempts = 1
  MaxSieve = 4
  MaxPipelined = 2
  MaxOthers = 1
  Schedules <- MCSchedules
  StartTimes <- MCStartTimes
  MaxPurges = 3
  MaxLate = 2
INVARIANT
  Unreachable
CHECK_DEADLOCK FALSE
