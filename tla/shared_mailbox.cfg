SPECIFICATION MCSpec
CONSTANTS
  Tasks = {t1}
  Requests <- MCRequests
  Trees <- MCTrees
  NameParts = {"a", "b", "c", "Shared", "jane", "All"}
  MaxChanges = 0
  MaxCommands = 1
  MaxListErrors = 0
  MaxDepth = 3
  Askers = {}
  AskedItems = {}
  MaxEvents = 0
  MaxAsked = 0
  Editors = {}
  RightsTexts = {}
  Granted = {}
  MaxEdits = 0
  Characters = {"a", "/"}
  MaxPattern = 0
  MaxMailbox = 0
PROPERTY
  ActsOnNamedMailbox
CHECK_DEADLOCK FALSE
