SPECIFICATION MCSpec
CONSTANTS
  Tasks = {t1}
  Requests <- MCRequests
  Trees <- MCTrees
  NameParts = {"a", "b", "c", "Shared", "jane", "All"}
  MaxChanges = 2
  MaxCommands = 2
  MaxListErrors = 1
  MaxDepth = 3
  Askers = {t1, t2}
  AskedItems <- MCItems
  MaxEvents = 2
  MaxAsked = 2
  Editors = {t1, t2}
  RightsTexts <- MCRights
  Granted = {"Modify", "RemoveItems", "Submit"}
  MaxEdits = 4
  Characters = {"a", "b", "/"}
  MaxPattern = 4
  MaxMailbox = 4
INVARIANTS
  TypesOK ListsTheServer  AclAsMeant PatternsUnderstood
PROPERTIES
  OwnMailboxNamed
CHECK_DEADLOCK FALSE
