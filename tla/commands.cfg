SPECIFICATION MCSpec
CONSTANTS
  Source = {1, 2, 3}
  AccountIds = {2, 3, 4, 5}
  AlreadyThere = {2}
  CrossAccount = {TRUE, FALSE}
  AllMail = {FALSE}
  Stored = {1, 3}
  Later = {4}
  StoreRequests <- MCStores
  MaxObjectsInSet = 1
  MaxElsewhere = 3
  SavedKinds = {"save", "saveUses", "saveMixes", "use", "expunge"}
  MaxSaved = 3
  MaxNumber = 12
  SetNumbers = {0, 2, 12}
  StartStates = {"start", "command"}
  Arguments <- MCArguments
  Spoilers = {"DQUOTE", "{"}
  MaxRequest = 4
  MaxQuoted = 2
  MaxName = 1
  MaxItems = 2
  MaxLines = 2
  Keys = {"all", "unseen", "new", "on", "younger", "larger", "set", "modseq", "before"}
  SizeWidth = 3
  Today = 3
  MaxNested = 1
INVARIANTS
  TypesOK CopiesAccounted StoreKeepsItsWord NeverOlder
  LineUnderstood FindsWhatIsAsked SetsUnderstood
PROPERTIES
  SavedUsersEnd
CHECK_DEADLOCK FALSE
