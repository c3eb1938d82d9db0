CONSTANTS
  Keys = {1, 2, 3, 4}
  Kinds <- MCKinds
  LockKinds <- MCKinds
  ParentKinds <- MCKinds
  IdentityKinds <- MCIdentityKinds
  Data <- MCData
  Requests <- MCRequests
  Statements <- MCStatements
  Claims = {"claim"}
  Behaviors = {"login"}
  LedgerTasks = {"task", "other"}
  MaxVersion = 2
  Quota <- MCQuota
SPECIFICATION Spec
INVARIANTS
  LineageSound
  ContractFrozen
PROPERTIES
  LockedForever
  StartsOnCurrent
CHECK_DEADLOCK FALSE
