SPECIFICATION FairSpec
CONSTANTS
  Waves = {1, 2}
  Claims = {1, 2}
  Cases = {1, 2}
  Configs <- MCConfigs
  Requests <- MCRequests
  Budgets <- MCBudgets
INVARIANTS
  ResultWhole
  EvidenceSpeaks
  EligibleIsEarned
  RepairsBounded
PROPERTIES
  AssessmentEnds
CHECK_DEADLOCK FALSE
