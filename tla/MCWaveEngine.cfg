CONSTANTS
  TaskIds = {1, 2}
  WaveIds = {1, 2}
  Results = {"ok"}
  Errors = {"boom"}
SPECIFICATION FairEngineSpec
INVARIANTS
  WaveAccounted
PROPERTIES
  OutcomeFinal
  CancelTakesEffect
  WaveEnds
CHECK_DEADLOCK FALSE
