SPECIFICATION StoreSpec
CONSTANTS
  p1 = p1
  p2 = p2
  Workers <- MCWorkers
  Modes <- MCModes
  MaxStarts = 2
  MaxJobs = 1
  MaxResets = 1
SYMMETRY Symmetry
INVARIANTS
  SchemaSound
  SeedWhole
  ResetOrderSafe
CHECK_DEADLOCK FALSE
