CONSTANTS
  TaskIds = {1, 2, 3}
  MaxParallelism = 2
SPECIFICATION GraphSpec
INVARIANTS
  WaveShape
  PlanSound
PROPERTIES
  DependencyKeepsPlannable
CHECK_DEADLOCK FALSE
