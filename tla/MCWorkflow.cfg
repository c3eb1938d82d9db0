SPECIFICATION Spec
CONSTANTS
  Items <- MCItems
  Deltas <- MCDeltas
  ProtectedDeltas <- MCDeltas
  Covers <- MCCovers
  AlignedItems <- MCAlignedItems
  Segments <- MCSegments
  Faults <- MCFaults
  MaxCalls = 3
INVARIANTS
  MergedOnce
  CompleteIsHonest
PROPERTIES
  MergeIsEarned
  ChangeSpec
