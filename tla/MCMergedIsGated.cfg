SPECIFICATION Spec
CONSTANTS
  Items <- MCItems
  Deltas <- MCDeltas
  ProtectedDeltas <- MCDeltas
  Covers <- MCCovers
  AlignedItems <- MCAlignedItems
  Segments <- MCSegments
  Faults <- MCFaults
  MaxCalls = 2
INVARIANT
  MergedIsGated
