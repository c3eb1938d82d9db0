CONSTANTS
  Calls = {c1, c2, c3}
  Operations = {"read", "deploy"}
  Verdicts <- TwoVerdicts
  Statuses = {"SUCCEEDED"}
  MaxRequests = 0
SYMMETRY CallSymmetry
SPECIFICATION PlaneSpec
INVARIANT
  DuplicatesDenied
CHECK_DEADLOCK FALSE
