CONSTANTS
  Calls = {c1, c2}
  Operations = {"read", "deploy"}
  Verdicts <- TwoVerdicts
  Statuses = {"SUCCEEDED", "TIMEOUT", "ERROR", "DENIED"}
  MaxRequests = 2
SYMMETRY CallSymmetry
SPECIFICATION PlaneSpec
INVARIANTS
  TrailSound
  HumanApproved
PROPERTY
  ApprovedInTime
CHECK_DEADLOCK FALSE
