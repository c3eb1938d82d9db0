SPECIFICATION Spec
CONSTANTS
  c1 = c1
  c2 = c2
  Proofs = 2
  Clients <- MCClients
  ClientOps <- MCClientOps
  Callers <- MCCallers
  Settings <- MCSettings
  Faults <- MCFaults
  MaxAttempts = 2
  MaxCalls = 7
  MaxClientCalls = 3
INVARIANTS
  FailuresLeaveNoTrace
  SerialUseIsExact
  RequestsHonest
  ProofsIsolated
PROPERTIES
  ProofEnds
CHECK_DEADLOCK FALSE
