\* Two workers, one address, threshold 2, window of 2 s.
CONSTANTS
  attacker = attacker
  proxy = proxy
  NoHeader = NoHeader
  Workers = {w1, w2}
  IPs = {attacker}
  Requests <- BlockAfter2
  PoolEntries = 1
  MaxTime = 2
  MaxRequests = 9
  MaxRestarts = 0
SYMMETRY WorkerSymmetry
SPECIFICATION Spec
INVARIANTS
  NoPrematureBlock
  EscalationNotSkipped
  AdmissionBound
CHECK_DEADLOCK FALSE
