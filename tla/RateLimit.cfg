\* Two workers, two clients, a limit of two requests per window.
CONSTANTS
  alice = alice
  bob = bob
  Workers = {w1, w2}
  IPs = {alice, bob}
  Directives <- EveryAction
  PoolEntries = 1
  MaxTime = 3
  MaxRequests = 5
SYMMETRY ClientSymmetry
SPECIFICATION Spec
INVARIANTS
  TypeOK
  NoEarlyRefusal
  LossOnlyByReopening
  AdmittedPerOpening
CHECK_DEADLOCK FALSE
