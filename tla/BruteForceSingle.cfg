\* One worker, two addresses, every action; one restart; a pool of one entry.
CONSTANTS
  attacker = attacker
  proxy = proxy
  NoHeader = NoHeader
  Workers = {w1}
  IPs <- MCIPs
  Requests <- EveryAction
  PoolEntries = 1
  MaxTime = 4
  MaxRequests = 5
  MaxRestarts = 1
SPECIFICATION Spec
INVARIANTS
  TypeOK
  NoLostCount
  EscalateOncePerWindow
PROPERTIES
  WindowNotCutShort
  JudgesAtomically
CHECK_DEADLOCK FALSE
