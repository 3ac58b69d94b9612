\* iptables alone, no failure and no crash: a block repeated before it lapses.
CONSTANTS
  attacker = attacker
  other = other
  Forever = Forever
  IPs = {attacker}
  TTLs = {1, 2}
  Backends = {"iptables"}
  NftRefreshes = TRUE
  MaxCommands = 2
  MaxCrashes = 0
  MaxReboots = 0
  MaxFailures = 0
SPECIFICATION Spec
INVARIANT
  NoOrphanRule
