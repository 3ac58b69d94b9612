\* Two addresses and every backend; one failing call, one crash, one reboot.
CONSTANTS
  attacker = attacker
  other = other
  Forever = Forever
  IPs = {attacker, other}
  TTLs = {2}
  Backends = {"nftables", "iptables", "noop"}
  NftRefreshes = TRUE
  MaxCommands = 2
  MaxCrashes = 1
  MaxReboots = 1
  MaxFailures = 1
SPECIFICATION FairSpec
INVARIANTS
  TypeOK
  CleanMeansSaved
  EntryIsEnforced
  NoOrphanElement
PROPERTIES
  EntryLapses
  AddressIsLetGo
