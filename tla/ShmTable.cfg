\* Four keys in three slots; records go stale after one second.
CONSTANTS
  a = a
  b = b
  c = c
  d = d
  NoKey = NoKey
  Keys = {a, b, c, d}
  Capacity = 3
  Hash <- MCHash
  Staleness = 1
  MaxTime = 4
  MaxCount = 2
SPECIFICATION Spec
INVARIANTS
  TypeOK
  OneSlotPerKey
  Reachable
  CountExact
  NoFalseFull
PROPERTIES
  ImplementsMap
