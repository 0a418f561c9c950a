SPECIFICATION FairSpec
CONSTANTS
  r1 = r1
  r2 = r2
  r3 = r3
  Requests = {r1, r2, r3}
  Capacities = {0, 1, 2}
  MaxQueue = 2
INVARIANTS
  TypeOK
  ActiveCountsHolders
  NoSlotWasted
PROPERTIES
  Fifo
  QueuedIsServed
  PoolSpec
