SPECIFICATION FairSpec
CONSTANTS
  Unloader = Unloader
  Nobody = Nobody
  NoModel = NoModel
  l1 = l1
  l2 = l2
  c1 = c1
  c2 = c2
  m1 = m1
  m2 = m2
  Locked = {}
  Compare = {c1, c2}
  Models = {m1}
  MaxSpawns = 1
  Faults = {"cancel", "crash", "close", "unload", "oneload"}
PROPERTY StreamsEnd
CHECK_DEADLOCK FALSE
