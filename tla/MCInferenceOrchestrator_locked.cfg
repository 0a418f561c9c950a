SPECIFICATION EndlessSpec
CONSTANTS
  Unloader = Unloader
  Nobody = Nobody
  NoModel = NoModel
  l1 = l1
  l2 = l2
  c1 = c1
  c2 = c2
  m1 = m1
  m2 = m2
  Locked = {l1, l2}
  Compare = {}
  Models = {m1}
  MaxSpawns = 2
  Faults = {"cancel", "unload", "crash", "stall"}
INVARIANT TypeOK
INVARIANT OwnEvents
PROPERTY UnloadEnds
PROPERTY LostWorkerEndsStream
CHECK_DEADLOCK FALSE
