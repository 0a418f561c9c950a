SPECIFICATION Spec
CONSTANTS
  Unloader = Unloader
  Nobody = Nobody
  NoModel = NoModel
  l1 = l1
  l2 = l2
  c1 = c1
  c2 = c2
  m1 = m1
  m2 = m2
  Locked = {l1}
  Compare = {c1}
  Models = {m1, m2}
  MaxSpawns = 2
  Faults = {"stop", "repair", "survive", "unload", "timeout"}
SYMMETRY Symmetric
INVARIANT UnloadSoleReader
INVARIANT ActiveIsHeld
PROPERTY NoSecondWorker
INVARIANT CancelledIsGone
CHECK_DEADLOCK FALSE
