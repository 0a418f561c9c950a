SPECIFICATION Spec
CONSTANTS
  r1 = r1
  r2 = r2
  s1 = s1
  Runs = {r1, r2}
  Sessions = {s1}
  SessionOf <- OneSession
  MaxCalls = 1
INVARIANTS
  CancelsReachTheirRun
  AnswersDecide
  TypeOK
  SlotsAreWaitedFor
PROPERTIES
  CancelledRunEnds
CHECK_DEADLOCK FALSE
