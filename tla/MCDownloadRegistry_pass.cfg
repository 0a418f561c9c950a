SPECIFICATION FairSpec
CONSTANTS
  v1 = v1
  v2 = v2
  Whole = Whole
  Keys = {v1, v2}
  Scopes = {v1, Whole}
  Cancellable = {v1}
  MaxRuns = 2
  MaxDeletes = 1
  Shutdowns = TRUE
INVARIANTS
  CancelsHitTheirRun
  ShutdownIsClean
  TypeOK
  OneWriter
  DeleteAlone
PROPERTIES
  StoppedStaysStopped
  JobEnds
CHECK_DEADLOCK FALSE
