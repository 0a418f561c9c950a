SPECIFICATION Spec
CONSTANTS
  k1 = k1
  k2 = k2
  NoCheckpoint = NoCheckpoint
  Checkpoints = {k1, k2}
  ExportTypes = {"merged", "gguf"}
  MaxOps = 3
  MaxFaults = 2
INVARIANTS
  WorkerIsHeld
  OutcomeIsTrue
PROPERTIES
  OperationEnds
CHECK_DEADLOCK FALSE
