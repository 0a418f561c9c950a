SPECIFICATION Spec
CONSTANTS
  MaxRuns = 2
  MaxStops = 1
  MaxFaults = 2
  Faults = {"crash", "wedge", "stall", "sidecar", "reset", "db"}
INVARIANTS
  RowIsTrue
  TypeOK
  OneTrainer
CHECK_DEADLOCK FALSE
