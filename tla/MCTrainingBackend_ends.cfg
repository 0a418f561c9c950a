SPECIFICATION FairSpec
CONSTANTS
  MaxRuns = 1
  MaxStops = 2
  MaxFaults = 1
  Faults = {"crash", "wedge", "stall", "sidecar", "reset", "db"}
PROPERTIES
  RunEnds
CHECK_DEADLOCK FALSE
