SPECIFICATION Spec
CONSTANTS
  s1 = s1
  MaxJobs = 2
  Subs = {s1}
  Loggers = {1}
  MaxFaults = 1
  MaxEvents = 2
INVARIANTS
  StreamIsComplete
  EndsForItsReason
  JobsAreSettled
CHECK_DEADLOCK FALSE
