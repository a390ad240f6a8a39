CONSTANTS
  Job = {j1}
  s1 = s1
  b1 = b1
  Server <- Two
  Beacon <- OneBeacon
  Request <- Requests
  MaxRetries = 0
  MaxRestarts = 0
  Faults = {"cancel"}
  NoJob = NoJob
  Sweeper = Sweeper
SPECIFICATION Spec
PROPERTIES
  CancelledBeforeExecution
CHECK_DEADLOCK FALSE
