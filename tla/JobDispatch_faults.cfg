CONSTANTS
  Job = {j1}
  s1 = s1
  b1 = b1
  Server <- Two
  Beacon <- OneBeacon
  Request <- Requests
  MaxRetries = 1
  MaxRestarts = 1
  Faults = {"crash", "restart", "error", "cancel"}
  NoJob = NoJob
  Sweeper = Sweeper
SPECIFICATION FairSpec
INVARIANTS
  TypeOK
  OpenJobHasCloser
PROPERTIES
  
  RetiredStays
  
  EveryActionResolves
CHECK_DEADLOCK FALSE
