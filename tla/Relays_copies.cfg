CONSTANTS
  s1 = s1
  r1 = r1
  r2 = r2
  Site <- One
  Run <- Overlapping
  Env = {e1}
  MaxEditions = 3
  MaxFaults = 2
  None = None
SPECIFICATION FairSpec
INVARIANTS
  TypeOK
  HealthyCarries
PROPERTIES
  RelaysCatchUp
  RelaysComeBack
CHECK_DEADLOCK FALSE
