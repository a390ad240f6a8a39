CONSTANTS
  EnvName = {Lib, e1, e2, e3}
  Library = Lib
  Host = {h1}
  Key = {k1}
  Handler = {p1, p2}
  MaxEnvs = 4
  MaxServers = 2
  MaxUses = 2
  MaxRequests = 7
  None = None
SPECIFICATION Spec
SYMMETRY Symmetry
INVARIANTS
  NothingDangles
  UsesCounted
  HostKnownOnce
  AssignmentsStick
  

  
CHECK_DEADLOCK FALSE
