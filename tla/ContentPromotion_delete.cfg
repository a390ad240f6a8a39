CONSTANTS
  Env = {e1}
  Proc = {p1}
  Repos = 1
  Filtering = {TRUE}
  MaxCuts = 1
  MaxAssigns = 1
  Faults = {}
  Free = Free
  Stale = Stale
  NoEnv = NoEnv
SPECIFICATION Spec
PROPERTIES
  DeleteFinishes
CHECK_DEADLOCK FALSE
