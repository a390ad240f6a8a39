CONSTANTS
  Env = {e1}
  Proc = {p1, p2}
  Repos = 2
  Filtering = {FALSE}
  MaxCuts = 2
  MaxAssigns = 2
  Faults = {"refuse", "late", "crash", "lapse"}
  Free = Free
  Stale = Stale
  NoEnv = NoEnv
SYMMETRY Symmetry
SPECIFICATION Spec
INVARIANTS
  TypeOK
  ServedIsRecorded
  RollbackStillPossible
  
CHECK_DEADLOCK FALSE
