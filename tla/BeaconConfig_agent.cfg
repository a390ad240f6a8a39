CONSTANTS
  Host = {h1}
  Env = {e1, e2}
  View = {v1}
  FirstEnv = e1
  Editor = {p1, p2}
  MaxChanges = 1
  MaxLosses = 0
  Faults = {}
  Understood = FALSE
  NoEnv = NoEnv
SPECIFICATION FairSpec
PROPERTIES
  CheckinIsReported
CHECK_DEADLOCK FALSE
