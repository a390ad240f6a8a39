CONSTANTS
  Host = {h1}
  Env = {e1, e2}
  View = {v1}
  FirstEnv = e1
  Editor = {p1, p2}
  MaxChanges = 2
  MaxLosses = 1
  Faults = {"crash", "lost", "late", "disk", "apt"}
  Understood = TRUE
  NoEnv = NoEnv
SPECIFICATION FairSpec
INVARIANTS
  TypeOK
  ShownIsTrue
  
PROPERTIES
  EveryHostFollows
  
CHECK_DEADLOCK FALSE
