CONSTANTS
  Name = {n1}
  View = {v1}
  Handler = {p1, p2}
  Job = {j1, j2}
  Settings = {s1, s2}
  MaxRows = 2
  MaxSweeps = 1
  MaxFaults = 1
  Faults = {"refuse", "late", "crash", "lapse", "cancel"}
  None = None
SPECIFICATION Spec
SYMMETRY Symmetry
INVARIANTS
  
  
  GuardHolds
  EndedIsClosed
CHECK_DEADLOCK FALSE
