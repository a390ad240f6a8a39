CONSTANTS
  Cli = {cli}
  Web = {web}
  Run = {r1, r2, r3}
  MaxTokens = 3
  MaxFaults = 1
  None = None
SPECIFICATION Spec
SYMMETRY Symmetry
INVARIANTS
  SessionContinues
  NothingLeftBehind
CHECK_DEADLOCK FALSE
