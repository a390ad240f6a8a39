CONSTANTS
  User = {u1, u2, u3}
  Handler = {p1, p2, p3}
  MaxChanges = 5
  Nobody = Nobody
SPECIFICATION AccountsSpec
SYMMETRY Symmetry
INVARIANTS
  AdminLeft
CHECK_DEADLOCK FALSE
