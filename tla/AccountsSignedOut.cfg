\* The instance of AccountsOverlapping.cfg.
CONSTANTS
  Users = {u1, u2}
  Sessions = {s1, s2}
  Codes = {customer}
  Default = customer
  Permissions = {p1}
  Workers = {w1, w2}
  MaxTroubles = 1
  Absent = Absent
SPECIFICATION Spec
INVARIANT DeactivatedIsSignedOut
SYMMETRY Symmetry
CHECK_DEADLOCK FALSE
