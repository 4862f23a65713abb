\* Two users, one after the other, two sessions, one role with one permission,
\* one overlap, one failure or one interruption.
CONSTANTS
  Users = {u1, u2}
  Sessions = {s1, s2}
  Codes = {customer}
  Default = customer
  Permissions = {p1}
  Workers = {w1, w2}
  MaxTroubles = 1
  Absent = Absent
SPECIFICATION Spec
INVARIANTS
  RegisteredWhole
  PermissionsAsAsked
PROPERTIES
  RevokedIsFinal
  InactiveStaysOut
SYMMETRY Symmetry
CHECK_DEADLOCK FALSE
