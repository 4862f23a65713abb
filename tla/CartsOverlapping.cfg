\* Two carts and one to be put back, two products, two items, one overlap or
\* one interruption.
CONSTANTS
  Ids = {c1, c2, c3}
  Products = {p1, p2}
  ItemIds = {i1, i2}
  Workers = {w1, w2}
  MaxQty = 2
  MaxTroubles = 1
  New = New
  Absent = Absent
SPECIFICATION Spec
INVARIANTS
  CacheAgrees
PROPERTIES
  OthersUntouched
  UntouchedStay
SYMMETRY Symmetry
CHECK_DEADLOCK FALSE
