CONSTANTS
  p1 = p1
  r1 = r1
  k1 = k1
  k2 = k2
  w1 = w1
  w2 = w2
  Idle = Idle
  Missing = Missing
  Products <- OneProduct
  InitialStock <- TwoUnits
  MaxQuantity = 1
  ReservationIds = {r1}
  Confirmers = {k1}
  Releasers = {k2}
  Requesters = {w1, w2}
  Reads = {"check", "bulk", "list"}
  Commands <- AnyCommand
  Ceiling = 2
SPECIFICATION Spec
SYMMETRY Symmetry
INVARIANTS NoOversell ReservedWasReserved
CHECK_DEADLOCK FALSE
