CONSTANTS
  p1 = p1
  p2 = p2
  r1 = r1
  r2 = r2
  k4 = k4
  k1 = k1
  k2 = k2
  k3 = k3
  Idle = Idle
  Confirmers = {k1, k2}
  Releasers = {k3, k4}
  Products <- TwoProducts
  InitialStock <- ScarceStock
  MaxQuantity = 2
  ReservationIds = {r1, r2}
SPECIFICATION BooksSpec
SYMMETRY Symmetry
INVARIANT NoOversell
INVARIANT NothingLost
INVARIANT BooksKept
PROPERTY LedgerKept
CHECK_DEADLOCK FALSE
