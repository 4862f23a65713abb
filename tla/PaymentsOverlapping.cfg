\* One payment, two overlapping requests, refunds below, at and above it.
CONSTANTS
  p1 = p1
  r1 = r1
  r2 = r2
  r3 = r3
  Ids = {p1}
  Workers = {w1, w2}
  Amount = 2
  Refunds = {r1, r2, r3}
  SizeOf <- Sizes
  Answers = {"AUTHORIZED", "CAPTURED", "COMPLETED", "refused"}
  MaxFaults = 1
  Absent = Absent
SPECIFICATION Spec
INVARIANTS RefundsArePaid BooksAgree
PROPERTIES RefundsAreKept StatusMoves
