\* One notification, two users, two runs, one error and one stall.
CONSTANTS
  Ids = {n1}
  Users = {u1, u2}
  Workers = {w1, w2}
  Attempts = 2
  MaxErrors = 1
  MaxStalls = 1
  Absent = Absent
SPECIFICATION Spec
INVARIANTS ShownIsListed DeliveryRecorded
PROPERTIES SettledStays FlowSettles
CHECK_DEADLOCK FALSE
