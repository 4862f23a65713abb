\* Two checkouts for two units of stock, one fault of any kind.
CONSTANTS
  Orders = {1, 2}
  Holds = {r1, r2, r3}
  Instances = {l1}
  Stock = 2
  Attempts = 2
  MaxCart = 1
  FaultKinds = {"schedule", "stall", "lost", "queue", "listing", "release"}
  MaxFaults = 1
  None = None
SPECIFICATION FairSpec
INVARIANTS
  TypeOK
  IntentNeedsHold
  CancelledHoldsNothing
PROPERTIES
  FailedReleases
CHECK_DEADLOCK FALSE
