SPECIFICATION FairSpec
CONSTANTS
  w1 = w1
  w2 = w2
  Missing = Missing
  Workers = {w1, w2}
  Methods = {"ONLINE", "COD"}
  Endpoints = {"Confirm", "Cancel"}
  Metadata = {{}, {"reservation"}, {"reservation", "cart"}}
  FaultKinds = {"crash", "queue"}
  MaxFaults = 1
INVARIANTS
  FlowsJustified
PROPERTIES
  EventLeavesPending
  CancelledReleases
  FailureReleases
