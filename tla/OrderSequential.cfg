SPECIFICATION Spec
CONSTANTS
  w1 = w1
  w2 = w2
  Missing = Missing
  Workers = {w1}
  Methods = {"ONLINE", "COD"}
  Endpoints = {"Confirm", "Process", "Ship", "Deliver", "DeliverCod", "Cancel", "View", "List"}
  Metadata = {{}, {"reservation"}, {"reservation", "cart"}}
  FaultKinds = {}
  MaxFaults = 0
INVARIANTS
  CacheCoherent
  FlowOnce
PROPERTIES
  ImplementsStatusMachine
