SPECIFICATION Spec
CONSTANTS
  w1 = w1
  w2 = w2
  Missing = Missing
  Workers = {w1, w2}
  Methods = {"ONLINE", "COD"}
  Endpoints = {"Confirm", "Process", "DeliverCod", "Cancel"}
  Metadata = {{"reservation"}}
  FaultKinds = {"repository"}
  MaxFaults = 1
SYMMETRY Symmetry
INVARIANTS
  LegalHistory
  PaymentRespected
