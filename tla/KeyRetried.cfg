\* Three deliveries of one key, overlapping or not; any Redis command may fail,
\* any process may die.
SPECIFICATION KeySpec
CONSTANTS
  Requests = {r1, r2, r3}
  Nobody = Nobody
  Outcomes = {"order", "refused", "thrown"}
  Faults = {"crash", "store"}
INVARIANTS AtMostOneOrder OrderIsRemembered ReplayIsTheOrder
PROPERTIES EveryRequestAnswered
CHECK_DEADLOCK FALSE
