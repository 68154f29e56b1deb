SPECIFICATION Spec
CONSTANTS
  o1 = o1
  o2 = o2
  Orders = {o2}
  Market <- MCMarket
  Runs = {w1}
  Requests = {r1}
  Retries = 2
  MaxInFlight = 1
  Many = 2
  Faults = {"dbWrite"}
  NONE = NONE
INVARIANTS
  ExportedOnce
