SPECIFICATION Spec
CONSTANTS
  o1 = o1
  o2 = o2
  Orders = {o2}
  Market <- MCMarket
  Runs = {w1, w2}
  Requests = {r1, r2}
  Retries = 2
  MaxInFlight = 1
  Many = 2
  Faults = {"crash", "dbWrite", "timeout", "refused"}
  NONE = NONE
INVARIANTS
  TypeOK
  PoolStaysOut
  ExportedOnceUnlessTroubled
  RecordsAreTrue
PROPERTIES
  CancelIsFinal
