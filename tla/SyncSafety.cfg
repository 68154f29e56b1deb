SPECIFICATION Spec
CONSTANTS
  Integrations = {i1}
  Jobs = {j1}
  Requests = {r1, r2}
  Concurrency = 2
  Late = {l1}
  MaxAttempts = 2
  MaxStalls = 1
  NONE = NONE
  Faults = {"crash", "redisError", "addLost", "addStored", "dbWrite", "syncError", "lockLost"}
INVARIANTS
  TypeOK
  SingleDelivery
  NoStrandedRow
  CompletedIsSettled
  PauseHolds
PROPERTY
  ExactlyOnce
SYMMETRY Symmetry
CONSTRAINT TwoKindsOfEvents
