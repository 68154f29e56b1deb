SPECIFICATION FairSpec
CONSTANTS
  Integrations = {i1}
  Jobs = {j1, j2}
  Requests = {r1}
  Concurrency = 2
  Late = {}
  MaxAttempts = 2
  MaxStalls = 1
  NONE = NONE
  Faults = {"redisError", "addLost", "syncError"}
PROPERTY
  ImplementsJobBoard
CHECK_DEADLOCK FALSE
