SPECIFICATION Spec
CONSTANTS
  Integrations = {i1}
  Jobs = {j1}
  Requests = {r1}
  Concurrency = 2
  Late = {}
  MaxAttempts = 2
  MaxStalls = 1
  NONE = NONE
  Faults = {"syncError"}
INVARIANT
  PausedIsNotContacted
CHECK_DEADLOCK FALSE
