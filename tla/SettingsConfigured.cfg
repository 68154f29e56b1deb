SPECIFICATION Spec
CONSTANTS
  address = address
  channels = channels
  webhookUrl = webhookUrl
  webhookSecret = webhookSecret
  Keys = {address, channels}
  Secrets = {}
  Required = {address}
  Gate <- Ungated
  Sections <- UngatedSections
  Steps = {s1}
  Requests = {r1, r2}
  MaxVersion = 3
  NONE = NONE
  Faults = {}
INVARIANT
  ConfiguredIsComplete
CHECK_DEADLOCK FALSE
