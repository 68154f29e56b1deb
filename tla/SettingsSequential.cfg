SPECIFICATION Spec
CONSTANTS
  address = address
  channels = channels
  webhookUrl = webhookUrl
  webhookSecret = webhookSecret
  Keys = {address, channels, webhookUrl, webhookSecret}
  Secrets = {webhookSecret}
  Required = {address}
  Gate <- Gated
  Sections <- GatedSections
  Steps = {s1}
  Requests = {r1}
  MaxVersion = 3
  NONE = NONE
  Faults = {"crash", "dbWrite"}
INVARIANT
  NoHiddenValue
CHECK_DEADLOCK FALSE
