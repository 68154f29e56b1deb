SPECIFICATION Spec
CONSTANTS
  address = address
  channels = channels
  webhookUrl = webhookUrl
  webhookSecret = webhookSecret
  Keys = {address, channels}
  Secrets = {}
  Required = {address}
  Gate <- Ungated
  Sections <- UngatedSections
  Steps = {s1, s2}
  Requests = {r1, r2}
  MaxVersion = 2
  NONE = NONE
  Faults = {"crash"}
INVARIANTS
  TypeOK
  ConfiguredUnlessRaced
  CacheFreshUnlessOvertaken
PROPERTIES
  StepsStay
  LosesOnlyRaced
SYMMETRY Symmetry
CHECK_DEADLOCK FALSE
