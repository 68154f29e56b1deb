SPECIFICATION Spec
CONSTANTS
  u1 = u1
  u2 = u2
  u3 = u3
  Quantities = {1, 2}
  StockUsers = {u1, u2}
  MaxStock = 2
  UNKNOWN = UNKNOWN
  Categories = {1, 2}
  AgencyOf <- MCAgencyOf
  CategorySlugs = {1, 2}
  Articles = {1}
  ArticleScope = 1
  Editors = {u1, u2}
  MaxEdits = 4
  ROOT = ROOT
  KEEP = KEEP
  Products = {1, 2, 3}
  Skus = {1, 2}
  Clerks = {u1, u2}
  MaxCalls = 3
  TOMB = TOMB
  ABSENT = ABSENT
  Tokens = {1, 2, 3, 4}
  Devices = {1, 2}
  Callers = {u1, u2}
  MaxSessionCalls = 5
  NOTOKEN = NOTOKEN
  Firms = {1, 2}
  Clients = {1}
  Stores = {1, 2}
  Roles = {1, 2}
  Stewards = {u1, u2}
  MaxTenantCalls = 5
  NULL = NULL
  Runners = {u1, u2}
  MaxIssues = 3
  MaxVaultCalls = 3
  MASK = MASK
  KEEPS = KEEPS
  Calls = {u1, u2, u3}
  WindowLength = 3
  Limits = {1, 2}
  LastTick = 6
  OrderKeys = {1}
  Attendants = {u1, u2}
  MaxDeskCalls = 4
  Patches <- MCPatches
  SAME = SAME
  Amounts = {0, 4}
  Sellers = {u1, u2}
  Slots = {u1, u2}
  Emits = {u3}
  StockSettings <- MCStockSettings
  MaxChanges = 3
  FeedOrders = {1, 2, 3, 4, 5}
  PageSize = 2
  MaxPages = 2
  MaxShifts = 2
  ImportChoices <- MCImportChoices
  UNCOUNTED = UNCOUNTED
  Studied <- MCStudied
  Offers <- MCOffers
  MaxKeys = 2
  MASKED = {"masked"}
INVARIANTS
  TypesOK
  LedgerAddsUp
  InventoryIsStock
  TreeStands
  SlugsDiffer
  DeletedFreesSku
  RefusedWithReason
  OneSessionPerDevice
  DeviceStaysSignedIn
  LiveUnderLive
  SwitchAgrees
  StoredTokenWorks
  SellerKeysKept
  CallsArePaced
  TimelineTells
  RepeatIsAnswered
  MarketInStep
  FetchIsExact
  FilterKeepsWanted
  StoredIsSound
  WizardLeadsThrough
CONSTRAINT IdsInOrder
SYMMETRY Users
CHECK_DEADLOCK FALSE
