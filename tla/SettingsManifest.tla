--------------------------- MODULE SettingsManifest ---------------------------
(***************************************************************************)
(* The settings forms: tables of tabs, sections and fields, one base for    *)
(* every marketplace and an override for each, resolved at boot.            *)
(*                                                                          *)
(* A value is a set of words: {} is an empty value, a list is the set of    *)
(* its entries, anything else a set of one.                                 *)
(***************************************************************************)

-----------------------------------------------------------------------------
(* Fields, sections and tabs.  A default is told apart only where a condition   *)
(* or a rule reads it.                                                          *)

EVERY == "every"   \* no capability is asked for

Default(key, value) ==
  [key |-> key, default |-> value, required |-> FALSE, secret |-> FALSE, when |-> {}, cap |-> EVERY]
Bare(key)  == Default(key, {})
Given(key) == Default(key, {"given"})
Yes(key)   == Default(key, {"on"})
No(key)    == Default(key, {"off"})

Needed(field)    == [field EXCEPT !.required = TRUE]
Secret(field)    == [field EXCEPT !.secret = TRUE]
For(cap, field)  == [field EXCEPT !.cap = cap]
If(cond, field)  == [field EXCEPT !.when = {cond}]

Is(field, value)    == [field |-> field, op |-> "eq", value |-> value]
IsNot(field, value) == [field |-> field, op |-> "neq", value |-> value]
Has(field, value)   == [field |-> field, op |-> "contains", value |-> value]
Truthy(field)       == [field |-> field, op |-> "truthy", value |-> "on"]

Section(id, fields)         == [id |-> id, when |-> {}, fields |-> fields]
SectionIf(cond, id, fields) == [id |-> id, when |-> {cond}, fields |-> fields]
Tab(id, cap, sections)      == [id |-> id, cap |-> cap, sections |-> sections]

-----------------------------------------------------------------------------
(* BASE_TABS.                                                                   *)

GeneralTab == Tab("general", EVERY, {
  Section("general.connection", {Bare("general.displayName"), Yes("general.isActive"), Given("general.environment"),
    Bare("general.storeScope"), Given("general.currency"), Given("general.timezone")}),
  Section("general.health", {Given("general.autoDisableOnErrorCount"), Given("general.healthCheckIntervalMinutes")})})

OrdersTab == Tab("orders", "orders.read", {
  Section("orders.import", {Yes("orders.autoImport"),
    If(Truthy("orders.autoImport"), Given("orders.intervalMinutes")), Given("orders.backfillDays"),
    Default("orders.importStatuses", {"created", "picking", "shipped"}), Bare("orders.numberPrefix"),
    Yes("orders.skipTestOrders")}),
  Section("orders.statusMapping", {Bare("orders.statusMap")}),
  Section("orders.automation", {For("orders.updateStatus", No("orders.autoAccept")), Yes("orders.autoCreateShipment"),
    No("orders.splitByWarehouse"), Given("orders.onCancelAction")}),
  Section("orders.customer", {Yes("orders.createCustomerRecord"), Yes("orders.maskPII")})})

CatalogTab == Tab("catalog", "products.push", {
  Section("catalog.push", {No("catalog.autoPushNew"), Given("catalog.updateMode"), Yes("catalog.requireApproval")}),
  Section("catalog.content", {Given("catalog.titleTemplate"), Given("catalog.descriptionSource"),
    No("catalog.stripHtml"), Given("catalog.barcodeSource"), Given("catalog.imageOrder"),
    Given("catalog.maxImages")}),
  Section("catalog.defaults", {Bare("catalog.defaultBrandId"), Bare("catalog.defaultCategoryId"),
    Given("catalog.missingAttributePolicy")})})

StockTab == Tab("stock", "stock.push", {
  Section("stock.source", {Needed(Default("stock.source", {"allWarehouses"})),
    If(Is("stock.source", "selected"), Bare("stock.warehouseIds")),
    If(Is("stock.source", "allocationRule"), Bare("stock.allocationRuleId"))}),
  Section("stock.policy", {Given("stock.bufferQuantity"), Given("stock.bufferPercent"), Bare("stock.maxCap"),
    Given("stock.minThreshold"), Yes("stock.oversellProtection")}),
  Section("stock.timing", {Given("stock.pushIntervalMinutes"), Yes("stock.realtimeOnOrder"),
    Given("stock.batchSize")}),
  Section("stock.zero", {Given("stock.onZeroAction")})})

PricingTab == Tab("pricing", "price.push", {
  Section("pricing.source", {Bare("pricing.priceListId"), Needed(Given("pricing.basePriceField")),
    Yes("pricing.vatIncluded")}),
  Section("pricing.markup", {Default("pricing.markupType", {"none"}),
    If(IsNot("pricing.markupType", "none"), Default("pricing.markupValue", {"0"})), Given("pricing.rounding"),
    Bare("pricing.floorPrice"), Bare("pricing.ceilPrice")}),
  Section("pricing.margin", {For("commission.read", Bare("pricing.commissionRate")),
    Given("pricing.minMarginPercent"), Yes("pricing.blockBelowMargin")}),
  Section("pricing.timing", {Given("pricing.pushIntervalMinutes"), Yes("pricing.requireApprovalOnDrop"),
    If(Truthy("pricing.requireApprovalOnDrop"), Given("pricing.approvalDropPercent"))})})

FulfillmentTab == Tab("fulfillment", EVERY, {
  Section("fulfillment.model", {Needed(Default("fulfillment.model", {"seller"}))}),
  SectionIf(Is("fulfillment.model", "seller"), "fulfillment.carrier",
    {Bare("fulfillment.carrierMap"), Bare("fulfillment.defaultCarrierId")}),
  Section("fulfillment.timing", {Given("fulfillment.handlingDays"), Given("fulfillment.cutoffTime"),
    Given("fulfillment.workingDays")}),
  Section("fulfillment.label", {For("shipment.label", Given("fulfillment.labelSource")),
    No("fulfillment.autoPrintLabel"), Given("fulfillment.packageWeightSource")})})

ReturnsTab == Tab("returns", "returns.read", {
  Section("returns.import", {Yes("returns.autoImport"),
    If(Truthy("returns.autoImport"), Given("returns.intervalMinutes")), Given("returns.autoApproveUnderAmount"),
    Yes("returns.restockOnApproval"), If(Truthy("returns.restockOnApproval"), Bare("returns.restockWarehouseId")),
    Given("returns.refundMode")})})

InvoicingTab == Tab("invoicing", EVERY, {
  Section("invoicing.general", {No("invoicing.autoInvoice"),
    If(Truthy("invoicing.autoInvoice"), Bare("invoicing.erpIntegrationId")), Given("invoicing.invoiceType"),
    Given("invoicing.trigger"), For("invoice.upload", Yes("invoicing.uploadToMarketplace")),
    Bare("invoicing.seriesPrefix")})})

NotificationsTab == Tab("notifications", EVERY, {
  Section("notifications.channels", {Default("notifications.channels", {"inApp"}),
    If(Has("notifications.channels", "email"), Bare("notifications.emails")),
    If(Has("notifications.channels", "webhook"), Bare("notifications.webhookUrl")),
    Secret(If(Has("notifications.channels", "webhook"), Bare("notifications.webhookSecret")))}),
  Section("notifications.events", {Given("notifications.events")}),
  Section("notifications.retry", {Given("notifications.maxRetry"), Given("notifications.backoffStrategy"),
    Yes("notifications.pauseOnCritical")})})

AdvancedTab == Tab("advanced", EVERY, {
  Section("advanced.runtime", {No("advanced.dryRun"), Given("advanced.rateLimitPerMinute"),
    Given("advanced.requestTimeoutMs"), Given("advanced.concurrency"), Given("advanced.logLevel"),
    Given("advanced.logRetentionDays"), Bare("advanced.customHeaders")})})

BaseTabs == {GeneralTab, OrdersTab, CatalogTab, StockTab, PricingTab, FulfillmentTab, ReturnsTab, InvoicingTab,
             NotificationsTab, AdvancedTab}

\* The tabs the steps of the wizard lead to.
BaseWizard == {"stock", "pricing", "orders", "fulfillment", "invoicing", "notifications"}

\* Under when, the value of key must be there, be positive, be an https address,
\* or be no greater than that of other.
Rule(when, key, needs, other) == [when |-> when, key |-> key, needs |-> needs, other |-> other]

CrossRules == {
  Rule({Is("stock.source", "selected")}, "stock.warehouseIds", "entry", "stock.warehouseIds"),
  Rule({}, "pricing.floorPrice", "atMost", "pricing.ceilPrice"),
  Rule({IsNot("pricing.markupType", "none")}, "pricing.markupValue", "positive", "pricing.markupValue"),
  Rule({Truthy("invoicing.autoInvoice")}, "invoicing.erpIntegrationId", "entry", "invoicing.erpIntegrationId"),
  Rule({Has("notifications.channels", "webhook")}, "notifications.webhookUrl", "https", "notifications.webhookUrl"),
  Rule({Truthy("orders.autoImport")}, "orders.importStatuses", "entry", "orders.importStatuses")}

-----------------------------------------------------------------------------
(* The overrides of the registered providers.                                   *)

Listing  == {"orders.read", "products.read", "stock.push", "categories.read", "attributes.read"}
Selling  == Listing \cup {"orders.updateStatus", "products.push", "price.push"}
Patched  == {"orders.numberPrefix", "advanced.rateLimitPerMinute"}
Own(tab, section) == [tab |-> tab, section |-> section]

Override(caps, patch, omit, add) == [caps |-> caps, patch |-> patch, omit |-> omit, add |-> add]

TrendyolForm == Override(Selling \cup {"shipment.label", "returns.read", "commission.read", "buybox.read"},
  Patched, {}, {
  Own("fulfillment", Section("trendyol.shipment", {Needed(Bare("trendyol.shipmentAddressId")),
    Needed(Bare("trendyol.returnAddressId")), No("trendyol.fastDelivery"),
    For("buybox.read", Given("trendyol.buyboxStrategy"))}))})

TrendyolGlobalForm == Override(Selling, Patched, {}, {})

HepsiburadaForm == Override(Selling \cup {"shipment.label", "returns.read", "invoice.upload"}, Patched, {}, {
  Own("catalog", Section("hb.listing", {Given("hb.listingMode")})),
  Own("fulfillment", Section("hb.delivery", {Needed(Bare("hb.deliveryProfileId")), Bare("hb.cargoCompanyCode"),
    No("hb.fastDelivery")}))})

N11Form == Override(Selling \cup {"returns.read"}, Patched, {"fulfillment.labelSource"}, {
  Own("fulfillment", Section("n11.shipment", {Needed(Bare("n11.shipmentTemplate")), Given("n11.preparingDay")})),
  Own("catalog", Section("n11.catalog", {Yes("n11.catalogMatch")}))})

AmazonForm == Override((Selling \ {"attributes.read"}) \cup
                       {"orders.cancel", "shipment.label", "shipment.track", "returns.read"},
  Patched \cup {"general.currency"}, {"invoicing.uploadToMarketplace"}, {
  Own("general", Section("amazon.region", {Needed(Given("amazon.region")), Needed(Bare("amazon.marketplaceIds"))})),
  Own("fulfillment", Section("amazon.fulfillment", {Default("amazon.fulfillmentChannel", {"FBM"}),
    If(Is("amazon.fulfillmentChannel", "FBM"), Bare("amazon.mfnShippingTemplate"))})),
  Own("catalog", Section("amazon.feed", {Given("amazon.feedType")}))})

CicekSepetiForm == Override(Selling \ {"attributes.read"}, Patched, {"catalog.maxImages"}, {
  Own("fulfillment", Section("cs.delivery", {Needed(Default("cs.deliveryType", {"standard"})),
    If(Is("cs.deliveryType", "sameDay"), Bare("cs.deliveryCities")), Given("cs.preparationHours")})),
  Own("catalog", Section("cs.gifting", {Yes("cs.messageCardSupport")}))})

PazaramaForm == Override(Selling \cup {"returns.read"}, Patched, {"fulfillment.labelSource"}, {
  Own("catalog", Section("pazarama.listing", {Yes("pazarama.onlyApprovedProducts")}))})

EtsyForm == Override(Selling \cup {"shipment.track", "returns.read"}, Patched \cup {"general.currency"},
  {"fulfillment.labelSource", "invoicing.uploadToMarketplace"}, {
  Own("catalog", Section("etsy.listing", {Given("etsy.listingState")}))})

PttAvmForm  == Override(Selling \cup {"returns.read"}, Patched, {"fulfillment.labelSource"}, {})
IdefixForm  == Override(Selling \cup {"shipment.label", "returns.read"}, Patched, {}, {})
EbayForm    == Override(Listing, Patched, {}, {})
AllegroForm == Override(Listing, Patched, {}, {})

Overrides ==
  [trendyol |-> TrendyolForm, trendyol_global |-> TrendyolGlobalForm, hepsiburada |-> HepsiburadaForm,
   n11 |-> N11Form, amazon |-> AmazonForm, ciceksepeti |-> CicekSepetiForm, pazarama |-> PazaramaForm,
   etsy |-> EtsyForm, pttavm |-> PttAvmForm, idefix |-> IdefixForm, ebay |-> EbayForm, allegro |-> AllegroForm]

-----------------------------------------------------------------------------
(* resolveManifest.                                                             *)

\* The tabs with F done to the fields of every section.
OverFields(tabs, F(_)) ==
  {Tab(t.id, t.cap, {[id |-> s.id, when |-> s.when, fields |-> F(s.fields)] : s \in t.sections}) : t \in tabs}

\* The field with a default that is given.
Refilled(f) ==
  [key |-> f.key, default |-> {"given"}, required |-> f.required, secret |-> f.secret, when |-> f.when,
   cap |-> f.cap]

PatchFields(tabs, o) ==
  OverFields(tabs, LAMBDA fields : {IF f.key \in o.patch THEN Refilled(f) ELSE f : f \in fields})

OmitFields(tabs, o) == OverFields(tabs, LAMBDA fields : {f \in fields : f.key \notin o.omit})

AddSections(tabs, o) ==
  {Tab(t.id, t.cap, t.sections \cup {a.section : a \in {x \in o.add : x.tab = t.id}}) : t \in tabs}

Allowed(x, o) == x.cap \in o.caps \cup {EVERY}

FilterByCapabilities(tabs, o) ==
  OverFields({t \in tabs : Allowed(t, o)}, LAMBDA fields : {f \in fields : Allowed(f, o)})

DropEmpty(tabs) ==
  {t \in {Tab(t.id, t.cap, {s \in t.sections : s.fields # {}}) : t \in tabs} : t.sections # {}}

\* Mutant: a step whose tab is gone stays.
KeepSteps(tabs) == BaseWizard

\* A step whose tab is gone goes with it.
PruneSteps(tabs) == BaseWizard \cap {t.id : t \in tabs}

\* The fields, with what each takes from its section and tab.
Placed(tabs) ==
  UNION {UNION {{[key |-> f.key, tab |-> t.id, section |-> s.id, default |-> f.default, required |-> f.required,
                  secret |-> f.secret, when |-> s.when \cup f.when]
                   : f \in s.fields} : s \in t.sections} : t \in tabs}

\* A field by its key.
FieldsOf(tabs) ==
  LET placed == Placed(tabs) IN [k \in {f.key : f \in placed} |-> CHOOSE f \in placed : f.key = k]

TabsOf(o) == DropEmpty(FilterByCapabilities(AddSections(OmitFields(PatchFields(BaseTabs, o), o), o), o))

ResolveManifest(o) ==
  LET tabs == TabsOf(o)
  IN  [tabs |-> {t.id : t \in tabs}, wizard |-> PruneSteps(tabs), fields |-> FieldsOf(tabs)]

\* The registry resolves every override at boot.
Manifests == [p \in DOMAIN Overrides |-> ResolveManifest(Overrides[p])]

-----------------------------------------------------------------------------
\* A field that must be filled in by hand.
Demanded(f) == f.required /\ f.default = {}

\* What the wizard needs of the tables: the base demands nothing by hand, and
\* what a provider demands it puts on a tab that a step leads to.  Amazon's
\* marketplaces are on a tab the wizard passes by.
ASSUME DemandsAssumption ==
  /\ \A t \in BaseTabs : \A s \in t.sections : \A f \in s.fields : ~Demanded(f)
  /\ \A p \in DOMAIN Overrides \ {"amazon"} : \A a \in Overrides[p].add : \A f \in a.section.fields :
       Demanded(f) => a.tab \in BaseWizard

=============================================================================
