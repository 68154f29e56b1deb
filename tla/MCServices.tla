----------------------------- MODULE MCServices -----------------------------
(***************************************************************************)
(* The components that hold still while another one works: every behaviour  *)
(* is one of a single component, whose initial states and steps are those   *)
(* of its module; the variables of the others keep one initial value each.  *)
(***************************************************************************)
EXTENDS StockLedger, CategoryTree, ProductCatalogue, Sessions, TenantTree, CredentialRotation, RateLimiter,
        OrderDesk, StockPush, OrderFeed, SettingsForm, TLC

VARIABLE component

Users == Permutations(StockUsers)

\* Values of the constants that a configuration cannot spell.

MCPatches ==
  {[NoPatch EXCEPT !.status = "cancelled"], [NoPatch EXCEPT !.status = "pending"],
   [NoPatch EXCEPT !.status = "processing", !.payment = "paid"], [NoPatch EXCEPT !.fulfilment = "fulfilled"]}

\* Two scopes of one agency, and one of another.
MCAgencyOf == <<1, 1, 2>>

MCStockSettings ==
  {[buffer |-> 0, percent |-> 0, minimum |-> 0, cap |-> 0], [buffer |-> 1, percent |-> 0, minimum |-> 0, cap |-> 0],
   [buffer |-> 0, percent |-> 50, minimum |-> 1, cap |-> 2]}

MCImportChoices ==
  {{"created", "invoiced", "shipped", "returned"}, {"picking", "delivered", "cancelled", "returned"}}

\* Of every provider a tab, and every tab of those whose forms differ most.
MCStudied ==
  {<<p, "general">> : p \in DOMAIN Manifests}
    \cup UNION {{<<p, t>> : t \in Manifests[p].tabs} : p \in {"trendyol", "amazon", "ciceksepeti", "ebay"}}

MCOffers ==
  [k \in {"orders.autoImport", "returns.restockOnApproval", "invoicing.autoInvoice"} |-> {{"on"}, {"off"}}]
  @@ [k \in {"stock.warehouseIds", "invoicing.erpIntegrationId", "trendyol.shipmentAddressId",
             "amazon.marketplaceIds"} |-> {{"one"}, {}}]
  @@ [k \in {"orders.intervalMinutes", "stock.allocationRuleId", "returns.restockWarehouseId",
             "notifications.emails", "amazon.mfnShippingTemplate", "cs.deliveryCities"} |-> {{"one"}}]
  @@ [k \in {"fulfillment.carrierMap"} |-> {{"one"}, {"bad"}}]
  @@ ("orders.importStatuses"      :> {{}, {"created"}, {"bad"}})
  @@ ("stock.source"               :> {{"allWarehouses"}, {"selected"}, {"allocationRule"}, {}})
  @@ ("pricing.markupType"         :> {{"none"}, {"percent"}, {}})
  @@ ("pricing.markupValue"        :> {{"0"}, {"1"}, {"bad"}})
  @@ ("pricing.floorPrice"         :> {{"1"}, {"2"}, {}})
  @@ ("pricing.ceilPrice"          :> {{"1"}, {"2"}})
  @@ ("fulfillment.model"          :> {{"seller"}, {"marketplace"}})
  @@ ("notifications.channels"     :> {{"inApp"}, {"webhook"}, {"email", "webhook"}, {}})
  @@ ("notifications.webhookUrl"   :> {{"http"}, {"https"}, {}})
  @@ ("notifications.webhookSecret" :> {{"one"}, {"bad"}, MASKED, {}})
  @@ ("amazon.fulfillmentChannel"  :> {{"FBA"}, {"FBM"}})
  @@ ("cs.deliveryType"            :> {{"sameDay"}, {"standard"}, {}})

-----------------------------------------------------------------------------
\* Ids are alike: they are taken in their order.  So are the scopes: the first
\* category is of the first, to which that of the other may stand in any relation.
Taken(ids, used) == \A i, j \in ids : (j \in used /\ i < j) => i \in used

IdsInOrder ==
  /\ Taken(Categories, {c \in Categories : category[c] # Unborn})
  /\ category[1].scope = 1
  /\ Taken(Products, {p \in Products : product[p] # NoRow})
  /\ Taken(Tokens, {t \in Tokens : session[t] # NoSession})
  /\ Taken(Firms, {a \in Firms : firm[a] # "none"})
  /\ Taken(Stores, {s \in Stores : store[s].state # "none"})

Components == {"inventory", "categories", "products", "sessions", "tenants", "credentials", "limiter", "orders",
               "stock", "feed", "settings"}

Init ==
  /\ component \in Components
  /\ component # "inventory" => onHand = 1
  /\ component # "tenants" => super = FALSE
  /\ component # "stock" => stock = 0 /\ redisUp = TRUE
  /\ component # "stock" => setting = [buffer |-> 0, percent |-> 0, minimum |-> 0, cap |-> 0]
  /\ component # "feed" =>
       market = "amazon" /\ wanted = {"picking", "delivered", "cancelled", "returned"} /\ feed = << >>
  /\ component # "settings" => form = <<"idefix", "general">>
  /\ LedgerInit /\ CategoryInit /\ CatalogueInit /\ SessionInit /\ TenantInit /\ RotationInit /\ LimiterInit
  /\ DeskInit /\ PushInit /\ FeedInit /\ FormInit

\* A step of the component called name leaves the variables of the others.
Alone(name, others) == component = name /\ UNCHANGED <<component, others>>

Next ==
  \/ /\ Alone("inventory", <<categoryVars, catalogueVars, sessionVars, tenantVars, vaultVars, limiterVars, deskVars,
                             pushVars, feedVars, formVars>>)
     /\ LedgerNext
  \/ /\ Alone("categories", <<ledgerVars, catalogueVars, sessionVars, tenantVars, vaultVars, limiterVars, deskVars,
                              pushVars, feedVars, formVars>>)
     /\ CategoryNext
  \/ /\ Alone("products", <<ledgerVars, categoryVars, sessionVars, tenantVars, vaultVars, limiterVars, deskVars,
                            pushVars, feedVars, formVars>>)
     /\ CatalogueNext
  \/ /\ Alone("sessions", <<ledgerVars, categoryVars, catalogueVars, tenantVars, vaultVars, limiterVars, deskVars,
                            pushVars, feedVars, formVars>>)
     /\ SessionNext
  \/ /\ Alone("tenants", <<ledgerVars, categoryVars, catalogueVars, sessionVars, vaultVars, limiterVars, deskVars,
                           pushVars, feedVars, formVars>>)
     /\ TenantNext
  \/ /\ Alone("credentials", <<ledgerVars, categoryVars, catalogueVars, sessionVars, tenantVars, limiterVars,
                               deskVars, pushVars, feedVars, formVars>>)
     /\ RotationNext
  \/ /\ Alone("limiter", <<ledgerVars, categoryVars, catalogueVars, sessionVars, tenantVars, vaultVars, deskVars,
                           pushVars, feedVars, formVars>>)
     /\ LimiterNext
  \/ /\ Alone("orders", <<ledgerVars, categoryVars, catalogueVars, sessionVars, tenantVars, vaultVars, limiterVars,
                          pushVars, feedVars, formVars>>)
     /\ DeskNext
  \/ /\ Alone("stock", <<ledgerVars, categoryVars, catalogueVars, sessionVars, tenantVars, vaultVars, limiterVars,
                         deskVars, feedVars, formVars>>)
     /\ PushNext
  \/ /\ Alone("feed", <<ledgerVars, categoryVars, catalogueVars, sessionVars, tenantVars, vaultVars, limiterVars,
                        deskVars, pushVars, formVars>>)
     /\ FeedNext
  \/ /\ Alone("settings", <<ledgerVars, categoryVars, catalogueVars, sessionVars, tenantVars, vaultVars,
                            limiterVars, deskVars, pushVars, feedVars>>)
     /\ FormNext

vars == <<component, ledgerVars, categoryVars, catalogueVars, sessionVars, tenantVars, vaultVars, limiterVars,
          deskVars, pushVars, feedVars, formVars>>

Spec == Init /\ [][Next]_vars

\* The state of the component that works is one of its types.
TypesOK ==
  CASE component = "inventory"   -> LedgerTypeOK
    [] component = "categories"  -> CategoryTypeOK
    [] component = "products"    -> CatalogueTypeOK
    [] component = "sessions"    -> SessionTypeOK
    [] component = "tenants"     -> TenantTypeOK
    [] component = "credentials" -> RotationTypeOK
    [] component = "limiter"     -> LimiterTypeOK
    [] component = "orders"      -> DeskTypeOK
    [] component = "stock"       -> PushTypeOK
    [] component = "feed"        -> FeedTypeOK
    [] component = "settings"    -> FormTypeOK

=============================================================================
