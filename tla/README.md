# KroptOS: specification and proofs

KroptOS is a multi-tenant commerce back office. A NestJS backend over PostgreSQL
(Prisma) keeps the products, stock and orders of many stores, and synchronises
them with marketplaces (Trendyol, Hepsiburada, Amazon, ...) and with an ERP
(Logo) through jobs that run outside the HTTP requests. This directory models
the parts of the backend where handlers, jobs, crashes and remote systems
interact; TLC checks the models on small instances and TLAPS proves the most
important invariants for instances of every size.

Paths below are relative to `src/packages/backend/src/` unless they start with
`packages/`.

## 1. Inventory

| Component | State it keeps | Operations | What is hard, what must hold | Modelled in |
|---|---|---|---|---|
| Sync queue, `modules/integration/integration-queue.service.ts` | one `IntegrationQueue` row per job; a BullMQ job in Redis; the flag `isRedisAvailable` | `addSyncJob` | a row and its delivery are two writes; Redis may be down, or take a job and lose the reply. Every row is delivered once | `IntegrationSync` |
| Sync worker, `modules/integration/integration-sync.worker.ts` | the row's status, the integration's status and `lastSyncAt`; imported products and orders | `processJob`, called by BullMQ (two slots) and by the in-memory listener | at-least-once delivery, stalls with and without a crash, writes that throw in the middle. Every row is settled, once; the user's pause survives; no order is exported twice | `IntegrationSync`, `OrderExport`, `StockPush`, `CredentialRotation` |
| Integration service, `modules/integration/integration.service.ts` | the `Integration` row: status, `deletedAt`, credentials | create, update, delete, testConnection, triggerSync | every handler reads, awaits and writes by id | `IntegrationSync`, `IntegrationSettings`, `CredentialRotation` |
| Integration settings, `modules/integration-settings/integration-settings.service.ts` | the `IntegrationSetting` row, its revisions, the in-process `runtimeCache` | save, reset, restoreRevision, completeWizardStep, ensureForIntegration, softDeleteForIntegration, resolveForRuntime | `isConfigured` is derived data; cache against write; read-modify-write of the steps | `IntegrationSettings`, `SettingsForm` |
| Settings manifest, conditions, validator: `integrations/marketplaces/settings/`, `packages/shared/src/integration-settings/condition.ts` | none | resolve an override, evaluate conditions, prune, validate | validating only what a request writes must be enough | `SettingsManifest`, `SettingsForm` |
| Marketplace credentials, `integrations/marketplaces/core/MarketplaceCredentialService.ts` | the credentials column | decrypt, persistRotatedCredentials | a rotated token must not be lost, application keys must not be mixed up | `CredentialRotation` |
| Rate limiter and HTTP client, `integrations/marketplaces/core/` | time stamps per provider | throttle; request with retries | a sliding window across awaits; retries of calls that are not idempotent | `RateLimiter`, `OrderExport` |
| Connectors (17 providers) | a rotated token | the order list page by page, the status words | the list moves under the walk; every provider has a loop of its own | `OrderFeed`, `CredentialRotation` |
| ERP connector (Logo) | none | createSalesOrder | no answer is not a refusal | `OrderExport` |
| Order service, `modules/order/order.service.ts` | orders, timeline | create (idempotency key), updateStatus, cancel, refund | checks before the transaction; the timeline is written from what was read | `OrderDesk`, `OrderExport` |
| Inventory service, `modules/inventory/inventory.service.ts` | the record, the ledger | list, adjust | lost update; the ledger adds up to the stock | `StockLedger` |
| Product service, `modules/product/product.service.ts` | products, variants, stock | create, update, delete, bulk delete | SKU unique over deleted rows too; a stock job per change | `ProductCatalogue`, `StockPush` |
| Category service, `modules/category/category.service.ts` | a tree per agency | create, update (move), delete | no cycle, no orphan, no double slug within an agency, client and store | `CategoryTree` |
| Auth service, `modules/auth/auth.service.ts` | sessions | register, login, refreshTokens, logout, switchTenant | four queries of a refresh without a transaction | `Sessions` |
| Tenants: agencies, clients, stores, roles; the middleware | the rows and their `deletedAt` | cascading deletes, creation, assignment, admission | creation overlapping a cascade; two readings of the same roles | `TenantTree` |
| Users, `modules/settings/services/users.service.ts` | the stores a user is assigned to | `updateUserStores`; CRUD | replaced one by one, without a transaction | `TenantTree` |
| Account settings, warehouse, labels, printer, logs, audit, analytics, files, health | single rows | CRUD | little interaction | not modelled |
| Web frontend | | | rendering | not modelled |

The backend is one process (`docker-compose.yml` starts one container): what one
handler does between two awaits is atomic, everything it read before an await
may be stale after it. Rows are shared through PostgreSQL (read committed);
transactions are short and mostly contain writes only.

## 2. What is modelled

| Module | Models | Proofs |
|---|---|---|
| `IntegrationSync` (abstract: `JobBoard`) | queue, worker, and the handlers of the integration that bear on them | `IntegrationSyncProofs` |
| `IntegrationSettings` | the settings handlers, revisions and the runtime cache | `IntegrationSettingsProofs` |
| `OrderExport` | the import of orders, their export to the ERP, the HTTP client's attempts | `OrderExportProofs` |
| `OrderDesk` | orders as users handle them, and their timeline | `StoreProofs` |
| `StockLedger`, `StockPush` | the stock of a product: against its ledger, against a marketplace | `StoreProofs` |
| `CategoryTree`, `ProductCatalogue` | the tree of categories; SKUs, variants and deletion of products | `CatalogueProofs` |
| `Sessions`, `TenantTree` | who is signed in; what is live under what, and who is let in | `AccessProofs` |
| `CredentialRotation` | the stored refresh token against rotations and edits | `ConnectorProofs` |
| `RateLimiter` | `throttle()` | `ConnectorProofs` |
| `OrderFeed` | the page loops and status words of fifteen connectors | `ConnectorProofs` |
| `SettingsManifest`, `SettingsForm` | the settings forms and what a save makes of a request | `ConnectorProofs` |
| `MCIntegrationSync`, `MCIntegrationSettings`, `MCOrderExport`, `MCServices` | the instances TLC checks | `ServicesProofs` |

The first three meet in the worker: `IntegrationSync` says when and how often a
run takes place and treats what it does to orders as one step; `OrderExport` is
the inside of that step, for runs that start at any time and may overlap (two
jobs of one integration, two BullMQ slots, or one job delivered twice).
`StockPush` is the inside of a stock or product run, together with the edits
that queue it; `OrderFeed` is the inside of the fetch of an order run;
`CredentialRotation` is what every run does around its calls. `SettingsForm`
shows, value by value, what `IntegrationSettings` treats as sets of keys. The
others are components of their own that share no state with one another but
rows each of them reads.

Two conventions hold throughout. An action is the code between two awaits, and
a request that holds what it has read is a record in a variable indexed by
concurrent requests. A history variable (`happened`, `trouble`, `slips`, `lags`,
`clashes`, `lapses`, `fate`, `rifts`, `mishaps`, `excuses`, `hitches`) records the
kinds of races and failures so far. No guard reads it (but that a sign-in opens its
session on a device that has no history yet). Each property says under exactly
which of them a promise is kept, so that it speaks of every behaviour in which the
others do occur.

### 2.1 IntegrationSync

State. The tables (`status`, `deleted` per integration; `row`, `config` per
queue row), what Redis keeps (`bull`, `attempts`, `stalls`), what the process
keeps (`redisUp`, the runs `pc` and `seen`, the handlers `request`), and two
history variables: `paused` remembers what the user last chose, `happened` the
kinds of faults so far, so that a property can say exactly under which of them
it holds.

A *run* is a pair of a row and a lane: `processJob` can be called by BullMQ and
by the in-memory listener, and both may happen for one row. A run whose job
BullMQ takes for stalled while the process lives moves to a lane of `Late`: it
goes on, without the lock of its job, beside the run that follows it. Each
action is the code between two awaits:

| Action | Code |
|---|---|
| `TriggerGet`, `StockChange` | `triggerSync` and the tail of `ProductService.update`, up to the first insert |
| `AddRow`, then `HandToBull`, `HandToMemory` or `HandToBoth` | `addSyncJob`: the insert, then `queue.add`, the catch block, or the fallback |
| `UpdateGet`/`UpdateWrite`, `DeleteGet`/`DeleteWrite`, `TestGet`/`TestWrite` | the read and the write of update, delete and testConnection |
| `RequestEnds` | a handler that has nothing to write, or whose database call throws |
| `BullTake`, `Reject`, `Ack` | BullMQ gives a job to a slot; `processJob` throws or returns |
| `Claim`, `Fetch`, `Contact`, `Settle`, `Stamp`, `FailRow`, `FailInt` | the awaits of `processJob`, in order, each with its way to throw |
| `RedisError`, `Crash` | the queue's error handler; a restart of the process |
| `Stall`, `EndsUnheard` | a lock that runs out in a living process (Redis away for longer than `lockDuration`); a run whose end BullMQ does not hear of, because `moveToCompleted` fails or the lock is gone |

What is abstracted: which products and orders a run moves (`Contact` is one step
that succeeds or throws; `OrderExport` looks inside), the payloads, the log rows,
the credentials (`CredentialRotation` has them), back-off delays (a retry may come
at any time), and `assertConfigured`, whose state `IntegrationSettings` models. The
`deleted` flag is not looked at by the worker; this is what the code does.

`JobBoard` says what the table promises to a reader: a row is created, claimed once
and settled once, and every created row is settled in the end. It is instantiated in
`IntegrationSync` as `Board == INSTANCE JobBoard WITH Jobs <- Jobs, row <- row`, and
`ImplementsJobBoard` is its specification, fairness included.

### 2.2 IntegrationSettings

State: the row of one integration (absent, live or soft-deleted; the set of keys
with a value; the completed steps; `isConfigured`), its revisions, the cache, and
one record per request with what the handler has read (`was`), is about to write
(`next`) and was asked to change (`about`). Which value a key has is abstracted to
whether it has one: nothing but a `visibleWhen` condition looks further, and a gate
is modelled by its being set. Secrets are the keys that are replaced and never
blanked.

| Action | Code |
|---|---|
| `Save`, `Reset`, `Restore` | the reading half of the handler, with validation and pruning |
| `Persist`, `Invalidate` | the transaction of `persist()`, and the line after it |
| `CompleteStep`, `FindStep`, `Effective`, `Mark` | the awaits of `completeWizardStep` (which may begin with a `Save`) |
| `Miss`, `Put`, `Expire` | `resolveForRuntime` on a miss, and the TTL |
| `Ensure` | `ensureForIntegration`, called after the transaction of `create` |
| `Delete`, `Drop`, `InvalidateDropped`, `Remove` | `IntegrationService.delete` with `softDeleteForIntegration` |
| `Fails`, `Crash` | a database call throws; a restart |

`happened` again records the races a property is conditional on: `staleWrite` (a
handler wrote over a row that was no longer what it had read), `stalePut` (a
reader cached what was no longer the row's), `revived` (a late `Ensure`).

### 2.3 OrderExport

State: the rows of the orders of one agency (`order`: status, whether it is in
the pool, `logoSyncStatus`, and whether the timeline has the `erp_synced`
event), what the ERP holds (`slips`, the number of sales orders per order
number, external), the requests the HTTP client has given up on and the ERP may
still take (`inFlight`), the runs of the worker, the users' requests, and two
history variables: `barred`, the orders cancelled while no run had them, and
`trouble`, what has gone wrong with each order, so that a property can name the
troubles it does not survive.

| Action | Code |
|---|---|
| `Create` | `OrderService.create`, in one transaction |
| `Fetched`, `Look`, `Insert`, `InsertFails` | the `sync_orders` branch of `processJob`, await by await; the unique order number |
| `List`, `Check`, `CheckFails`, `Touch` | `findMany`, then per order the idempotency check and its branch |
| `Post`, `Timeout`, `Refused` | `createSalesOrder` through `MarketplaceHttpClient.request`: an answer, no answer (retried, then thrown), a refusal (429 is retried) |
| `Mark`, `Record`, `WriteFails` | the two writes after it, and either of them throwing into the loop's catch |
| `Get`, `Write` | the read and the write of `updateStatus` and `cancel` |
| `Arrive`, `Crash` | a request that is taken after its client has gone; a restart |

What is abstracted: products, prices, stock codes and warehouses (their look-ups
can throw: `CheckFails`); the simulated mode of the connector; the mode of the
store, of which only its outcome is kept (`New`), read together with the insert
that follows it; every status the export does not ask for is `closed`. A batch
is handled in any order, because neither `findMany` nor the marketplace promises
one. Payments, refunds, notes, the idempotency key of `create` and the
soft-deletion no code performs are left out: none of them bears on the export
(`OrderDesk` has the first and the second).
Two facts of the code a reader may not expect: no code writes `FAILED` or takes
an order out of the pool, so an order awaiting manual approval stays there; and
two overlapping runs are not excluded by anything but the idempotency check (`overlap`).

### 2.4 OrderDesk

State: the order stored under each idempotency key, what its timeline ends with
(`told`), whether an entry starts from something else (`torn`), and the requests.

| Action | Code |
|---|---|
| `AskForOrder`, `Look`, `Insert` | `create`: the lookup of the key outside the transaction, the insert, the unique key's refusal |
| `Open`, `WriteOrder` | `get()` and then the transaction of `updateStatus`, `cancel` or `refund` with an entry per change |
| `MarkProcessing` | the worker's export, whose entry does not name the status it sets |
| `NotDone` | a query fails, or a refused request is answered |

Amounts, addresses, notes and e-mails are left out.

### 2.5 StockLedger and StockPush

`StockLedger` has the quantity of a product, its inventory record (opened on
demand by `list` and `adjust`), the sum of the ledger, and the requests.
`ReadProduct`, `Upsert` and `Adjust` are the awaits of `adjust`; `SetProduct` is
every code that sets the product's quantity past the record. The quirks are in:
a withdrawal of more than there is is clamped but entered whole, and a transfer
enters a quantity that it does not move.

`StockPush` has the quantity, what the marketplace shows, the stock settings, the
jobs of BullMQ, `isRedisAvailable`, and the edits and runs under way. `Policy` is
`applyStockPolicy`. `OpenProduct`, `WriteProduct` and `QueuePush` or `RunAtOnce` are
`ProductService.update`: a job goes to BullMQ, or once Redis has failed (`RedisError`)
runs in memory, whatever still waits in BullMQ. `SetSilently` is the code that changes
the stock and queues nothing, `SaveSettings` a save of other stock settings, which
queues nothing either; `TakePush`, `Push`, `StartImport`, `ReadListing`, `Import` are
the worker, each with its way to fail. A push that reports success may have left the
listing as it was (`ShopifyConnector.updateStock`).

### 2.6 CategoryTree and ProductCatalogue

`CategoryTree`: a row belongs to a scope, its agency, client and store; parents and
products are of its agency (`SameAgency`), a slug is its own within the scope
(`SlugTaken`). A request checks the parent (`CheckParent`), walks up from it one
query at a time (`Walk`), checks the slug (`CheckSlug`) and writes the row
(`SaveCategory`); a deletion (`RemoveCategory`) moves the children to the root
and takes the category off the products in one transaction; `FileArticle` is the
product edit that names a category. What the others wrote since a request began
(`since`) tells whether its checks were stale (`clashes`).

`ProductCatalogue`: the rows of the products of a store, of which the table keeps
the SKU unique over deleted rows while every check looks at the live ones only.
`CheckSku` and `SaveProduct` are `create` and `update`, whose variants are
hard-deleted and made anew; `DeleteProduct` renames the SKU (`TOMB`),
`DeleteInBulk` does not. `ImportSku` is the worker's upsert by SKU, `FindForLine` its
look-up for a line of an order it imports, and `CreateOrder` the insert of that order,
in a step of its own.

### 2.7 Sessions and TenantTree

`Sessions`: one user, devices, and the session rows by token. `Find`, `FindRole`,
`EndOld` and `StoreNew` are the four queries of `refreshTokens`; sign-in,
registration and `switchTenant` share the last; `Logout`, `LogoutAllDevices`,
`Expires` and `ChangeAccount` are what may come between. Passwords, two factors
and mails are left out: what they decide is a request that is refused.

`TenantTree`: the rows of agencies, clients and stores, the roles of one user and
the stores that user is assigned to (`staffed`, the `StoreUser` rows). Requests
check (`EnterClient`, `EnterStore`, `EnterRole`, `EnterDrop`) and write in a later
transaction (`SaveClient`, ..., `DropFirm`, `DropClient`, `DropStore`). `Admits` is
`TenantMiddleware.use`, `Grants` is `AuthService.switchTenant`; a header that names
a store instead of its agency is `Resolved`. An assignment admits to its store by
itself in the middleware and counts for nothing in `switchTenant`: where the two
differ, that is why. `ClearStaff` and `AddStaff` are `updateUserStores`; who may
delete a store is `MayManageStore`, which asks less than the middleware does. The
checks of one handler are read as one step: they are reads, and what matters is that
the write is later.

### 2.8 CredentialRotation

State: the stored token and application keys (`vault`), what the marketplace knows
(which keys each token was `issuedFor`, which are `spent`), and the runs and edits.
`Connect`, `Exchange`, `EndCalls`, `Collect`, `Persist` follow a run from the
construction of its connector to `persistRotatedCredentials`, which reads again and
merges; `AnswerLost` is a time-out that the HTTP client repeats; `GiveUp` every
path that does not store the rotation; `OpenEdit`, `PasteToken` and `SaveEdit` are
`update()`, which always writes the credentials, masked or absent values keeping the
old, so that an edit may bring new keys and keep the old token (`halved`).

### 2.9 RateLimiter, OrderFeed

`RateLimiter` is `throttle()`: forget what has left the window, then either go
ahead or sleep until the oldest call leaves it and look again. Integrations of one
marketplace share the times, each with its own limit.

`OrderFeed`: a walk over the pages of a list that gains and loses entries. For each
connector `GoesOn` has its condition for another page, `Word` the word its filter
compares. Whether the answer tells the total is the marketplace's choice. `Meanings`
are the seven statuses of `orders.importStatuses` and one that is none of them.
Allegro, eBay and Zalando compare other words than the settings use. Of the others,
most have no word for some of the seven and take an order in such a status for a new
one: `Folded` lists these (invoiced and returned at idefix, PttAVM and Pazarama; these
and preparing at n11, ÇiçekSepeti and Etsy, where a returned order is taken for a
shipped one; preparing at Amazon). `FilterKeepsWanted` says what follows: such an order
is kept when the word it is taken for is named, whatever the settings say of its own.
The rows themselves and their wire format are left out.

### 2.10 SettingsManifest and SettingsForm

`SettingsManifest` has the base form field by field (key, default where a condition
or rule reads it, required, secret, condition, capability), the six cross rules,
the twelve overrides, and `ResolveManifest` with the seven steps of
`manifest.merge.ts`. `SettingsForm` edits one tab of one provider: `SaveForm` merges
the request with what is stored (or replaces it), splits off the secrets, prunes
what no condition shows and validates what the request touches; `ResetSection` and
`ResetAll` clear. A value is one of a few of its kind, and `bad` stands for every
value that the check of its field's type refuses, in a secret too: the API takes a
secret that is no text. `unchecked` remembers the secrets that were sent while a
condition hid them, which the validator passes over (63-68) and the service stores
(264); `StoredIsSound` excuses these and nothing else.

## 3. What the runs show

| Run | Checks | Bounds |
|---|---|---|
| `sync_safety` | `TypeOK`, `SingleDelivery`, `NoStrandedRow`, `CompletedIsSettled`, `PauseHolds`, `ExactlyOnce` | 1 integration, 1 row, 2 requests, all faults, 2 attempts, 1 stall, 1 run without its lock, at most two of the four kinds of events; 2.1 million states |
| `sync_live` | `ImplementsJobBoard` under `FairSpec` | 1 integration, 2 rows, 1 request; Redis and the marketplace may fail; 0.2 million states |
| `sync_paused`, `sync_reenabled` | violated: see section 5 | 1 row, 1 request |
| `settings_overlap` | `TypeOK`, `ConfiguredUnlessRaced`, `CacheFreshUnlessOvertaken`, `StepsStay`, `LosesOnlyRaced` | 2 keys, 2 steps, 2 requests, 2 revisions, crashes; 3.3 million states |
| `settings_sequential` | `NoHiddenValue` | 4 keys (one gates a plain and a secret one), 1 request, 3 revisions, crashes and failed writes |
| `settings_configured`, `settings_cache` | violated: see section 5 | 2 keys, 2 requests |
| `order_safety` | `TypeOK`, `PoolStaysOut`, `ExportedOnceUnlessTroubled`, `RecordsAreTrue`, `CancelIsFinal` | 1 imported order, 2 runs, 2 users, 2 attempts, 1 request in flight, all faults; 0.23 million states |
| `order_live` | `ListedIsExported` under `FairSpec` | 2 orders (created and imported), 1 run, 1 user; refusals and failed writes; 0.24 million states |
| `order_twice` | violated: see section 5 | 1 order, 1 run |
| `services` | the 21 properties listed below | eleven components, 2 concurrent requests each; 0.57 million states |

Why the bounds are enough. The properties of the pipeline speak of one row at a
time, and rows interact only through the worker slots and through the status of
their integration; `sync_live` has the two rows of `triggerSync` competing for the
handler. Two requests are enough for a pause, a deletion or a second hand-over to
fall between any two awaits. Two attempts and one stall give every combination of a
first and a last one. One run at a time may be without its lock (`Late`), beside the
one that follows it and one in memory. `TwoKindsOfEvents` stops a behaviour when a
third kind of event has happened: every property but the type invariant is
conditional on the absence of some of the four, so what is cut off is little of what
they claim. The row ids (`Jobs`) bound the number of jobs ever created. The proofs
of section 4 lift all of these bounds for the safety properties. In the settings, a
race has a reader and a writer: two requests; `MaxVersion` bounds the number of
writes, and a write over a stale read needs two of them. A write that fails is a
handler that ends, as in a crash; `settings_sequential` has both. The safety
properties of the export speak of one order at a time, and orders share nothing but
the list of a run, so one order with two runs and two users shows every race;
`order_live` has two, because it is about what one of them may do to the other.
`Many` counts sales orders up to two, and `MaxInFlight` bounds the requests in
flight per order; the proofs hold for any.

### 3.1 The run `services`

`MCServices` checks eleven components in one run: every behaviour chooses one of
them in its first state, takes its steps and leaves the variables of the others
at one initial value. The components do not share variables, so nothing is lost.

| Component | Property | What it says |
|---|---|---|
| all | `TypesOK` | the state has its types |
| inventory | `LedgerAddsUp` | the opening stock and the entries add up to the record, unless adjustments overlap, a withdrawal is clamped or a transfer is entered |
| | `InventoryIsStock` | record and product agree, however adjustments overlap, until the product's quantity is set alone |
| stock | `MarketInStep` | when no work is left the marketplace shows what the settings make of the stock, unless edits or imports overlapped, a run in memory overtook a waiting job, a push failed or was not written, the settings changed or lowered an imported quantity, or the stock was set past `update()` |
| categories | `TreeStands` | no cycle unless moves overlap; nothing live under what is deleted unless a deletion overlaps |
| | `SlugsDiffer` | live slugs of one agency, client and store differ unless writes of slugs overlap |
| products | `DeletedFreesSku` | a deleted product lets go of its SKU, so that imports reach live ones; not so after a bulk deletion or a late edit |
| | `RefusedWithReason` | the table refuses only what another request made impossible after the check |
| sessions | `OneSessionPerDevice` | one live session per device, none after logout, unless a refresh overlaps |
| | `DeviceStaysSignedIn` | a session is lost only by logout, expiry, overlap or a refresh that fails half-way |
| tenants | `LiveUnderLive` | what is live has live owners, unless it was created while a deletion overlapped |
| | `SwitchAgrees` | a token `switchTenant` issues is admitted by the middleware, and what the middleware admits to a store beyond that, it admits by an assignment to that store |
| credentials | `StoredTokenWorks` | the stored token is unspent and fits the stored keys, unless a rotation was lost, an edit crossed a run or the seller stored keys without a token of theirs |
| | `SellerKeysKept` | no merge changes the application keys |
| limiter | `CallsArePaced` | no call goes into a full window, none sleeps without need |
| orders | `TimelineTells` | the timeline ends with what the order is, and its entries follow on from one another |
| | `RepeatIsAnswered` | a repeated creation is answered with the order; only an overlapping one is refused |
| feed | `FetchIsExact` | a walk misses and repeats nothing unless the list moved in the part already read, a limit cut it, or a total is missing where the loop needs it |
| | `FilterKeepsWanted` | an order whose status the settings name survives the filter, if they also name what a connector without a word for it takes it for; of the others only such pass |
| settings | `StoredIsSound` | validating what a request writes keeps the whole valid, but for secrets sent while hidden, and no plain value stays stored behind a condition that hides it |
| | `WizardLeadsThrough` | the steps of the wizard lead to tabs that exist and past every field that must be filled in |

Bounds. Two concurrent requests each (three callers of the limiter, where one must
sleep while another takes its place): every race above is one of two. What the
requests name: two SKUs and three products (one, its variant, and a newcomer), two
categories (a cycle needs two) in three scopes, two of one agency and one of
another, of which the first category has the first, two agencies, one client, two
stores (one of the client, one of the agency), two names of roles, four tokens on
two devices, two quantities, three stock settings (none, a buffer, a percentage with
threshold and cap), two slots of BullMQ and one run in memory (`Emits`), two of the
lists of statuses that the settings may name. `MaxStock` keeps the ledger within
two. How many requests: three to five per behaviour (`MaxEdits`, `MaxCalls`,
`MaxSessionCalls`, `MaxTenantCalls`, `MaxIssues`, `MaxVaultCalls`, `MaxDeskCalls`,
`MaxChanges`), which leaves room for a set-up, a race and a witness of it. The
limiter has a window of three ticks and six ticks, so that a call may sleep twice.
The feed has five orders in pages of two and a limit of two pages, so that a walk
may end by itself, at a full page and at the limit; two changes of the list. The
form studies one tab of every provider and all tabs of the four that differ most; a
request names a tab, as the drawer and the wizard save one at a time, and has values
for up to two of its keys (`MaxKeys`). `IdsInOrder` takes ids that are alike in
their order, and the users are symmetric, which is sound as the run has no liveness
property. Deadlock is off: a behaviour ends when its requests are used up. The
proofs lift these bounds.

### 3.2 Deadlock and fairness

Deadlock is checked in `sync_safety` and in the passing `order` runs. The other
runs are bounded histories that end when the ids or revisions are used up and
switch the check off.

Fairness (`sync_live`). `FairSpec` assumes weak fairness of hand-over (an
awaited `queue.add` settles, `setImmediate` fires), of BullMQ giving a waiting
job to a free slot, and of every run going on: an awaited database or HTTP call
settles (the HTTP client aborts after a timeout). Nothing is assumed of users,
and the faults are never forced to happen or to stop. The run excludes crashes,
lost writes and doubly stored jobs: the code has no recovery from them
(`NoStrandedRow` says what is lost, and when). It also takes Redis to be away for
less than BullMQ's lock lasts: after a lost lock a settled row may be run again.

Fairness (`order_live`). Weak fairness of the export and the import steps of
every run, for the same reason; nobody has to start a run, and no fault has to
happen or to end. Without crashes the claim is about the loop: an order the run
has listed is reached and marked, whatever happens to the others.

## 4. What is proved

`IntegrationSyncProofs` proves, for every number of integrations, rows, requests,
slots, attempts and stalls and for every set of faults, the type invariant and every
safety property `sync_safety` checks: `TypeCorrect`,
`DeliveredOnce`, `NothingStranded`, `CompletionIsHonest`, `SwitchHolds`,
`HandledOnce`, and `BoardRefined`, the safety half of the refinement of `JobBoard`.
The assumptions are those of the module: at least one slot and one attempt, ids
distinct from `NONE`, and lanes of `Late` distinct from the two others. What a lost
lock breaks is named in the statements: a row is run twice at a time and a settled
row reopened (`SingleDelivery`, `CompletedIsSettled` and `ExactlyOnce` except it);
no row is stranded by it, and no pause overwritten.

None of the properties is inductive by itself. `IInv` adds to the type
invariant what the code maintains without saying so:

- `Reserved`: a row id in a handler's hands has no row, and one handler;
- `HandedOnce`: a row being handed over is with one handler and nobody else;
- `Delivered`: what runs has a row and an integration, and the run that holds the
  lock of a job exists only while BullMQ considers the job active;
- `OneLane`: without a doubly stored job, a row with a BullMQ job has no
  in-memory run (this is what makes `SingleDelivery` hold);
- `Pursued`: while nothing was interrupted, an unsettled row is being handed
  over, waits in Redis or has a run that will still settle it (more than
  `NoStrandedRow`: a run that is past settling does not count);
- `LocksHeld`: unless a lock was lost no run is in a lane of `Late`;
- `SettledFirst`: a run past settling, or a completed job, means a settled row;
- `InStep`: while nothing has gone wrong, where a row is delivered to says which
  status it has, which is why each step is a step of `JobBoard`;
- `NoErrorSeen`: while no error status was ever written no run has seen one,
  which is why `Stamp` leaves the user's choice alone.

The proof goes action by action: a lemma for each group of handlers that only
reserve, one for the insert, one for the three ways of handing over, one for the
status writes, one for each environment step (`StallKeepsIInv` for the lost lock);
the eight steps of a run are abstracted to what they change (`RejectSteps`,
`GoesOnSteps`, `RunSteps`) so that the invariant is argued once and not eight times.

`IntegrationSettingsProofs` proves every property of the two passing settings
runs, for every manifest that satisfies `GateAssumption`, every set of steps and
requests, any number of revisions and every set of faults: `TypeCorrect`,
`HiddenNeverStored`, `LostOnlyToRaces`, `ConfiguredHonestly`, `NoStepLost` and
`CacheFreshTillOvertaken`. The steps of a handler are split once into those that
only read (`Quiet`) and those that write the row, the history or the cache
(`Writes`); each theorem then argues about the few writes it depends on. The
strengthenings:

- `TypeInv` adds `StepKnown`: a handler about to complete a step has one of the
  manifest's, which is why the steps of the row stay typed;
- `ShownInv` extends `NoHiddenValue` to every revision and to the values a
  handler is about to write, because a restore may bring any of them back. It is
  here that `GateAssumption` is needed: a save prunes once, which is enough
  because no gate is gated itself, and a section takes along what it gates;
- `CacheInv` adds that a row that was never inserted holds no values, so that a
  late `ensureForIntegration` makes no cached entry stale unless it revives a
  deleted row;
- `Layered`, part of `ShownInv`: what a handler is about to write differs from what
  it read in the keys it is about and those it hides. A gate may be turned by a
  save, so this needs that the values it read were visible (`LostOnlyToRaces`).

`ConfiguredUnlessRaced` is inductive over `TypeInv`: a write that races nobody
judges the steps it read, which are the row's, and the values it writes.

`OrderExportProofs` proves every property `order_safety` checks, for every set
of orders, runs and users, any number of attempts and requests in flight and
every set of faults: `TypeCorrect`, `PoolNeverExported`, `RecordsAlwaysTrue`,
`NotTwice` and `CancelStands`. One inductive invariant carries all five:

- `OrderAtHand`, `NotYet`: a run that handles an order has one, and nothing is
  known of orders that do not exist;
- `Listed`: what a run has on its list exists and is not in the pool, which is
  why the list read at the start is as good as a check before the post;
- `Posted`: a run that records an export has had the ERP's answer, and has
  marked the order before it writes the event;
- `PostedOnce`: while nothing has gone wrong with an order at most one run is
  posting it, nothing of it is in flight, and once it is in the ERP the event is
  there or that one run is about to write it: exactly what the idempotency check
  relies on and what every trouble breaks;
- `BarredAlone`: an order cancelled at rest is in nobody's hands, so that only a
  new list could reach it, and the list asks for its status.

The steps of a run that handles an order are argued once (`HandlesKeepsIInv`):
what is left per action is what it does to that order.

`StoreProofs`, the orders, for every set of keys, patches and requests:
`TimelineAlwaysTells` and `RepeatsAnswered`. The invariant adds `KeyKnown` and
`RepeatFinds`: a request that repeats another never gets past looking the key up, as
orders do not go away.

`StoreProofs`, the stock. `LedgerAlwaysAddsUp` and `RecordIsStock` need only
`Unopened` (before the record is opened nothing is damaged) and the lemma
`EntryExplains`: an adjustment that is neither clamped nor a transfer enters what it
changes. `MarketFollows` rests on five facts that hold while nothing has gone wrong:
`OneAtATime` (one edit, one push, be it of BullMQ or in memory), `PushMade` (a push
has what the present settings make of its quantity), `ImportAlone`, `SellerKnows`
(an edit has read what is stored until it writes, and holds what is stored until it
queues it) and `Carried`, the heart of it: if work is left, the last job that was
queued, or the push or edit under way, carries the stock; otherwise the listing
does.

`CatalogueProofs`. Acyclicity is stated with sets and not with paths: every
non-empty group of categories has one whose parent is outside. While a move is being
checked, `Walking` says that the categories it has visited are closed towards where
it stands, and `Walked` that a move ready to be written has a closed group around
its new parent without the category itself: writing it cannot close a circle.
`ParentHolds` and `SlugHolds` say that a check still holds unless `since` names what
has been written. `DeletionFreesSku` and `NoRefusalWithoutReason` rest on
`TableSound` (the unique index), `Named` (what a request has in hand) and `Unraced`
(a check that nobody raced still holds when the row is written).

`AccessProofs`. `RotationLeavesOne` and `SignedInStaysSignedIn`: while a device has
no overlap, at most one refresh of it is under way and its stage tells which session is
live (`Rotating`); a request that opens a session on a new device is the
only one to know it (`SignInAlone`). `NothingLiveUnderDeleted` and `SwitchIsAdmitted`:
what a request has checked holds until a deletion makes it stale (`ChecksHold`),
what is live stands under what is live (`Standing`), and an id in the hands of a
request is in no other's (`Promised`).

`ConnectorProofs`, the credentials. `TokenAlwaysWorks` and `KeysAlwaysKept`: a token
that is not stored is known to the one run that was given it (`Private`), what a run
has read has the keys in use until the seller stores others (`KeysRead`), and the
tokens in the hands of runs fit the keys they were read with (`TokensFit`,
`Issued`). That two runs with the same stored token rotate it twice costs nothing,
because whoever stores last stores a token that nobody has spent: this is why only a
lost rotation, and not an overlap of two runs, is among the mishaps.

`ConnectorProofs`, the limiter: `PacingHolds`, for any number of callers, any limits
and any window. The times `throttle()` keeps are compared with a history of all
calls let through, which it does not have. The invariant `PacedInv`: the history is
in order of time (`InOrder`); the times that are kept are its tail, and what was
forgotten has left the window (`RemembersWindow`, with the lemmas
`FirstRecentSplits` and `RecentIsWindow` about the filter of line 26); no call found
more in its window than its own limit allows (`WindowNeverCrowded`); and a call that
sleeps does so because of calls in the history that are still in the window, a
reason neither later calls nor the passing of time take away before the nap ends
(`NapsJustified`). `AnyWindowHolds` says the same from outside, of every interval as
long as a window and not only of those that end with a call.

`ConnectorProofs`, the feed: `FetchingIsExact` and `FilteringKeepsWanted`, for every
page size, every limit on the pages and every list. `FeedInv` describes the walk by
the place it has reached: unless the list lost an order there, what lies below it and
was there throughout has been collected (`ReadBelow`); unless it gained one there,
what lies above has not, and nothing was collected twice (`UnreadAbove`); no more was
collected than the pages hold (`PagesAddUp`); and a walk that ended without a loss
has reached the end (`ReadToTheEnd`). The lemmas `Inserted` and `Removed` say what a
change of the list does to the places of its entries, and `PagesCover`
that as many pages as a rounded-up division gives hold a list.

`ConnectorProofs`, the settings forms: `StoredStaysSound` and `WizardAlwaysLeads`, for
every choice of tabs, of values a request may hold and of how many keys it names.
`FormInv` says of what is stored that every plain value is shown and not refused by
its field, that a secret is refused only if it is `unchecked`, and that every cross
rule is met by the whole. A save keeps this
although it validates only what it touches: a rule none of whose fields was touched
reads what it read before, and a value that is pruned leaves no rule behind that read
it. That one round of pruning suffices, and that a rule reads fields of one section, is
`TablesAssumption` (`GatesOpen`, `RulesFit`): facts about the constant tables of the
manifest, which TLC evaluates on every run of `services`, as a prover would only
enumerate them. `ResolvedWizardLeads` follows a manifest through the seven steps of
`resolveManifest`: each keeps that the steps of the wizard are tabs of the form and
pass every field that must be filled in (`LedTo`), from what `DemandsAssumption` says
of the base form and the overrides (Amazon's marketplaces, on a tab the wizard passes
by, are the one exception).

`ServicesProofs` carries this over to the module that `services` checks: there one
component works and the others stand still, so a behaviour of the whole is one of each
(the lemma `EachComponentBehaves`), and `TypesAlwaysOK` and `AllHoldTogether` follow
from the theorems about one. They say no more than these do: that the properties of the
run are theorems too.

With these, every safety property of a passing run is stated by a theorem, for every
value of the constants that the named assumptions admit.

Only model-checked. Liveness under fairness and `ENABLED` are out of TLAPS' reach:
`ImplementsJobBoard` in full (`BoardRefined` is its safety half) and
`ListedIsExported`. The induction theorems of the library take an operator as a
parameter, which the installed provers cannot instantiate; where a sequence had to be
followed the proofs use an invariant over its indices, or the first index that has
a property (`LeastOf`, from the well-foundedness of the naturals). Also left to
TLC are the facts about the tables above, and that the conditions of the properties
are needed (the runs that are expected to be violated).

## 5. Where the code and its comments disagree

- A pause does not stop a job that is already queued (`sync_paused`;
  `integration.service.ts:396-398` against `integration-sync.worker.ts:127`).
- A run can re-enable an integration the user paused meanwhile (`sync_reenabled`;
  `integration-sync.worker.ts:504-505` against line 506).
- `isConfigured` can be written true of a row with a required field blank
  (`settings_configured`; `integration-settings.service.ts:371-373` against 379).
- A stale cache entry can survive a write (`settings_cache`;
  `integration-settings.service.ts:60-61` against 166). The TTL does bound it.
- The check that is to prevent duplicate exports looks for an event that is
  written last, so a failed write exports an order twice (`order_twice`;
  `integration-sync.worker.ts:268` against 313-327).

`PauseHolds`, `ConfiguredUnlessRaced`, `LosesOnlyRaced`, `CacheFreshUnlessOvertaken`
and `ExportedOnceUnlessTroubled` say what is left: the exact condition under which
each promise is kept.

## 6. Plan

All modules of the plan are there: `IntegrationSync` with `JobBoard`,
`IntegrationSettings`, `OrderExport`, `CredentialRotation`, `StockLedger` (with
`StockPush`), `RateLimiter`, `CategoryTree`, `Sessions`, `OrderDesk`, and beyond it
`ProductCatalogue`, `TenantTree`, `OrderFeed` and the settings forms. The safety
properties of all of them are proved.

What could follow: the composition of `OrderFeed` with `OrderExport` (an order the
walk missed is imported by a later run, as long as it stays within the time the run
asks for); the product side of the connectors, each with its own batches; and the
deletion of a store or agency while jobs of its integrations are queued.

## 7. Not modelled, and why

The map covers about an eighth of the implementation lines. More than half of
these (32 of 58 thousand) are the Next.js frontend: markup, forms and tables over
the API, without state that outlives a page or a protocol with the backend beyond
request and answer. Of the backend, what is left is:

- controllers and DTOs: a method call and a shape each;
- the wire formats of the connectors: the larger part of them is the mapping of
  one record to another, field by field, which a model could only repeat;
- account settings, most of users, warehouse, labels, printing, logs, audit, analytics,
  files, health: one row or one query per call;
- prices, images, bundles and the names an import writes: no property of the
  system relates them to anything else.

Facts that came up while modelling, and that are the subject of no property:

- of two overlapping PATCHes of different keys the earlier one is lost, although
  "a PATCH layers onto what is stored" (`integration-settings.service.ts:256`): it is
  layered onto what was read (252) and written whole (595). `LosesOnlyRaced` says that
  nothing but such an overlap loses a key;
- webhook secrets are never pruned: the save filters the plain values only
  (`NoHiddenValue` and `StoredIsSound` are therefore about plain ones);
- the cross rule about `pricing.markupValue` is not filtered by provider: one without
  the pricing tab (Allegro, eBay) cannot satisfy it, so that the validation of all of its
  settings fails whatever they are (`SavedIsValid` leaves out rules without their field);
- most connectors read an order that is invoiced or returned as a new one, so that
  an import restricted to those statuses finds none of them, and one restricted to
  new orders finds them all (`FilterKeepsWanted` makes an exception of them);
- `cancel` and `refund` of `OrderService` pass the id they were given to the update,
  although `get()` accepts a public id too;
- Hepsiburada's `InTransit` passes the filter as shipped and is stored as pending;
- `updateUserStores` replaces the assignments of a user without a transaction: a
  failure half-way leaves fewer of them (`TenantTree` has the state; no property
  promises more).
