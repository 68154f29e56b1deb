------------------------------ MODULE StockPush ------------------------------
(***************************************************************************)
(* One product and its listing on one marketplace.  An edit of the product  *)
(* that changes its stock queues a job with the new quantity in BullMQ, or   *)
(* has it run in memory once Redis has failed.  A run pushes its quantity,   *)
(* less what the stock settings keep back, or imports the listing's quantity *)
(* over the product's.                                                      *)
(***************************************************************************)
EXTENDS Integers, Sequences

CONSTANTS
  Amounts,       \* the quantities users set
  Sellers,       \* concurrent edits (a bound)
  Slots,         \* the concurrency of BullMQ's worker
  Emits,         \* runs in memory at a time (a bound)
  StockSettings, \* buffers, threshold and cap an integration may be set to
  MaxChanges     \* edits, adjustments, imports and saved settings in all (a bound)

Setting == [buffer : Nat, percent : 0..100, minimum : Nat, cap : Nat]

ASSUME PushAssumption ==
  /\ Amounts \subseteq Nat /\ StockSettings \subseteq Setting /\ MaxChanges \in Nat
  /\ Slots \cap Emits = {}

VARIABLES
  stock,       \* stockQuantity of the product
  listed,      \* the quantity the marketplace shows
  setting,     \* the stock settings of the integration
  redisUp,     \* isRedisAvailable: FALSE for good after the first error
  jobs,        \* quantities queued in BullMQ, oldest first
  seller,      \* seller[u]: what an edit has read and will write
  slot,        \* slot[w]: what a run holds
  changes,     \* edits, adjustments, imports and saved settings so far
  lags         \* history: why the listing may be out of step

pushVars == <<stock, listed, setting, redisUp, jobs, seller, slot, changes, lags>>

-----------------------------------------------------------------------------
AtLeast(bound, q) == IF q < bound THEN 0 ELSE q

\* Mutant: a buffer may take more than there is.
PolicyUnclamped(q, s) ==
  LET available == q - s.buffer - (q * s.percent) \div 100
  IN IF s.cap > 0 /\ available > s.cap THEN s.cap ELSE available

\* applyStockPolicy(): the buffers come off, what is below the threshold is
\* nothing and a cap is not exceeded; a cap of 0 is none.
Policy(q, s) ==
  LET available == AtLeast(s.minimum, AtLeast(0, q - s.buffer - (q * s.percent) \div 100))
  IN IF s.cap > 0 /\ available > s.cap THEN s.cap ELSE available

Seller  == [stage : {"idle", "write", "queue"}, seen : Nat, new : Nat]
NotHere == [stage |-> "idle", seen |-> 0, new |-> 0]
\* amount: the quantity a job came with, or the marketplace answered; outbound:
\* what the settings make of it.
Slot    == [stage : {"idle", "push", "read", "import"}, amount : Nat, outbound : Nat]
Vacant  == [stage |-> "idle", amount |-> 0, outbound |-> 0]
Runs    == Slots \cup Emits

\* overlap: two edits, two pushes or an import and anything else met; overtaken: a
\* push ran in memory while a job waited in BullMQ; silent: the stock was set
\* without a job; settings: other settings were saved, which pushes nothing;
\* failed: a push or its queueing failed; unwritten: a connector reported success
\* without a write; lowered: an import took a quantity that the settings had lowered.
Lags == {"overlap", "overtaken", "silent", "settings", "failed", "unwritten", "lowered"}

PushTypeOK ==
  /\ stock \in Nat /\ listed \in Nat
  /\ setting \in StockSettings
  /\ redisUp \in BOOLEAN
  /\ jobs \in Seq(Nat)
  /\ seller \in [Sellers -> Seller]
  /\ slot \in [Runs -> Slot]
  /\ changes \in 0..MaxChanges
  /\ lags \subseteq Lags

Editing(u)  == seller[u] # NotHere
Pushing(w)   == slot[w].stage = "push"
Importing(w) == slot[w].stage \in {"read", "import"}

\* No job, edit or run is left.
Settled == jobs = << >> /\ (\A u \in Sellers : ~Editing(u)) /\ \A w \in Runs : slot[w] = Vacant

Lag(condition, what) == IF condition THEN {what} ELSE {}
Change == changes < MaxChanges /\ changes' = changes + 1

-----------------------------------------------------------------------------
(* Users *)

\* update() reads the product.
OpenProduct(u, q) ==
  /\ seller[u] = NotHere /\ Change
  /\ seller' = [seller EXCEPT ![u] = [stage |-> "write", seen |-> stock, new |-> q]]
  /\ lags' = lags \cup Lag((\E v \in Sellers : Editing(v)) \/ \E w \in Runs : Importing(w), "overlap")
  /\ UNCHANGED <<stock, listed, setting, redisUp, jobs, slot>>

\* The quantity is written; only one that differs from the one read is queued.
WriteProduct(u) ==
  LET differs == seller[u].new # seller[u].seen IN
  /\ seller[u].stage = "write"
  /\ stock' = seller[u].new
  /\ seller' = [seller EXCEPT ![u] = IF differs THEN [@ EXCEPT !.stage = "queue"] ELSE NotHere]
  /\ UNCHANGED <<listed, setting, redisUp, jobs, slot, changes, lags>>

\* Mutant: the job carries the quantity read.
QueueSeen(u) ==
  /\ seller[u].stage = "queue" /\ redisUp
  /\ jobs' = Append(jobs, seller[u].seen)
  /\ seller' = [seller EXCEPT ![u] = NotHere]
  /\ UNCHANGED <<stock, listed, setting, redisUp, slot, changes, lags>>

\* A job with the quantity written, for an active integration.
QueuePush(u) ==
  /\ seller[u].stage = "queue" /\ redisUp
  /\ jobs' = Append(jobs, seller[u].new)
  /\ seller' = [seller EXCEPT ![u] = NotHere]
  /\ UNCHANGED <<stock, listed, setting, redisUp, slot, changes, lags>>

\* The run that a job with quantity q begins: resolveForRuntime() and
\* applyStockPolicy().  (That a cache may answer the former with older settings is
\* the matter of IntegrationSettings.)
RunOf(q) == [stage |-> "push", amount |-> q, outbound |-> Policy(q, setting)]

\* Redis has failed once, or does not take the job now: the job runs in memory, no
\* matter what waits in BullMQ.
RunAtOnce(u, w) ==
  /\ seller[u].stage = "queue" /\ slot[w] = Vacant
  /\ slot' = [slot EXCEPT ![w] = RunOf(seller[u].new)]
  /\ lags' = lags \cup Lag(\E x \in Runs : Pushing(x), "overlap") \cup Lag(jobs # << >>, "overtaken")
  /\ seller' = [seller EXCEPT ![u] = NotHere]
  /\ UNCHANGED <<stock, listed, setting, redisUp, jobs, changes>>

\* The integration is not active, or the error is swallowed; or the edit fails.
QueueNothing(u) ==
  /\ seller[u] # NotHere
  /\ lags' = lags \cup Lag(seller[u].stage = "queue", "failed")
  /\ seller' = [seller EXCEPT ![u] = NotHere]
  /\ UNCHANGED <<stock, listed, setting, redisUp, jobs, slot, changes>>

\* InventoryService.adjust() and the ERP import set the stock and queue nothing.
SetSilently(q) ==
  /\ Change
  /\ stock' = q
  /\ lags' = lags \cup {"silent"}
  /\ UNCHANGED <<listed, setting, redisUp, jobs, seller, slot>>

\* Other stock settings are saved: no job follows.
SaveSettings(s) ==
  /\ Change /\ s # setting
  /\ setting' = s
  /\ lags' = lags \cup {"settings"}
  /\ UNCHANGED <<stock, listed, redisUp, jobs, seller, slot>>

-----------------------------------------------------------------------------
(* The queue and the worker *)

\* The queue's 'error' handler, or the ping at the start.
RedisError ==
  /\ redisUp
  /\ redisUp' = FALSE
  /\ UNCHANGED <<stock, listed, setting, jobs, seller, slot, changes, lags>>

\* BullMQ hands out its oldest job, whatever became of isRedisAvailable.
TakePush(w) ==
  /\ slot[w] = Vacant /\ jobs # << >>
  /\ slot' = [slot EXCEPT ![w] = RunOf(Head(jobs))]
  /\ jobs' = Tail(jobs)
  /\ lags' = lags \cup Lag(\E x \in Runs : Pushing(x), "overlap")
  /\ UNCHANGED <<stock, listed, setting, redisUp, seller, changes>>

\* The connector reports success: the marketplace has the pushed quantity, unless
\* the connector did not write it (ShopifyConnector.updateStock()).
Push(w) ==
  /\ slot[w].stage = "push"
  /\ listed' \in {slot[w].outbound, listed}
  /\ lags' = lags \cup Lag(listed' # slot[w].outbound, "unwritten")
  /\ slot' = [slot EXCEPT ![w] = Vacant]
  /\ UNCHANGED <<stock, setting, redisUp, jobs, seller, changes>>

\* A failed push, or a dry run, is over, or handed out again later by BullMQ.
PushFails(w) ==
  /\ slot[w].stage = "push"
  /\ jobs' = jobs \/ (w \in Slots /\ jobs' = Append(jobs, slot[w].amount))
  /\ lags' = lags \cup {"failed"}
  /\ slot' = [slot EXCEPT ![w] = Vacant]
  /\ UNCHANGED <<stock, listed, setting, redisUp, seller, changes>>

StartImport(w) ==
  /\ slot[w] = Vacant /\ Change
  /\ slot' = [slot EXCEPT ![w].stage = "read"]
  /\ lags' = lags \cup Lag(~Settled, "overlap")
  /\ UNCHANGED <<stock, listed, setting, redisUp, jobs, seller>>

\* getProducts() answers with the listing ...
ReadListing(w) ==
  /\ slot[w].stage = "read"
  /\ slot' = [slot EXCEPT ![w] = [stage |-> "import", amount |-> listed, outbound |-> 0]]
  /\ UNCHANGED <<stock, listed, setting, redisUp, jobs, seller, changes, lags>>

\* ... and the product takes its quantity.
Import(w) ==
  /\ slot[w].stage = "import"
  /\ stock' = slot[w].amount
  /\ lags' = lags \cup Lag(Policy(stock', setting) # stock', "lowered")
  /\ slot' = [slot EXCEPT ![w] = Vacant]
  /\ UNCHANGED <<listed, setting, redisUp, jobs, seller, changes>>

ImportFails(w) ==
  /\ slot[w].stage \in {"read", "import"}
  /\ slot' = [slot EXCEPT ![w] = Vacant]
  /\ UNCHANGED <<stock, listed, setting, redisUp, jobs, seller, changes, lags>>

PushInit ==
  /\ stock \in Amounts /\ setting \in StockSettings
  /\ listed = Policy(stock, setting)
  /\ redisUp \in BOOLEAN /\ jobs = << >>
  /\ seller = [u \in Sellers |-> NotHere]
  /\ slot = [w \in Runs |-> Vacant]
  /\ changes = 0
  /\ lags = {}

PushNext ==
  \/ \E u \in Sellers :
       \/ (\E q \in Amounts : OpenProduct(u, q)) \/ WriteProduct(u)
       \/ QueuePush(u) \/ (\E w \in Emits : RunAtOnce(u, w)) \/ QueueNothing(u)
  \/ \E q \in Amounts : SetSilently(q)
  \/ \E s \in StockSettings : SaveSettings(s)
  \/ RedisError
  \/ \E w \in Slots : TakePush(w)
  \/ \E w \in Runs :
       \/ Push(w) \/ PushFails(w)
       \/ StartImport(w) \/ ReadListing(w) \/ Import(w) \/ ImportFails(w)

PushSpec == PushInit /\ [][PushNext]_pushVars

-----------------------------------------------------------------------------
(* Properties *)

\* When no job and no request is left, the marketplace shows what the settings
\* make of the stock, through edits and imports alike and whichever way a push
\* came: until two of them overlap, a push in memory overtakes a job of BullMQ, a
\* push fails or is not written, the stock is set past update(), the settings are
\* changed, or an import takes a quantity that the settings lower once more.
MarketInStep == Settled /\ lags = {} => listed = Policy(stock, setting)

=============================================================================
