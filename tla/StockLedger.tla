----------------------------- MODULE StockLedger -----------------------------
(***************************************************************************)
(* The inventory of one product of one store: the quantity of the product,  *)
(* its inventory record and the ledger of adjustments.  Users list and      *)
(* adjust the inventory in requests that overlap; edits of the product and  *)
(* imports set the product's quantity past the record.                      *)
(***************************************************************************)
EXTENDS Integers

CONSTANTS
  Quantities,   \* the quantities a request may name
  StockUsers,   \* concurrent requests (a bound)
  MaxStock,     \* stock and ledger are counted from -MaxStock to MaxStock (a bound)
  UNKNOWN       \* no quantity

Levels == -MaxStock..MaxStock

ASSUME QuantityAssumption == MaxStock \in Nat /\ Quantities \subseteq Levels
ASSUME UnknownAssumption  == UNKNOWN \notin Int

VARIABLES
  onHand,     \* stockQuantity of the product
  inventory,  \* its inventory record: available and defective quantity
  ledger,     \* what the ledger accounts for: opening stock and adjustments, damages
  adjuster,   \* adjuster[u]: what a request has read
  slips       \* history: what has gone wrong

ledgerVars == <<onHand, inventory, ledger, adjuster, slips>>

-----------------------------------------------------------------------------
(* Types *)

Kinds     == {"inbound", "outbound", "transfer", "damage", "lost", "count"}
Withdraws == {"outbound", "damage", "lost"}
Missing   == [available |-> UNKNOWN, defective |-> 0]
Adjuster  == [stage : {"idle", "list", "adjust", "ready"}, seen : Levels, defects : Levels]
Free      == [stage |-> "idle", seen |-> 0, defects |-> 0]

\* overlap: an adjustment was written over another one; clamped, transfer: one
\* that does not add up by itself; bypassed: the product was set, not the record.
Slips == {"overlap", "clamped", "transfer", "bypassed"}

LedgerTypeOK ==
  /\ onHand \in Levels
  /\ inventory \in [available : Levels \cup {UNKNOWN}, defective : Levels]
  /\ ledger \in [total : Levels, damaged : Levels]
  /\ adjuster \in [StockUsers -> Adjuster]
  /\ slips \subseteq Slips

Slip(condition, what) == IF condition THEN {what} ELSE {}

-----------------------------------------------------------------------------
LedgerInit ==
  /\ onHand \in {q \in Quantities : q >= 0}
  /\ inventory = Missing
  /\ ledger = [total |-> 0, damaged |-> 0]
  /\ adjuster = [u \in StockUsers |-> Free]
  /\ slips = {}

\* list() and adjust() read the product ...
ReadProduct(u, stage) ==
  /\ adjuster[u].stage = "idle"
  /\ adjuster' = [adjuster EXCEPT ![u] = [stage |-> stage, seen |-> onHand, defects |-> 0]]
  /\ UNCHANGED <<onHand, inventory, ledger, slips>>

\* ... and make sure it has an inventory record, opened with the stock they
\* read; an existing one is returned as it is.
Upsert(u) ==
  LET opened == inventory.available = UNKNOWN
      record == IF opened THEN [available |-> adjuster[u].seen, defective |-> 0] ELSE inventory
  IN
  /\ adjuster[u].stage \in {"list", "adjust"}
  /\ inventory' = record
  /\ ledger' = IF opened THEN [total |-> adjuster[u].seen, damaged |-> 0] ELSE ledger
  /\ adjuster' = [adjuster EXCEPT ![u] =
       IF @.stage = "list" THEN Free
       ELSE [stage |-> "ready", seen |-> record.available, defects |-> record.defective]]
  /\ slips' = slips \cup Slip(opened /\ adjuster[u].seen # onHand, "bypassed")
  /\ UNCHANGED onHand

\* What an adjustment makes of the quantity it has read.
After(kind, before, n) ==
  CASE kind = "inbound" -> before + n
    [] kind \in Withdraws -> IF before - n < 0 THEN 0 ELSE before - n
    [] kind = "count" -> n
    [] OTHER -> before

\* Mutant: a count is entered as the number that was counted.
EntryOfCount(kind, before, n) == IF kind \in Withdraws THEN -n ELSE n

\* What it enters into the ledger: of a withdrawal the whole quantity, also when
\* there was less; of a transfer the quantity, though it changes nothing.
Entry(kind, before, n) ==
  CASE kind \in Withdraws -> -n
    [] kind = "count" -> n - before
    [] OTHER -> n

\* Mutant: the product's quantity is not synced.
AdjustRecordOnly(u, kind, n) ==
  LET before == adjuster[u].seen IN
  /\ adjuster[u].stage = "ready"
  /\ After(kind, before, n) \in Levels /\ ledger.total + Entry(kind, before, n) \in Levels
  /\ inventory' = [inventory EXCEPT !.available = After(kind, before, n)]
  /\ ledger' = [ledger EXCEPT !.total = @ + Entry(kind, before, n)]
  /\ adjuster' = [adjuster EXCEPT ![u] = Free]
  /\ UNCHANGED <<onHand, slips>>

\* The transaction of adjust(): the record, the product and the ledger at once.
Adjust(u, kind, n) ==
  LET before  == adjuster[u].seen
      after   == After(kind, before, n)
      damaged == IF kind = "damage" THEN n ELSE 0
  IN
  /\ adjuster[u].stage = "ready"
  /\ after \in Levels /\ ledger.total + Entry(kind, before, n) \in Levels
  /\ adjuster[u].defects + damaged \in Levels /\ ledger.damaged + damaged \in Levels
  /\ inventory' = [available |-> after,
                   defective |-> IF kind = "damage" THEN adjuster[u].defects + n ELSE inventory.defective]
  /\ onHand' = after
  /\ ledger' = [total |-> ledger.total + Entry(kind, before, n), damaged |-> ledger.damaged + damaged]
  /\ adjuster' = [adjuster EXCEPT ![u] = Free]
  /\ slips' = slips
       \cup Slip(inventory # [available |-> before, defective |-> adjuster[u].defects], "overlap")
       \cup Slip(kind \in Withdraws /\ before - n < 0, "clamped")
       \cup Slip(kind = "transfer" /\ n # 0, "transfer")

\* A database call of a request throws; what its transaction wrote is undone.
AdjustFails(u) ==
  /\ adjuster[u].stage # "idle"
  /\ adjuster' = [adjuster EXCEPT ![u] = Free]
  /\ UNCHANGED <<onHand, inventory, ledger, slips>>

\* ProductService.update(), or the upsert of a run that imports the products.
SetProduct(q) ==
  /\ onHand' = q
  /\ slips' = slips \cup Slip(inventory.available \notin {UNKNOWN, q}, "bypassed")
  /\ UNCHANGED <<inventory, ledger, adjuster>>

LedgerNext ==
  \/ \E u \in StockUsers :
       \/ \E stage \in {"list", "adjust"} : ReadProduct(u, stage)
       \/ Upsert(u)
       \/ \E kind \in Kinds, n \in Quantities : Adjust(u, kind, n)
       \/ AdjustFails(u)
  \/ \E q \in Quantities : SetProduct(q)

LedgerSpec == LedgerInit /\ [][LedgerNext]_ledgerVars

-----------------------------------------------------------------------------
(* Properties *)

\* The ledger explains the inventory: the opening stock and the adjustments add
\* up to the available quantity and the damages to the defective one, until two
\* adjustments overlap, or one that does not add up by itself is entered: a
\* withdrawal of more than there is, or a transfer.
LedgerAddsUp ==
  /\ "overlap" \notin slips => inventory.defective = ledger.damaged
  /\ slips \cap {"overlap", "clamped", "transfer"} = {} /\ inventory # Missing =>
       inventory.available = ledger.total

\* The record and the product agree on the stock, however adjustments overlap,
\* until an edit or an import sets the product's alone.
InventoryIsStock ==
  "bypassed" \notin slips /\ inventory # Missing => inventory.available = onHand

=============================================================================
