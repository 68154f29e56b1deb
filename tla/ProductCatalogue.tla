--------------------------- MODULE ProductCatalogue ---------------------------
(***************************************************************************)
(* The products of one store and the SKUs they hold.  ProductService        *)
(* creates, edits and deletes them, one by one or in bulk; imports from a   *)
(* marketplace create products and orders that name them by SKU.  The table *)
(* keeps (store, SKU) unique over all rows, the deleted ones included;      *)
(* every check of the code looks at the live rows only.                     *)
(***************************************************************************)
EXTENDS FiniteSets, Integers

CONSTANTS
  Products,     \* the ids a product can have
  Skus,
  Clerks,       \* concurrent requests (a bound)
  MaxCalls,     \* requests and imports in all (a bound)
  TOMB,         \* an SKU with the time of the deletion appended: nobody else's
  ABSENT        \* no variants in the request, no parent

ASSUME ProductAssumption ==
  /\ TOMB \notin Skus /\ ABSENT \notin Products \cup Skus /\ MaxCalls \in Nat

VARIABLES
  product,   \* product[p]: the row of p
  lines,     \* products found for orders that are still to be created
  ordered,   \* products an order item refers to
  clerk,     \* clerk[u]: what a request has read
  calls,     \* requests and imports begun
  lapses     \* history: how a deleted row came to hold an SKU, what went wrong

catalogueVars == <<product, lines, ordered, clerk, calls, lapses>>

-----------------------------------------------------------------------------
(* Types *)

NoRow   == [state |-> "none", sku |-> TOMB, parent |-> ABSENT]
Product == [state : {"none", "live", "deleted"}, sku : Skus \cup {TOMB},
            parent : Products \cup {ABSENT}]
Clerk ==
  [op : {"none", "create", "edit", "delete", "bulk"}, chosen : SUBSET Products,
   sku : Skus \cup {ABSENT}, variants : (SUBSET Skus) \cup {{ABSENT}}, checked : BOOLEAN,
   raced : BOOLEAN]
Off == [op |-> "none", chosen |-> {}, sku |-> ABSENT, variants |-> {ABSENT},
        checked |-> FALSE, raced |-> FALSE]

\* bulk: products were deleted in bulk; late: an edit was written to a product
\* deleted meanwhile; refused: the table refused an SKU the check had passed;
\* buried: an import or an order ended up at a deleted product.
Lapses == {"bulk", "late", "refused", "buried"}

CatalogueTypeOK ==
  /\ product \in [Products -> Product]
  /\ lines \subseteq Products /\ ordered \subseteq Products
  /\ clerk \in [Clerks -> Clerk]
  /\ calls \in 0..MaxCalls
  /\ lapses \subseteq Lapses

OnSale(p)     == product[p].state = "live"
Holders(sku)  == {p \in Products : product[p].sku = sku}
Variants(p)   == {q \in Products : product[q].parent = p}
Lapse(if, what) == IF if THEN {what} ELSE {}
NewRow(sku, parent) == [state |-> "live", sku |-> sku, parent |-> parent]

\* An id that nobody but u knows: ids are never used again.
Unclaimed(p, u) == p \notin lines \cup ordered /\ \A v \in Clerks \ {u} : p \notin clerk[v].chosen

-----------------------------------------------------------------------------
(* Requests *)

Call(u, request) ==
  /\ clerk[u].op = "none" /\ calls < MaxCalls
  /\ calls' = calls + 1
  /\ clerk' = [clerk EXCEPT ![u] = request]
  /\ UNCHANGED <<product, lines, ordered, lapses>>

CallCreate(u, p, sku, variants) ==
  /\ product[p] = NoRow /\ Unclaimed(p, u)
  /\ Call(u, [Off EXCEPT !.op = "create", !.chosen = {p}, !.sku = sku, !.variants = variants])

\* get(): only a product that is not deleted.
CallEdit(u, p, sku, variants) ==
  /\ OnSale(p)
  /\ Call(u, [Off EXCEPT !.op = "edit", !.chosen = {p}, !.variants = variants,
                         !.sku = IF sku = product[p].sku THEN ABSENT ELSE sku])

CallDelete(u, p) ==
  /\ OnSale(p)
  /\ Call(u, [Off EXCEPT !.op = "delete", !.chosen = {p}, !.checked = TRUE])

\* bulkAction(): all of the products are live and of the store, or none is touched.
CallBulk(u, chosen) ==
  /\ chosen # {} /\ \A p \in chosen : OnSale(p)
  /\ Call(u, [Off EXCEPT !.op = "bulk", !.chosen = chosen, !.checked = TRUE])

\* Mutant: of a product that is edited, the new SKU is not looked up.
CheckSkuOfNew(u) ==
  LET e == clerk[u] IN
  /\ e.op \in {"create", "edit"} /\ ~e.checked
  /\ e.op = "create" => \A p \in Holders(e.sku) : ~OnSale(p)
  /\ clerk' = [clerk EXCEPT ![u].checked = TRUE]
  /\ UNCHANGED <<product, lines, ordered, calls, lapses>>

\* No other live product has the SKU; the SKU of a variant is not looked up.
CheckSku(u) ==
  LET e == clerk[u] IN
  /\ e.op \in {"create", "edit"} /\ ~e.checked
  /\ e.sku # ABSENT => \A p \in Holders(e.sku) : ~OnSale(p)
  /\ clerk' = [clerk EXCEPT ![u].checked = TRUE]
  /\ UNCHANGED <<product, lines, ordered, calls, lapses>>

\* The request of u is over; the others were raced if a product changed.
Done(u, changed) ==
  /\ clerk' = [v \in Clerks |->
       IF v = u THEN Off ELSE [clerk[v] EXCEPT !.raced = @ \/ (changed /\ clerk[v].op # "none")]]
  /\ UNCHANGED calls

\* The rows the transaction of create() or update() leaves: the product, with
\* its SKU unless it keeps it, and its variants, hard-deleted and made anew.
Saved(e, p, ids) ==
  LET row == IF e.op = "create" THEN NewRow(e.sku, ABSENT)
             ELSE [product[p] EXCEPT !.sku = IF e.sku = ABSENT THEN @ ELSE e.sku]
      gone == IF e.op = "edit" /\ e.variants # {ABSENT} THEN Variants(p) ELSE {}
  IN  [q \in Products |->
        IF q = p THEN row
        ELSE IF q \in DOMAIN ids THEN NewRow(ids[q], p)
        ELSE IF q \in gone THEN NoRow ELSE product[q]]

\* The table accepts the rows: SKUs differ, what an order refers to is still there.
Accepted(rows) ==
  /\ \A p, q \in Products : p # q /\ rows[p].sku = rows[q].sku => rows[p].sku = TOMB
  /\ \A p \in ordered : rows[p] # NoRow

\* The transaction of create() and of update(), which writes the row by its id:
\* there must be one, and no variant that was ordered can be deleted.
SaveProduct(u) ==
  LET e   == clerk[u]
      p   == CHOOSE q \in e.chosen : TRUE
      new == e.variants \ {ABSENT}
      free == {q \in Products : q # p /\ Unclaimed(q, u) /\ (product[q] = NoRow \/ product[q].parent = p)}
  IN
  /\ e.op \in {"create", "edit"} /\ e.checked
  /\ \E used \in SUBSET free :
       /\ Cardinality(used) = Cardinality(new)
       /\ \E ids \in [used -> new] :
            LET rows == Saved(e, p, ids)
                ok   == Accepted(rows) /\ (e.op = "edit" => product[p] # NoRow)
            IN
            /\ {ids[q] : q \in used} = new
            /\ \/ /\ ok
                  /\ product' = rows
                  /\ lapses' = lapses \cup Lapse(e.op = "edit" /\ ~OnSale(p), "late")
                  /\ Done(u, TRUE)
               \/ /\ ~ok
                  /\ lapses' = lapses \cup Lapse(e.variants = {ABSENT} /\ ~e.raced, "refused")
                  /\ Done(u, FALSE)
                  /\ UNCHANGED product
  /\ UNCHANGED <<lines, ordered>>

\* Mutant: the deleted product keeps its SKU.
DeleteKeepsSku(u) ==
  LET e == clerk[u] IN
  /\ e.op = "delete"
  /\ product' = [p \in Products |->
       IF p \in e.chosen /\ product[p] # NoRow THEN [product[p] EXCEPT !.state = "deleted"] ELSE product[p]]
  /\ Done(u, TRUE)
  /\ UNCHANGED <<lines, ordered, lapses>>

\* delete(): the row is marked and its SKU renamed; its variants stay as they are.
DeleteProduct(u) ==
  LET e == clerk[u] IN
  /\ e.op = "delete"
  /\ product' = [p \in Products |->
       IF p \in e.chosen /\ product[p] # NoRow
       THEN [product[p] EXCEPT !.state = "deleted", !.sku = TOMB] ELSE product[p]]
  /\ Done(u, TRUE)
  /\ UNCHANGED <<lines, ordered, lapses>>

\* bulkAction("delete"): the rows are marked, and keep their SKUs.
DeleteInBulk(u) ==
  LET e == clerk[u] IN
  /\ e.op = "bulk"
  /\ product' = [p \in Products |->
       IF p \in e.chosen /\ product[p] # NoRow THEN [product[p] EXCEPT !.state = "deleted"] ELSE product[p]]
  /\ lapses' = lapses \cup {"bulk"}
  /\ Done(u, TRUE)
  /\ UNCHANGED <<lines, ordered>>

\* A check throws, or a database call fails; the transaction is rolled back.
Abandon(u) ==
  /\ clerk[u].op # "none"
  /\ Done(u, FALSE)
  /\ UNCHANGED <<product, lines, ordered, lapses>>

-----------------------------------------------------------------------------
(* Runs of the sync worker.  Neither import looks whether a product is deleted. *)

\* The row that holds the SKU, or a new one; two that add it at once: one fails.
Reach(sku, p) ==
  /\ calls < MaxCalls /\ calls' = calls + 1
  /\ \/ /\ Holders(sku) = {p}
        /\ UNCHANGED product
     \/ /\ Holders(sku) = {} /\ product[p] = NoRow
        /\ p \notin lines /\ \A u \in Clerks : p \notin clerk[u].chosen
        /\ product' = [product EXCEPT ![p] = NewRow(sku, ABSENT)]
  /\ lapses' = lapses \cup Lapse(product[p].state = "deleted", "buried")
  /\ clerk' = [u \in Clerks |-> [clerk[u] EXCEPT !.raced = @ \/ clerk[u].op # "none"]]

\* sync_products: a product is upserted by its SKU.
ImportSku(sku, p) ==
  /\ Reach(sku, p)
  /\ UNCHANGED <<lines, ordered>>

\* sync_orders: the product of an order line is found by its SKU, or made up.
FindForLine(sku, p) ==
  /\ Reach(sku, p)
  /\ lines' = lines \cup {p}
  /\ UNCHANGED ordered

\* The order is created with its items; refused when one of the products found is
\* no longer there.  The write may fail: the run is over.
CreateOrder(items) ==
  /\ items # {} /\ items \subseteq lines
  /\ lines' = lines \ items
  /\ \/ /\ \A p \in items : product[p] # NoRow
        /\ ordered' = ordered \cup items
     \/ UNCHANGED ordered
  /\ UNCHANGED <<product, clerk, calls, lapses>>

CatalogueInit ==
  /\ product = [p \in Products |-> NoRow]
  /\ lines = {} /\ ordered = {}
  /\ clerk = [u \in Clerks |-> Off]
  /\ calls = 0
  /\ lapses = {}

VariantLists == (SUBSET Skus) \cup {{ABSENT}}

CatalogueNext ==
  \/ \E u \in Clerks :
       \/ \E p \in Products, variants \in VariantLists :
            \/ \E sku \in Skus : CallCreate(u, p, sku, variants)
            \/ \E sku \in Skus \cup {ABSENT} : CallEdit(u, p, sku, variants)
       \/ \E p \in Products : CallDelete(u, p)
       \/ \E chosen \in SUBSET Products : CallBulk(u, chosen)
       \/ CheckSku(u) \/ SaveProduct(u) \/ DeleteProduct(u) \/ DeleteInBulk(u) \/ Abandon(u)
  \/ \E sku \in Skus, p \in Products : ImportSku(sku, p) \/ FindForLine(sku, p)
  \/ \E items \in SUBSET Products : CreateOrder(items)

CatalogueSpec == CatalogueInit /\ [][CatalogueNext]_catalogueVars

-----------------------------------------------------------------------------
(* Properties *)

\* A deleted product lets go of its SKU, so that imports and orders that name
\* the SKU always reach a live product, until products are deleted in bulk or an
\* edit is written after the deletion.
DeletedFreesSku ==
  lapses \cap {"bulk", "late"} = {} =>
    /\ \A p \in Products : product[p].state = "deleted" => product[p].sku = TOMB
    /\ "buried" \notin lapses

\* The table never refuses a product that the check has let pass, unless another
\* request came between, a deleted product holds the SKU, or variants are given:
\* their SKUs are not checked, and one that was ordered cannot be made anew.
RefusedWithReason == lapses \cap {"bulk", "late"} = {} => "refused" \notin lapses

=============================================================================
