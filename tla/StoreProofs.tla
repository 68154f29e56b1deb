------------------------------ MODULE StoreProofs ------------------------------
(***************************************************************************)
(* What a store has: the stock of a product, with its inventory record and  *)
(* ledger; what a marketplace shows of it; and the orders, with their       *)
(* timelines.  For every set of quantities, users, runs, orders, requests   *)
(* and status updates.                                                      *)
(***************************************************************************)
EXTENDS StockLedger, StockPush, OrderDesk, SequenceTheorems, TLAPS

-----------------------------------------------------------------------------
(* Part 1.  Product, record and ledger.                                       *)

\* The properties lean on one fact about the record: none that was opened lacks
\* its quantity, and before it is opened nothing is damaged.
Unopened == inventory.available = UNKNOWN => inventory = Missing

LedgerInv == LedgerTypeOK /\ Unopened /\ LedgerAddsUp /\ InventoryIsStock

-----------------------------------------------------------------------------
LEMMA LevelsAreIntegers == Levels \subseteq Int /\ 0 \in Levels /\ UNKNOWN \notin Levels
BY QuantityAssumption, UnknownAssumption DEF Levels

LEMMA LedgerInitEstablishesLedgerInv == LedgerInit => LedgerInv
BY LevelsAreIntegers, QuantityAssumption
DEF LedgerInit, LedgerInv, LedgerTypeOK, Unopened, LedgerAddsUp, InventoryIsStock, Missing, Free, Adjuster, Slips

\* What an adjustment enters explains what it does to the quantity, but for a
\* withdrawal of more than there is and a transfer.
LEMMA EntryExplains ==
  ASSUME NEW kind \in Kinds, NEW before \in Int, NEW n \in Int,
         ~(kind \in Withdraws /\ before - n < 0), ~(kind = "transfer" /\ n # 0)
  PROVE  After(kind, before, n) = before + Entry(kind, before, n)
<1>1. CASE kind \in Withdraws
  BY <1>1 DEF After, Entry, Withdraws
<1>2. CASE kind \in {"inbound", "count", "transfer"}
  BY <1>2 DEF After, Entry, Withdraws
<1> QED
  BY <1>1, <1>2 DEF Kinds, Withdraws

LEMMA EntryIsInteger ==
  ASSUME NEW kind \in Kinds, NEW before \in Int, NEW n \in Int
  PROVE  Entry(kind, before, n) \in Int
<1>1. CASE kind \in Withdraws
  BY <1>1 DEF Entry
<1>2. CASE kind = "count"
  BY <1>2 DEF Entry, Withdraws
<1>3. CASE kind \notin Withdraws \cup {"count"}
  BY <1>3 DEF Entry
<1> QED
  BY <1>1, <1>2, <1>3

LEMMA ReadProductKeepsLedgerInv ==
  ASSUME NEW u \in StockUsers, NEW stage \in {"list", "adjust"}, LedgerInv, ReadProduct(u, stage)
  PROVE  LedgerInv'
BY LevelsAreIntegers
DEF LedgerInv, ReadProduct, LedgerTypeOK, Unopened, LedgerAddsUp, InventoryIsStock, Missing, Adjuster

LEMMA UpsertKeepsLedgerInv ==
  ASSUME NEW u \in StockUsers, LedgerInv, Upsert(u)
  PROVE  LedgerInv'
<1> USE DEF LedgerInv, Missing
<1>1. adjuster[u].seen \in Levels /\ adjuster[u] \in Adjuster
  BY DEF LedgerTypeOK, Adjuster
<1>2. CASE inventory.available = UNKNOWN
  <2>1. /\ inventory' = [available |-> adjuster[u].seen, defective |-> 0]
        /\ ledger' = [total |-> adjuster[u].seen, damaged |-> 0]
        /\ slips' = slips \cup Slip(adjuster[u].seen # onHand, "bypassed")
        /\ onHand' = onHand
    BY <1>2 DEF Upsert
  <2>2. LedgerTypeOK'
    BY <1>1, <1>2, LevelsAreIntegers DEF Upsert, LedgerTypeOK, Adjuster, Free, Slip, Slips
  <2>3. Unopened' /\ LedgerAddsUp' /\ InventoryIsStock'
    BY <1>1, <2>1, LevelsAreIntegers DEF Unopened, LedgerAddsUp, InventoryIsStock, Slip
  <2> QED
    BY <2>2, <2>3
<1>3. CASE inventory.available # UNKNOWN
  <2>1. UNCHANGED <<inventory, ledger, onHand>> /\ slips' = slips
    BY <1>3 DEF Upsert, Slip
  <2>2. LedgerTypeOK'
    BY <1>1, <1>3, <2>1, LevelsAreIntegers DEF Upsert, LedgerTypeOK, Adjuster, Free
  <2> QED
    BY <2>1, <2>2 DEF Unopened, LedgerAddsUp, InventoryIsStock
<1> QED
  BY <1>2, <1>3

LEMMA AdjustKeepsLedgerInv ==
  ASSUME NEW u \in StockUsers, NEW kind \in Kinds, NEW n \in Quantities, LedgerInv, Adjust(u, kind, n)
  PROVE  LedgerInv'
<1> DEFINE before  == adjuster[u].seen
           after   == After(kind, before, n)
           damaged == IF kind = "damage" THEN n ELSE 0
<1> USE DEF LedgerInv, Missing
<1>1. n \in Int /\ before \in Int /\ after \in Levels /\ Entry(kind, before, n) \in Int
  BY EntryIsInteger, LevelsAreIntegers, QuantityAssumption DEF LedgerTypeOK, Adjuster, Adjust
<1>2. LedgerTypeOK'
  BY <1>1, LevelsAreIntegers DEF Adjust, LedgerTypeOK, Adjuster, Free, Slip, Slips
<1>3. inventory'.available = after /\ onHand' = after /\ ledger'.total = ledger.total + Entry(kind, before, n)
  BY DEF Adjust
<1>4. Unopened' /\ InventoryIsStock'
  BY <1>1, <1>3, LevelsAreIntegers DEF Unopened, InventoryIsStock
<1>5. ASSUME "overlap" \notin slips'
      PROVE  inventory = [available |-> before, defective |-> adjuster[u].defects] /\ "overlap" \notin slips
  BY <1>5 DEF Adjust, Slip
<1>6. ASSUME "overlap" \notin slips'
      PROVE  inventory'.defective = ledger'.damaged
  <2>1. inventory.defective = ledger.damaged /\ inventory.defective = adjuster[u].defects
    BY <1>5, <1>6 DEF LedgerAddsUp
  <2>2. /\ inventory'.defective = IF kind = "damage" THEN adjuster[u].defects + n ELSE inventory.defective
        /\ ledger'.damaged = ledger.damaged + damaged
    BY DEF Adjust
  <2>3. ledger.damaged \in Int
    BY LevelsAreIntegers DEF LedgerTypeOK
  <2> HIDE DEF LedgerInv, Missing
  <2>4. CASE kind = "damage"
    <3>1. inventory'.defective = ledger.damaged + n /\ ledger'.damaged = ledger.damaged + n
      BY <2>1, <2>2, <2>4
    <3> QED
      BY <3>1
  <2>5. CASE kind # "damage"
    <3>1. inventory'.defective = ledger.damaged /\ ledger'.damaged = ledger.damaged + 0
      BY <2>1, <2>2, <2>5, Zenon
    <3>2. ledger.damaged + 0 = ledger.damaged
      BY <2>3
    <3> QED
      BY <3>1, <3>2, Zenon
  <2> QED
    BY <2>4, <2>5
<1>7. ASSUME slips' \cap {"overlap", "clamped", "transfer"} = {}
      PROVE  inventory'.available = ledger'.total
  <2>1. slips \cap {"overlap", "clamped", "transfer"} = {}
    BY <1>7 DEF Adjust
  <2>2. ~(kind \in Withdraws /\ before - n < 0) /\ ~(kind = "transfer" /\ n # 0)
    BY <1>7 DEF Adjust, Slip
  <2>3. inventory.available = before /\ inventory # Missing
    BY <1>1, <1>5, <1>7, UnknownAssumption
  <2>4. before = ledger.total
    BY <2>1, <2>3 DEF LedgerAddsUp
  <2> QED
    BY <1>1, <1>3, <2>2, <2>4, EntryExplains
<1> QED
  BY <1>2, <1>4, <1>6, <1>7 DEF LedgerAddsUp

LEMMA AdjustFailsKeepsLedgerInv ==
  ASSUME NEW u \in StockUsers, LedgerInv, AdjustFails(u)
  PROVE  LedgerInv'
BY LevelsAreIntegers
DEF LedgerInv, AdjustFails, LedgerTypeOK, Unopened, LedgerAddsUp, InventoryIsStock, Missing, Adjuster, Free

LEMMA SetProductKeepsLedgerInv ==
  ASSUME NEW q \in Quantities, LedgerInv, SetProduct(q)
  PROVE  LedgerInv'
<1> USE DEF LedgerInv, SetProduct, Slip, Missing
<1>1. LedgerTypeOK'
  BY QuantityAssumption DEF LedgerTypeOK, Slips
<1>2. Unopened' /\ LedgerAddsUp'
  BY DEF Unopened, LedgerAddsUp
<1>3. InventoryIsStock'
  BY DEF Unopened, InventoryIsStock
<1> QED
  BY <1>1, <1>2, <1>3

LEMMA LedgerNextKeepsLedgerInv == LedgerInv /\ [LedgerNext]_ledgerVars => LedgerInv'
<1> SUFFICES ASSUME LedgerInv, [LedgerNext]_ledgerVars
             PROVE  LedgerInv'
  OBVIOUS
<1>1. CASE LedgerNext
  BY <1>1, ReadProductKeepsLedgerInv, UpsertKeepsLedgerInv, AdjustKeepsLedgerInv, AdjustFailsKeepsLedgerInv, SetProductKeepsLedgerInv
  DEF LedgerNext
<1>2. CASE UNCHANGED ledgerVars
  BY <1>2 DEF ledgerVars, LedgerInv, LedgerTypeOK, Unopened, LedgerAddsUp, InventoryIsStock
<1> QED
  BY <1>1, <1>2

THEOREM LedgerInvariant == LedgerSpec => []LedgerInv
BY LedgerInitEstablishesLedgerInv, LedgerNextKeepsLedgerInv, PTL DEF LedgerSpec

-----------------------------------------------------------------------------
\* Product, record, ledger and requests keep their types.
THEOREM LedgerTypeCorrect == LedgerSpec => []LedgerTypeOK
BY LedgerInvariant, PTL DEF LedgerInv

\* Opening stock and adjustments add up to the record, until adjustments
\* overlap or one is entered that does not add up by itself.
THEOREM LedgerAlwaysAddsUp == LedgerSpec => []LedgerAddsUp
BY LedgerInvariant, PTL DEF LedgerInv

\* The record is the product's stock, until the product is set past it.
THEOREM RecordIsStock == LedgerSpec => []InventoryIsStock
BY LedgerInvariant, PTL DEF LedgerInv

-----------------------------------------------------------------------------
(* Part 2.  What the marketplace shows.                                       *)

\* Nothing overlaps: one edit, one push or one import at a time, and an import
\* has the product for itself.
OneAtATime ==
  /\ \A u, v \in Sellers : Editing(u) /\ Editing(v) => u = v
  /\ \A w, x \in Runs : Pushing(w) /\ Pushing(x) => w = x

\* A push has what the settings make of its quantity.
PushMade == \A w \in Runs : Pushing(w) => slot[w].outbound = Policy(slot[w].amount, setting)
ImportAlone ==
  \A w \in Runs : Importing(w) =>
    /\ jobs = << >> /\ (\A u \in Sellers : ~Editing(u)) /\ (\A x \in Runs \ {w} : slot[x] = Vacant)
    /\ listed = Policy(stock, setting)
    /\ slot[w].stage = "import" => slot[w].amount = listed

\* An edit works with the stock as it is.
SellerKnows ==
  \A u \in Sellers : /\ seller[u].stage = "write" => seller[u].seen = stock
                     /\ seller[u].stage = "queue" => seller[u].new = stock

\* The last job queued carries the stock, or else the push under way does, or
\* else the marketplace shows it: unless an edit has yet to queue it.
Carried ==
  (\A u \in Sellers : seller[u].stage # "queue") =>
    /\ jobs # << >> => jobs[Len(jobs)] = stock
    /\ jobs = << >> => \A w \in Runs : Pushing(w) => slot[w].amount = stock
    /\ jobs = << >> /\ (\A w \in Runs : ~Pushing(w)) => listed = Policy(stock, setting)

PushInv == PushTypeOK /\ (lags = {} => OneAtATime /\ PushMade /\ ImportAlone /\ SellerKnows /\ Carried)

LEMMA PolicyIsQuantity ==
  ASSUME NEW q \in Nat, NEW s \in Setting
  PROVE  Policy(q, s) \in Nat
<1>1. s.buffer \in Nat /\ s.percent \in 0..100 /\ s.minimum \in Nat /\ s.cap \in Nat
  BY DEF Setting
<1>2. (q * s.percent) \div 100 \in Int
  BY <1>1
<1> DEFINE rest == q - s.buffer - (q * s.percent) \div 100
<1>3. rest \in Int
  BY <1>1, <1>2
<1> HIDE DEF rest
<1>4. AtLeast(0, rest) \in Nat
  BY <1>3 DEF AtLeast
<1>5. AtLeast(s.minimum, AtLeast(0, rest)) \in Nat
  BY <1>1, <1>4 DEF AtLeast
<1> QED
  BY <1>1, <1>5 DEF Policy, rest

LEMMA PushInitEstablishesPushInv == PushInit => PushInv
<1> SUFFICES ASSUME PushInit PROVE PushInv
  OBVIOUS
<1>1. stock \in Nat /\ setting \in Setting /\ listed \in Nat
  BY PushAssumption, PolicyIsQuantity DEF PushInit
<1>2. PushTypeOK
  BY <1>1, PushAssumption DEF PushInit, PushTypeOK, NotHere, Seller, Vacant, Slot
<1> QED
  BY <1>2 DEF PushInit, PushInv, OneAtATime, PushMade, ImportAlone, SellerKnows, Carried, Editing, Pushing, Importing,
              NotHere, Vacant

\* Per action: the types, and what holds while there is no excuse.
LEMMA OpenProductKeepsPushInv ==
  ASSUME NEW u \in Sellers, NEW q \in Amounts, PushInv, OpenProduct(u, q)
  PROVE  PushInv'
<1>1. PushTypeOK'
  BY PushAssumption DEF PushInv, PushTypeOK, OpenProduct, Seller, Change, Lag, Lags
<1>2. ASSUME lags' = {}
      PROVE  (OneAtATime /\ PushMade /\ ImportAlone /\ SellerKnows /\ Carried)'
  <2>1. lags = {} /\ (\A v \in Sellers : ~Editing(v)) /\ \A w \in Runs : ~Importing(w)
    BY <1>2 DEF OpenProduct, Lag
  <2>2. \A v \in Sellers \ {u} : seller'[v] = NotHere
    BY <2>1 DEF OpenProduct, PushInv, PushTypeOK, Editing
  <2>3. seller'[u] = [stage |-> "write", seen |-> stock, new |-> q]
    BY DEF OpenProduct, PushInv, PushTypeOK
  <2>4. OneAtATime' /\ PushMade'
    BY <2>1, <2>2 DEF OpenProduct, PushInv, OneAtATime, PushMade, Editing, Pushing
  <2>5. ImportAlone'
    BY <2>1 DEF OpenProduct, ImportAlone, Importing
  <2>6. SellerKnows'
    BY <2>2, <2>3 DEF OpenProduct, SellerKnows, NotHere
  <2>7. Carried'
    BY <2>1 DEF OpenProduct, PushInv, Carried, Pushing, Editing, NotHere
  <2> QED
    BY <2>4, <2>5, <2>6, <2>7
<1> QED
  BY <1>1, <1>2 DEF PushInv

LEMMA WriteProductKeepsPushInv ==
  ASSUME NEW u \in Sellers, PushInv, WriteProduct(u)
  PROVE  PushInv'
<1>1. PushTypeOK'
  BY DEF PushInv, PushTypeOK, WriteProduct, Seller, NotHere
<1>2. ASSUME lags' = {}
      PROVE  (OneAtATime /\ PushMade /\ ImportAlone /\ SellerKnows /\ Carried)'
  <2>1. lags = {} /\ Editing(u) /\ seller[u].seen = stock
    BY <1>2 DEF WriteProduct, Editing, NotHere, PushInv, SellerKnows
  <2>2. \A v \in Sellers \ {u} : seller[v] = NotHere
    BY <2>1 DEF PushInv, OneAtATime, Editing
  <2>3. \A v \in Sellers \ {u} : seller'[v] = NotHere
    BY <2>2 DEF WriteProduct, PushInv, PushTypeOK
  <2>4. \A w \in Runs : ~Importing(w)
    BY <2>1 DEF PushInv, ImportAlone
  <2>5. OneAtATime' /\ PushMade'
    BY <2>1, <2>3 DEF WriteProduct, PushInv, OneAtATime, PushMade, Editing, Pushing
  <2>6. ImportAlone'
    BY <2>4 DEF WriteProduct, ImportAlone, Importing
  <2>7. CASE seller[u].new = seller[u].seen
    <3>1. seller'[u] = NotHere /\ stock' = stock
      BY <2>1, <2>7 DEF WriteProduct, PushInv, PushTypeOK
    <3>2. SellerKnows'
      BY <2>3, <3>1 DEF SellerKnows, NotHere
    <3>3. \A v \in Sellers : seller[v].stage # "queue"
      BY <2>2 DEF WriteProduct, NotHere
    <3>4. Carried'
      BY <2>1, <3>1, <3>3 DEF WriteProduct, PushInv, Carried, Pushing
    <3> QED
      BY <2>5, <2>6, <3>2, <3>4
  <2>8. CASE seller[u].new # seller[u].seen
    <3>1. seller'[u].stage = "queue" /\ seller'[u].new = stock'
      BY <2>8 DEF WriteProduct, PushInv, PushTypeOK, Seller
    <3>2. SellerKnows' /\ Carried'
      BY <2>3, <3>1 DEF SellerKnows, Carried, NotHere
    <3> QED
      BY <2>5, <2>6, <3>2
  <2> QED
    BY <2>7, <2>8
<1> QED
  BY <1>1, <1>2 DEF PushInv

LEMMA QueuePushKeepsPushInv ==
  ASSUME NEW u \in Sellers, PushInv, QueuePush(u)
  PROVE  PushInv'
<1>0. seller[u].new \in Nat /\ jobs \in Seq(Nat)
  BY DEF PushInv, PushTypeOK, Seller
<1>1. PushTypeOK'
  BY <1>0 DEF PushInv, PushTypeOK, QueuePush, Seller, NotHere
<1>2. ASSUME lags' = {}
      PROVE  (OneAtATime /\ PushMade /\ ImportAlone /\ SellerKnows /\ Carried)'
  <2>1. lags = {} /\ Editing(u) /\ seller[u].new = stock
    BY <1>2 DEF QueuePush, Editing, NotHere, PushInv, SellerKnows
  <2>2. \A v \in Sellers : seller'[v] = NotHere
    BY <2>1 DEF QueuePush, PushInv, PushTypeOK, OneAtATime, Editing
  <2>3. \A w \in Runs : ~Importing(w)
    BY <2>1 DEF PushInv, ImportAlone
  <2>4. OneAtATime' /\ PushMade' /\ ImportAlone' /\ SellerKnows'
    BY <2>1, <2>2, <2>3
    DEF QueuePush, PushInv, OneAtATime, PushMade, ImportAlone, SellerKnows, Editing, Pushing, Importing, NotHere
  <2>5. jobs' # << >> /\ jobs'[Len(jobs')] = stock'
    BY <1>0, <2>1 DEF QueuePush
  <2> QED
    BY <2>4, <2>5 DEF Carried
<1> QED
  BY <1>1, <1>2 DEF PushInv

LEMMA RunsArePushes ==
  ASSUME NEW q \in Nat, setting \in Setting
  PROVE  /\ RunOf(q) \in Slot /\ RunOf(q).stage = "push"
         /\ RunOf(q).amount = q /\ RunOf(q).outbound = Policy(q, setting)
BY PolicyIsQuantity DEF RunOf, Slot

LEMMA RunAtOnceKeepsPushInv ==
  ASSUME NEW u \in Sellers, NEW w \in Emits, PushInv, RunAtOnce(u, w)
  PROVE  PushInv'
<1> DEFINE n == seller[u].new
<1>0. n \in Nat /\ setting \in Setting /\ w \in Runs
  BY PushAssumption DEF PushInv, PushTypeOK, Seller, Runs
<1>1. slot' = [slot EXCEPT ![w] = RunOf(n)] /\ RunOf(n) \in Slot
  BY <1>0, RunsArePushes DEF RunAtOnce
<1>2. PushTypeOK'
  BY <1>0, <1>1 DEF PushInv, PushTypeOK, RunAtOnce, Seller, NotHere, Lag, Lags
<1>3. ASSUME lags' = {}
      PROVE  (OneAtATime /\ PushMade /\ ImportAlone /\ SellerKnows /\ Carried)'
  <2>1. lags = {} /\ jobs = << >> /\ \A x \in Runs : ~Pushing(x)
    BY <1>3 DEF RunAtOnce, Lag
  <2>0. Editing(u) /\ n = stock
    BY <2>1 DEF RunAtOnce, Editing, NotHere, PushInv, SellerKnows
  <2>2. \A v \in Sellers : seller'[v] = NotHere
    BY <2>0, <2>1 DEF RunAtOnce, PushInv, PushTypeOK, OneAtATime, Editing
  <2>3. \A x \in Runs : ~Importing(x)
    BY <2>0, <2>1 DEF PushInv, ImportAlone
  <2>4. /\ slot'[w].stage = "push" /\ slot'[w].amount = stock /\ slot'[w].outbound = Policy(stock, setting)
        /\ \A x \in Runs \ {w} : slot'[x] = slot[x]
    BY <1>0, <1>1, <2>0, RunsArePushes DEF PushInv, PushTypeOK
  <2>5. \A x \in Runs : Pushing(x)' => x = w
    BY <2>1, <2>4 DEF Pushing
  <2>6. OneAtATime' /\ PushMade'
    BY <2>2, <2>4, <2>5 DEF RunAtOnce, OneAtATime, PushMade, Editing
  <2>7. ImportAlone'
    BY <2>3, <2>4 DEF ImportAlone, Importing
  <2>8. SellerKnows'
    BY <2>2 DEF SellerKnows, NotHere
  <2>9. Carried'
    BY <1>0, <2>1, <2>4, <2>5 DEF RunAtOnce, Carried, Pushing
  <2> QED
    BY <2>6, <2>7, <2>8, <2>9
<1> QED
  BY <1>2, <1>3 DEF PushInv

LEMMA QueueNothingKeepsPushInv ==
  ASSUME NEW u \in Sellers, PushInv, QueueNothing(u)
  PROVE  PushInv'
<1>1. PushTypeOK'
  BY DEF PushInv, PushTypeOK, QueueNothing, Seller, NotHere, Lag, Lags
<1>2. ASSUME lags' = {}
      PROVE  (OneAtATime /\ PushMade /\ ImportAlone /\ SellerKnows /\ Carried)'
  <2>1. lags = {} /\ seller[u].stage # "queue"
    BY <1>2 DEF QueueNothing, Lag
  <2>2. seller'[u] = NotHere /\ \A v \in Sellers \ {u} : seller'[v] = seller[v]
    BY DEF QueueNothing, PushInv, PushTypeOK
  <2>3. OneAtATime' /\ PushMade' /\ SellerKnows'
    BY <2>1, <2>2 DEF QueueNothing, PushInv, OneAtATime, PushMade, SellerKnows, Editing, Pushing, NotHere
  <2>4. ImportAlone'
    BY <2>1, <2>2 DEF QueueNothing, PushInv, ImportAlone, Importing, Editing
  <2>5. Carried'
    BY <2>1, <2>2 DEF QueueNothing, PushInv, Carried, Pushing, NotHere
  <2> QED
    BY <2>3, <2>4, <2>5
<1> QED
  BY <1>1, <1>2 DEF PushInv

LEMMA TailKeepsTheLast ==
  ASSUME NEW q \in Seq(Nat), Tail(q) # << >>, q # << >>
  PROVE  Tail(q)[Len(Tail(q))] = q[Len(q)]
<1>1. Len(Tail(q)) = Len(q) - 1 /\ Len(q) \in Nat /\ Tail(q) \in Seq(Nat)
  OBVIOUS
<1>2. Len(Tail(q)) # 0
  BY <1>1, EmptySeq
<1>3. \A i \in 1..Len(Tail(q)) : Tail(q)[i] = q[i + 1]
  OBVIOUS
<1>4. Len(Tail(q)) \in 1..Len(Tail(q)) /\ Len(Tail(q)) + 1 = Len(q)
  BY <1>1, <1>2
<1> QED
  BY <1>3, <1>4

LEMMA TailEmptied ==
  ASSUME NEW q \in Seq(Nat), q # << >>, Tail(q) = << >>
  PROVE  Head(q) = q[Len(q)]
<1>1. Len(q) \in Nat /\ Len(q) # 0 /\ Len(Tail(q)) = 0
  BY EmptySeq
<1>2. Len(Tail(q)) = Len(q) - 1
  BY <1>1, HeadTailProperties
<1>3. Len(q) = 1
  BY <1>1, <1>2
<1> QED
  BY <1>3

LEMMA TakePushKeepsPushInv ==
  ASSUME NEW w \in Slots, PushInv, TakePush(w)
  PROVE  PushInv'
<1>0. /\ jobs \in Seq(Nat) /\ jobs # << >> /\ Head(jobs) \in Nat /\ Tail(jobs) \in Seq(Nat)
      /\ setting \in Setting /\ w \in Runs
  BY PushAssumption DEF PushInv, PushTypeOK, TakePush, Runs
<1>1. PushTypeOK'
  <2>1. slot' \in [Runs -> Slot]
    BY <1>0, RunsArePushes DEF PushInv, PushTypeOK, TakePush
  <2> QED
    BY <1>0, <2>1 DEF PushInv, PushTypeOK, TakePush, Lag, Lags
<1>2. ASSUME lags' = {}
      PROVE  (OneAtATime /\ PushMade /\ ImportAlone /\ SellerKnows /\ Carried)'
  <2>1. lags = {} /\ \A x \in Runs : ~Pushing(x)
    BY <1>2 DEF TakePush, Lag
  <2>2. /\ slot'[w].stage = "push" /\ slot'[w].amount = Head(jobs)
        /\ slot'[w].outbound = Policy(Head(jobs), setting)
        /\ \A x \in Runs \ {w} : slot'[x] = slot[x]
    BY <1>0, RunsArePushes DEF TakePush, PushInv, PushTypeOK
  <2>3. \A x \in Runs : ~Importing(x)
    BY <1>0, <2>1 DEF PushInv, ImportAlone
  <2>4. OneAtATime' /\ PushMade' /\ SellerKnows' /\ ImportAlone'
    BY <2>1, <2>2, <2>3
    DEF TakePush, PushInv, OneAtATime, PushMade, SellerKnows, ImportAlone, Editing, Pushing, Importing
  <2>5. ASSUME \A u \in Sellers : seller[u].stage # "queue"
        PROVE  jobs[Len(jobs)] = stock
    BY <1>0, <2>1, <2>5 DEF PushInv, Carried
  <2>6. CASE Tail(jobs) = << >>
    <3>1. Head(jobs) = jobs[Len(jobs)]
      BY <1>0, <2>6, TailEmptied
    <3> QED
      BY <1>0, <2>1, <2>2, <2>4, <2>5, <2>6, <3>1 DEF TakePush, Carried, Pushing
  <2>7. CASE Tail(jobs) # << >>
    <3>1. Tail(jobs)[Len(Tail(jobs))] = jobs[Len(jobs)]
      BY <1>0, <2>7, TailKeepsTheLast
    <3> QED
      BY <2>4, <2>5, <2>7, <3>1 DEF TakePush, Carried
  <2> QED
    BY <2>6, <2>7
<1> QED
  BY <1>1, <1>2 DEF PushInv

LEMMA PushKeepsPushInv ==
  ASSUME NEW w \in Runs, PushInv, Push(w)
  PROVE  PushInv'
<1>1. PushTypeOK'
  BY DEF PushInv, PushTypeOK, Push, Slot, Vacant, Lag, Lags
<1>2. ASSUME lags' = {}
      PROVE  (OneAtATime /\ PushMade /\ ImportAlone /\ SellerKnows /\ Carried)'
  <2>1. lags = {} /\ Pushing(w) /\ listed' = slot[w].outbound
    BY <1>2 DEF Push, Pushing, Lag
  <2>2. slot'[w] = Vacant /\ \A x \in Runs \ {w} : slot'[x] = slot[x] /\ ~Pushing(x)
    BY <2>1 DEF Push, PushInv, PushTypeOK, OneAtATime
  <2>3. \A x \in Runs : ~Importing(x)
    BY <2>1 DEF PushInv, ImportAlone, Pushing, Importing, Vacant
  <2>4. OneAtATime' /\ PushMade' /\ SellerKnows' /\ ImportAlone'
    BY <2>1, <2>2, <2>3
    DEF Push, PushInv, OneAtATime, PushMade, SellerKnows, ImportAlone, Editing, Pushing, Importing, Vacant
  <2>5. listed' = Policy(slot[w].amount, setting)
    BY <2>1 DEF PushInv, PushMade
  <2>6. Carried'
    BY <2>1, <2>2, <2>5 DEF Push, PushInv, Carried, Pushing, Vacant
  <2> QED
    BY <2>4, <2>6
<1> QED
  BY <1>1, <1>2 DEF PushInv

LEMMA RedisErrorKeepsPushInv ==
  ASSUME PushInv, RedisError
  PROVE  PushInv'
BY DEF PushInv, RedisError, PushTypeOK, OneAtATime, PushMade, ImportAlone, SellerKnows, Carried, Editing, Pushing,
       Importing

\* These excuse whatever comes after them.
LEMMA ExcusedStepKeepsPushInv ==
  ASSUME PushInv,
         \/ \E q \in Amounts : SetSilently(q)
         \/ \E s \in StockSettings : SaveSettings(s)
         \/ \E w \in Runs : PushFails(w)
  PROVE  PushInv'
<1>1. ASSUME NEW q \in Amounts, SetSilently(q)
      PROVE  PushInv'
  BY <1>1, PushAssumption DEF PushInv, PushTypeOK, SetSilently, Change, Lags
<1>2. ASSUME NEW w \in Runs, PushFails(w)
      PROVE  PushInv'
  <2>1. jobs \in Seq(Nat) /\ slot[w].amount \in Nat
    BY DEF PushInv, PushTypeOK, Slot
  <2>2. jobs' \in Seq(Nat)
    BY <1>2, <2>1 DEF PushFails
  <2>3. slot' \in [Runs -> Slot] /\ lags' \subseteq Lags
    BY <1>2 DEF PushInv, PushTypeOK, PushFails, Lags, Slot, Vacant
  <2>4. PushTypeOK'
    BY <1>2, <2>2, <2>3 DEF PushInv, PushTypeOK, PushFails
  <2> QED
    BY <1>2, <2>4 DEF PushInv, PushFails
<1>3. ASSUME NEW s \in StockSettings, SaveSettings(s)
      PROVE  PushInv'
  BY <1>3, PushAssumption DEF PushInv, PushTypeOK, SaveSettings, Change, Lags
<1> QED
  BY <1>1, <1>2, <1>3

LEMMA StartImportKeepsPushInv ==
  ASSUME NEW w \in Runs, PushInv, StartImport(w)
  PROVE  PushInv'
<1>1. PushTypeOK'
  BY PushAssumption DEF PushInv, PushTypeOK, StartImport, Slot, Vacant, Change, Lag, Lags
<1>2. ASSUME lags' = {}
      PROVE  (OneAtATime /\ PushMade /\ ImportAlone /\ SellerKnows /\ Carried)'
  <2>1. lags = {} /\ Settled
    BY <1>2 DEF StartImport, Lag
  <2>2. slot'[w].stage = "read" /\ \A x \in Runs \ {w} : slot'[x] = Vacant
    BY <2>1 DEF StartImport, PushInv, PushTypeOK, Settled
  <2>3. listed = Policy(stock, setting)
    BY <2>1 DEF Settled, PushInv, Carried, Editing, NotHere, Pushing, Vacant
  <2>4. \A x \in Runs : ~Pushing(x)'
    BY <2>2 DEF Pushing, Vacant
  <2> QED
    BY <2>1, <2>2, <2>3, <2>4
    DEF StartImport, Settled, OneAtATime, PushMade, ImportAlone, SellerKnows, Carried, Editing, Importing, NotHere, Vacant
<1> QED
  BY <1>1, <1>2 DEF PushInv

LEMMA ImportStepKeepsPushInv ==
  ASSUME NEW w \in Runs, PushInv, ReadListing(w) \/ Import(w) \/ ImportFails(w)
  PROVE  PushInv'
<1>0. /\ listed \in Nat /\ slot[w].amount \in Nat /\ setting' = setting /\ listed' = listed
      /\ UNCHANGED <<redisUp, jobs, seller, changes>>
  BY DEF PushInv, PushTypeOK, Slot, ReadListing, Import, ImportFails
<1>1. PushTypeOK'
  <2>1. stock' \in Nat /\ lags' \subseteq Lags
    BY <1>0 DEF PushInv, PushTypeOK, ReadListing, Import, ImportFails, Lag, Lags
  <2>2. slot' \in [Runs -> Slot]
    <3>1. [stage |-> "import", amount |-> listed, outbound |-> 0] \in Slot /\ Vacant \in Slot
      BY <1>0 DEF Slot, Vacant
    <3> QED
      BY <3>1 DEF PushInv, PushTypeOK, ReadListing, Import, ImportFails
  <2> QED
    BY <1>0, <2>1, <2>2 DEF PushInv, PushTypeOK
<1>2. ASSUME lags' = {}
      PROVE  (OneAtATime /\ PushMade /\ ImportAlone /\ SellerKnows /\ Carried)'
  <2>1. lags = {} /\ Importing(w)
    BY <1>2 DEF ReadListing, Import, ImportFails, Importing
  <2>2. /\ jobs = << >> /\ (\A u \in Sellers : ~Editing(u)) /\ (\A x \in Runs \ {w} : slot[x] = Vacant)
        /\ listed = Policy(stock, setting) /\ (slot[w].stage = "import" => slot[w].amount = listed)
    BY <2>1 DEF PushInv, ImportAlone
  <2>3. \A x \in Runs \ {w} : slot'[x] = Vacant
    BY <2>2 DEF ReadListing, Import, ImportFails, PushInv, PushTypeOK
  <2>4. slot'[w] \in {Vacant, [stage |-> "import", amount |-> listed, outbound |-> 0]}
    BY DEF ReadListing, Import, ImportFails, PushInv, PushTypeOK
  <2>5. listed' = Policy(stock', setting')
    <3>1. CASE Import(w)
      BY <1>0, <1>2, <2>2, <3>1 DEF Import, Lag
    <3>2. CASE stock' = stock
      BY <1>0, <2>2, <3>2
    <3> QED
      BY <3>1, <3>2 DEF ReadListing, ImportFails
  <2>6. \A x \in Runs : ~Pushing(x)'
    BY <2>3, <2>4 DEF Pushing, Vacant
  <2>7. OneAtATime' /\ PushMade' /\ SellerKnows'
    BY <1>0, <2>2, <2>6 DEF OneAtATime, PushMade, SellerKnows, Editing, NotHere
  <2>8. Carried'
    BY <1>0, <2>2, <2>5, <2>6 DEF Carried
  <2>9. ImportAlone'
    BY <1>0, <2>2, <2>3, <2>4, <2>5 DEF ImportAlone, Importing, Editing, Vacant
  <2> QED
    BY <2>7, <2>8, <2>9
<1> QED
  BY <1>1, <1>2 DEF PushInv

LEMMA PushNextKeepsPushInv == PushInv /\ [PushNext]_pushVars => PushInv'
<1> SUFFICES ASSUME PushInv, [PushNext]_pushVars
             PROVE  PushInv'
  OBVIOUS
<1>1. ASSUME NEW u \in Sellers,
             \/ (\E q \in Amounts : OpenProduct(u, q)) \/ WriteProduct(u)
             \/ QueuePush(u) \/ (\E w \in Emits : RunAtOnce(u, w)) \/ QueueNothing(u)
      PROVE  PushInv'
  BY <1>1, OpenProductKeepsPushInv, WriteProductKeepsPushInv, QueuePushKeepsPushInv, RunAtOnceKeepsPushInv,
     QueueNothingKeepsPushInv
<1>2. ASSUME NEW w \in Runs, Push(w) \/ StartImport(w)
      PROVE  PushInv'
  BY <1>2, PushKeepsPushInv, StartImportKeepsPushInv
<1>3. ASSUME NEW w \in Runs, ReadListing(w) \/ Import(w) \/ ImportFails(w)
      PROVE  PushInv'
  BY <1>3, ImportStepKeepsPushInv
<1>4. CASE UNCHANGED pushVars
  BY <1>4 DEF pushVars, PushInv, PushTypeOK, OneAtATime, PushMade, ImportAlone, SellerKnows, Carried, Editing, Pushing,
              Importing
<1> QED
  BY <1>1, <1>2, <1>3, <1>4, TakePushKeepsPushInv, RedisErrorKeepsPushInv, ExcusedStepKeepsPushInv DEF PushNext

THEOREM PushInvariant == PushSpec => []PushInv
BY PushInitEstablishesPushInv, PushNextKeepsPushInv, PTL DEF PushSpec

\* Quantities stay natural numbers, listed ones included, whatever the settings.
THEOREM PushTypeCorrect == PushSpec => []PushTypeOK
BY PushInvariant, PTL DEF PushInv

\* Once edits, jobs and imports have come to rest, the marketplace shows what
\* the settings make of the stock.
THEOREM MarketFollows == PushSpec => []MarketInStep
<1>1. PushInv => MarketInStep
  BY DEF PushInv, MarketInStep, Settled, Carried, Editing, NotHere, Pushing, Vacant
<1> QED
  BY <1>1, PushInvariant, PTL

-----------------------------------------------------------------------------
(* Part 3.  The orders.                                                       *)

\* A request at work is about an order.
KeyKnown == \A u \in Attendants : attendant[u].stage # "idle" => attendant[u].key \in OrderKeys

\* A request that repeats another one never gets past looking the key up: the
\* order was there when it came in, and orders do not go away.
RepeatFinds ==
  \A u \in Attendants :
    /\ attendant[u].repeats /\ attendant[u].stage = "look" => order[attendant[u].key].exists
    /\ attendant[u].stage \in {"insert", "refused"} => ~attendant[u].repeats

DeskInv == DeskTypeOK /\ KeyKnown /\ RepeatFinds /\ TimelineTells

-----------------------------------------------------------------------------
LEMMA RestIsTyped == Nobody \in Attendant /\ NoPatch \in Patch /\ NotCreated \in Order
BY DEF Nobody, Attendant, NoPatch, Patch, NotCreated, Order, DeskStatuses, Payments, Fulfilments

LEMMA DeskInitEstablishesDeskInv == DeskInit => DeskInv
BY RestIsTyped, DeskAssumption
DEF DeskInit, DeskInv, DeskTypeOK, KeyKnown, RepeatFinds, TimelineTells, Nobody, NotCreated, DeskStatuses, Payments

\* Steps that leave the orders and the timeline alone.
LEMMA RequestStepKeepsDeskInv ==
  ASSUME NEW u \in Attendants, NEW request \in Attendant, DeskInv,
         attendant' = [attendant EXCEPT ![u] = request],
         UNCHANGED <<order, told, torn, excuses>>, deskCalls' \in 0..MaxDeskCalls,
         request.stage # "idle" => request.key \in OrderKeys,
         request.repeats /\ request.stage = "look" => order[request.key].exists,
         request.stage \in {"insert", "refused"} => ~request.repeats
  PROVE  DeskInv'
BY DEF DeskInv, DeskTypeOK, KeyKnown, RepeatFinds, TimelineTells

LEMMA AskForOrderKeepsDeskInv ==
  ASSUME NEW u \in Attendants, NEW k \in OrderKeys, DeskInv, AskForOrder(u, k)
  PROVE  DeskInv'
<1> DEFINE request == [Nobody EXCEPT !.stage = "look", !.key = k, !.repeats = order[k].exists]
<1>1. order[k].exists \in BOOLEAN
  BY DEF DeskInv, DeskTypeOK, Order
<1>2. request \in Attendant
  BY <1>1, RestIsTyped DEF Attendant
<1>3. request.stage = "look" /\ request.key = k /\ request.repeats = order[k].exists
  BY RestIsTyped DEF Attendant
<1>4. deskCalls' \in 0..MaxDeskCalls
  BY DeskAssumption DEF DeskInv, DeskTypeOK, AskForOrder, Attend
<1>5. attendant' = [attendant EXCEPT ![u] = request] /\ UNCHANGED <<order, told, torn, excuses>>
  BY DEF AskForOrder, Attend
<1> HIDE DEF request
<1> QED
  BY <1>2, <1>3, <1>4, <1>5, RequestStepKeepsDeskInv

LEMMA OpenKeepsDeskInv ==
  ASSUME NEW u \in Attendants, NEW op \in {"status", "cancel", "refund"}, NEW k \in OrderKeys,
         NEW patch \in Patch, DeskInv, Open(u, op, k, patch)
  PROVE  DeskInv'
<1> DEFINE request == [Nobody EXCEPT !.stage = "write", !.op = op, !.key = k,
                                     !.seen = order[k], !.patch = patch]
<1>1. order[k] \in Order
  BY DEF DeskInv, DeskTypeOK
<1>2. request \in Attendant
  BY <1>1, RestIsTyped DEF Attendant
<1>3. request.stage = "write" /\ request.key = k /\ request.repeats = FALSE
  BY RestIsTyped DEF Attendant, Nobody
<1>4. deskCalls' \in 0..MaxDeskCalls
  BY DeskAssumption DEF DeskInv, DeskTypeOK, Open, Attend
<1>5. attendant' = [attendant EXCEPT ![u] = request] /\ UNCHANGED <<order, told, torn, excuses>>
  BY DEF Open, Attend
<1> HIDE DEF request
<1> QED
  BY <1>2, <1>3, <1>4, <1>5, RequestStepKeepsDeskInv

LEMMA StepsAwayKeepsDeskInv ==
  ASSUME NEW u \in Attendants, DeskInv, StepsAway(u), UNCHANGED <<order, told, torn, deskCalls, excuses>>
  PROVE  DeskInv'
<1>1. Nobody.stage = "idle" /\ Nobody.repeats = FALSE
  BY DEF Nobody
<1>2. deskCalls' \in 0..MaxDeskCalls
  BY DEF DeskInv, DeskTypeOK
<1> QED
  BY <1>1, <1>2, RestIsTyped, RequestStepKeepsDeskInv DEF StepsAway

LEMMA StageKeepsDeskInv ==
  ASSUME NEW u \in Attendants, NEW stage \in {"insert", "refused"}, DeskInv,
         attendant[u].stage \in {"look", "insert"},
         attendant' = [attendant EXCEPT ![u].stage = stage],
         UNCHANGED <<order, told, torn, deskCalls, excuses>>,
         ~attendant[u].repeats
  PROVE  DeskInv'
<1> DEFINE request == [attendant[u] EXCEPT !.stage = stage]
<1>1. attendant[u] \in Attendant /\ attendant[u].key \in OrderKeys
  BY DEF DeskInv, DeskTypeOK, KeyKnown
<1>2. /\ request \in Attendant
      /\ request.key = attendant[u].key /\ request.stage = stage /\ request.repeats = attendant[u].repeats
  BY <1>1 DEF Attendant
<1>3. attendant' = [attendant EXCEPT ![u] = request] /\ deskCalls' \in 0..MaxDeskCalls
  BY DEF DeskInv, DeskTypeOK
<1> HIDE DEF request
<1> QED
  BY <1>1, <1>2, <1>3, RequestStepKeepsDeskInv

LEMMA LookKeepsDeskInv ==
  ASSUME NEW u \in Attendants, DeskInv, Look(u)
  PROVE  DeskInv'
<1>1. CASE order[attendant[u].key].exists
  BY <1>1, StepsAwayKeepsDeskInv DEF Look
<1>2. CASE ~order[attendant[u].key].exists
  <2>1. ~attendant[u].repeats
    BY <1>2 DEF Look, DeskInv, RepeatFinds
  <2> QED
    BY <1>2, <2>1, StageKeepsDeskInv DEF Look
<1> QED
  BY <1>1, <1>2

LEMMA InsertKeepsDeskInv ==
  ASSUME NEW u \in Attendants, DeskInv, Insert(u)
  PROVE  DeskInv'
<1> DEFINE k == attendant[u].key
<1>1. k \in OrderKeys /\ ~attendant[u].repeats /\ attendant[u].stage = "insert"
  BY DEF Insert, DeskInv, KeyKnown, RepeatFinds
<1>2. CASE order[k].exists
  BY <1>1, <1>2, StageKeepsDeskInv DEF Insert
<1>3. CASE ~order[k].exists
  <2>1. /\ order' = [order EXCEPT ![k].exists = TRUE] /\ attendant' = [attendant EXCEPT ![u] = Nobody]
        /\ UNCHANGED <<told, torn, deskCalls, excuses>>
    BY <1>3 DEF Insert, StepsAway
  <2>2. \A j \in OrderKeys : /\ order'[j].status = order[j].status /\ order'[j].payment = order[j].payment
                             /\ order[j].exists => order'[j].exists
    BY <1>1, <2>1 DEF DeskInv, DeskTypeOK, Order
  <2>3. DeskTypeOK'
    BY <1>1, <2>1, RestIsTyped DEF DeskInv, DeskTypeOK, Order
  <2>4. KeyKnown' /\ RepeatFinds'
    BY <2>1, <2>2 DEF DeskInv, DeskTypeOK, KeyKnown, RepeatFinds, Nobody
  <2>5. TimelineTells'
    BY <2>1, <2>2 DEF DeskInv, TimelineTells
  <2> QED
    BY <2>3, <2>4, <2>5 DEF DeskInv
<1> QED
  BY <1>2, <1>3

LEMMA ChangesArePatch ==
  ASSUME NEW u \in Attendants, attendant[u] \in Attendant
  PROVE  Changes(u) \in Patch
<1>1. attendant[u].seen \in Order /\ attendant[u].patch \in Patch
  BY DEF Attendant
<1>2. CASE attendant[u].op = "cancel"
  BY <1>2 DEF Changes, Patch, DeskStatuses, Fulfilments
<1>3. CASE attendant[u].op = "refund"
  BY <1>3 DEF Changes, Patch, Payments
<1>4. CASE attendant[u].op \notin {"cancel", "refund"}
  BY <1>1, <1>4 DEF Changes, Patch, Differs, Order
<1> QED
  BY <1>2, <1>3, <1>4

\* A write based on the order as it is tells the timeline what becomes of it.
LEMMA WriteOrderKeepsDeskInv ==
  ASSUME NEW u \in Attendants, DeskInv, WriteOrder(u)
  PROVE  DeskInv'
<1> DEFINE k == attendant[u].key  seen == attendant[u].seen  change == Changes(u)
           written == [exists |-> TRUE, status |-> Over(change.status, order[k].status),
                       payment |-> Over(change.payment, order[k].payment),
                       fulfilment |-> Over(change.fulfilment, order[k].fulfilment)]
           entry == [status |-> Over(change.status, told[k].status),
                     payment |-> Over(change.payment, told[k].payment)]
<1>1. k \in OrderKeys /\ attendant[u] \in Attendant /\ order[k] \in Order
  BY DEF WriteOrder, DeskInv, KeyKnown, DeskTypeOK
<1>2. change \in Patch
  BY <1>1, ChangesArePatch
<1>3. /\ order' = [order EXCEPT ![k] = written]
      /\ told' = [told EXCEPT ![k] = entry]
      /\ attendant' = [attendant EXCEPT ![u] = Nobody]
      /\ deskCalls' = deskCalls
  BY DEF WriteOrder, Tell, StepsAway
<1>4. torn' = [torn EXCEPT ![k] = \/ torn[k]
                                  \/ change.status # SAME /\ seen.status # told[k].status
                                  \/ change.payment # SAME /\ seen.payment # told[k].payment]
  BY DEF WriteOrder, Tell
<1>5. excuses' = [excuses EXCEPT ![k] = IF seen = order[k] THEN @ ELSE @ \cup {"overlap"}]
  BY DEF WriteOrder
<1>6. written \in Order /\ entry \in [status : DeskStatuses, payment : Payments]
  BY <1>1, <1>2 DEF DeskInv, DeskTypeOK, Order, Patch, Over
<1> HIDE DEF change
<1>7. DeskTypeOK'
  <2>1. order' \in [OrderKeys -> Order] /\ told' \in [OrderKeys -> [status : DeskStatuses, payment : Payments]]
    BY <1>3, <1>6 DEF DeskInv, DeskTypeOK
  <2>2. torn' \in [OrderKeys -> BOOLEAN]
    BY <1>4 DEF DeskInv, DeskTypeOK
  <2>3. excuses' \in [OrderKeys -> SUBSET {"overlap", "exported"}]
    BY <1>5 DEF DeskInv, DeskTypeOK
  <2>4. attendant' \in [Attendants -> Attendant] /\ deskCalls' \in 0..MaxDeskCalls
    BY <1>3, RestIsTyped DEF DeskInv, DeskTypeOK
  <2> QED
    BY <2>1, <2>2, <2>3, <2>4 DEF DeskTypeOK
<1>8. KeyKnown'
  BY <1>3 DEF DeskInv, DeskTypeOK, KeyKnown, Nobody
<1>9. RepeatFinds'
  <2>1. \A j \in OrderKeys : order[j].exists => order'[j].exists
    BY <1>1, <1>3 DEF DeskInv, DeskTypeOK
  <2> QED
    BY <1>3, <2>1 DEF DeskInv, DeskTypeOK, KeyKnown, RepeatFinds, Nobody
<1>10. TimelineTells'
  <2> SUFFICES ASSUME NEW j \in OrderKeys, excuses'[j] = {}
               PROVE  /\ told'[j] = [status |-> order'[j].status, payment |-> order'[j].payment]
                      /\ ~torn'[j]
    BY DEF TimelineTells
  <2>1. CASE j # k
    BY <1>1, <1>3, <1>4, <1>5, <2>1 DEF DeskInv, DeskTypeOK, TimelineTells
  <2>2. CASE j = k
    <3>1. excuses[k] = {} /\ seen = order[k]
      BY <1>1, <1>5, <2>2 DEF DeskInv, DeskTypeOK
    <3>2. told[k] = [status |-> order[k].status, payment |-> order[k].payment] /\ ~torn[k]
      BY <1>1, <3>1 DEF DeskInv, TimelineTells
    <3>3. told'[k] = entry /\ order'[k] = written
      BY <1>1, <1>3 DEF DeskInv, DeskTypeOK
    <3>4. entry = [status |-> written.status, payment |-> written.payment]
      BY <3>2
    <3>5. torn'[k] = FALSE
      BY <1>1, <1>4, <3>1, <3>2 DEF DeskInv, DeskTypeOK
    <3> QED
      BY <2>2, <3>3, <3>4, <3>5
  <2> QED
    BY <2>1, <2>2
<1> QED
  BY <1>7, <1>8, <1>9, <1>10 DEF DeskInv

LEMMA MarkProcessingKeepsDeskInv ==
  ASSUME NEW k \in OrderKeys, DeskInv, MarkProcessing(k)
  PROVE  DeskInv'
<1>1. DeskTypeOK'
  BY DEF DeskInv, DeskTypeOK, MarkProcessing, Order, DeskStatuses
<1>2. KeyKnown'
  BY DEF DeskInv, KeyKnown, MarkProcessing
<1>3. RepeatFinds'
  BY DEF DeskInv, DeskTypeOK, KeyKnown, RepeatFinds, MarkProcessing, Order
<1>4. TimelineTells'
  BY DEF DeskInv, DeskTypeOK, TimelineTells, MarkProcessing, Order
<1> QED
  BY <1>1, <1>2, <1>3, <1>4 DEF DeskInv

LEMMA NextKeepsDeskInv == DeskInv /\ [DeskNext]_deskVars => DeskInv'
<1> SUFFICES ASSUME DeskInv, [DeskNext]_deskVars
             PROVE  DeskInv'
  OBVIOUS
<1>1. ASSUME NEW u \in Attendants, NEW k \in OrderKeys, AskForOrder(u, k)
      PROVE  DeskInv'
  BY <1>1, AskForOrderKeepsDeskInv
<1>2. ASSUME NEW u \in Attendants, NEW k \in OrderKeys, NEW op \in {"cancel", "refund"}, Open(u, op, k, NoPatch)
      PROVE  DeskInv'
  BY <1>2, OpenKeepsDeskInv, RestIsTyped
<1>3. ASSUME NEW u \in Attendants, NEW k \in OrderKeys, NEW patch \in Patches, Open(u, "status", k, patch)
      PROVE  DeskInv'
  BY <1>3, OpenKeepsDeskInv, DeskAssumption
<1>4. ASSUME NEW u \in Attendants, Look(u) \/ Insert(u) \/ WriteOrder(u) \/ NotDone(u)
      PROVE  DeskInv'
  BY <1>4, LookKeepsDeskInv, InsertKeepsDeskInv, WriteOrderKeepsDeskInv, StepsAwayKeepsDeskInv DEF NotDone
<1>5. CASE UNCHANGED deskVars
  BY <1>5 DEF deskVars, DeskInv, DeskTypeOK, KeyKnown, RepeatFinds, TimelineTells
<1> QED
  BY <1>1, <1>2, <1>3, <1>4, <1>5, MarkProcessingKeepsDeskInv DEF DeskNext

THEOREM DeskInvariant == DeskSpec => []DeskInv
BY DeskInitEstablishesDeskInv, NextKeepsDeskInv, PTL DEF DeskSpec

-----------------------------------------------------------------------------
\* Orders, timelines and requests keep their types.
THEOREM DeskTypeCorrect == DeskSpec => []DeskTypeOK
BY DeskInvariant, PTL DEF DeskInv

\* The timeline tells the status and the payment of the order, and how it came
\* to them, unless changes overlapped or the worker exported the order.
THEOREM TimelineAlwaysTells == DeskSpec => []TimelineTells
BY DeskInvariant, PTL DEF DeskInv

\* No repeated request is refused by the database.
THEOREM RepeatsAnswered == DeskSpec => []RepeatIsAnswered
<1>1. DeskInv => RepeatIsAnswered
  BY DEF DeskInv, RepeatFinds, RepeatIsAnswered
<1> QED
  BY <1>1, DeskInvariant, PTL

=============================================================================
