------------------------- MODULE OrderExportProofs --------------------------
(***************************************************************************)
(* Proofs of the safety properties of OrderExport, for every set of orders, *)
(* runs and requests, every number of attempts and every set of faults.     *)
(***************************************************************************)
EXTENDS OrderExport, TLAPS

-----------------------------------------------------------------------------
(* The inductive invariant *)

\* A run that handles an order has one.
OrderAtHand ==
  \A w \in Runs : run[w].pc \in {"insert", "touch", "post", "mark", "record"} => run[w].order \in Orders

\* Of an order that does not exist nobody knows anything.
NotYet == \A o \in Orders : ~Exists(o) => order[o] = NoRow /\ slips[o] = 0 /\ inFlight[o] = 0

\* What a run has listed exists and is not in the pool.
Listed == \A w \in Runs, o \in Orders : Has(w, o) => Exists(o) /\ ~order[o].pool

\* A run that records an export has had the ERP's answer.
Posted ==
  \A w \in Runs :
    /\ run[w].pc \in {"mark", "record"} => slips[run[w].order] > 0
    /\ run[w].pc = "record" => order[run[w].order].logo = "SYNCED"

Untroubled(o) == trouble[o] \cap {"doubtful", "overlap"} = {}

AtPost(w, o) == run[w].pc = "post" /\ run[w].order = o

\* While nothing has gone wrong with an order at most one run is posting it, and
\* once it is posted it is recorded, or that run is about to.
PostedOnceOf(o) ==
  Untroubled(o) =>
    /\ inFlight[o] = 0 /\ slips[o] <= 1
    /\ \A v, w \in Runs : Posting(v, o) /\ Posting(w, o) => v = w
    /\ \A w \in Runs : AtPost(w, o) => slips[o] = 0
    /\ slips[o] > 0 => order[o].synced \/ \E w \in Runs : Posting(w, o)

PostedOnce == \A o \in Orders : PostedOnceOf(o)

\* Nobody has a barred order, and nothing of it is on its way.
BarredAlone ==
  \A o \in barred : order[o].status = "cancelled" /\ inFlight[o] = 0 /\ \A w \in Runs : ~Has(w, o)

IInv ==
  /\ TypeOK
  /\ OrderAtHand /\ NotYet /\ Listed /\ Posted /\ PostedOnce /\ BarredAlone
  /\ PoolStaysOut /\ RecordsAreTrue

-----------------------------------------------------------------------------
(* What a step makes of the run that takes it *)

Turns(w, pcs, todo, o) ==
  /\ run' \in [Runs -> RunRec]
  /\ \A v \in Runs : v # w => run'[v] = run[v]
  /\ run'[w].pc \in pcs /\ run'[w].todo = todo /\ run'[w].order = o

\* A loop that goes on has an order less at hand.
LEMMA ContinueTurns ==
  ASSUME TypeOK, NEW w \in Runs, NEW pc \in RunPc, NEW rest \in SUBSET Orders, Continue(w, pc, rest)
  PROVE  Turns(w, {"idle", pc}, rest, NONE)
<1> DEFINE next == IF rest = {} THEN IdleRun ELSE [pc |-> pc, todo |-> rest, order |-> NONE, attempts |-> 0]
<1>1. next \in RunRec /\ next.pc \in {"idle", pc} /\ next.todo = rest /\ next.order = NONE
  BY LimitsAssumption DEF IdleRun, RunRec, RunPc
<1>2. run' = [run EXCEPT ![w] = next]
  BY DEF Continue
<1> HIDE DEF next
<1> QED BY <1>1, <1>2 DEF Turns, TypeOK

\* A run that takes the next order.
LEMMA TakeTurns ==
  ASSUME TypeOK, NEW w \in Runs, NEW pc \in RunPc, NEW o \in Orders, Take(w, pc, o)
  PROVE  Turns(w, {pc}, run[w].todo \ {o}, o)
<1> DEFINE next == [pc |-> pc, todo |-> run[w].todo \ {o}, order |-> o, attempts |-> 0]
<1>1. next \in RunRec /\ next.pc = pc /\ next.todo = run[w].todo \ {o} /\ next.order = o
  BY LimitsAssumption DEF RunRec, TypeOK
<1>2. run' = [run EXCEPT ![w] = next]
  BY DEF Take, TypeOK
<1> HIDE DEF next
<1> QED BY <1>1, <1>2 DEF Turns, TypeOK

\* A run that goes on with the order at hand.
LEMMA PcTurns ==
  ASSUME TypeOK, NEW w \in Runs, NEW pc \in RunPc, run' = [run EXCEPT ![w].pc = pc]
  PROVE  Turns(w, {pc}, run[w].todo, run[w].order)
BY DEF Turns, TypeOK, RunRec

\* A run that sends its request again.
LEMMA RetryTurns ==
  ASSUME TypeOK, NEW w \in Runs, run[w].attempts + 1 < Retries, run' = [run EXCEPT ![w].attempts = @ + 1]
  PROVE  Turns(w, {run[w].pc}, run[w].todo, run[w].order)
<1>1. run[w].attempts + 1 \in 0..(Retries - 1)
  BY LimitsAssumption DEF TypeOK, RunRec
<1> QED BY <1>1 DEF Turns, TypeOK, RunRec

\* A run that ends.
LEMMA IdleTurns ==
  ASSUME TypeOK, NEW w \in Runs, run' = [run EXCEPT ![w] = IdleRun]
  PROVE  Turns(w, {"idle"}, {}, NONE)
BY LimitsAssumption DEF Turns, TypeOK, IdleRun, RunRec, RunPc

-----------------------------------------------------------------------------
(* The steps that start a run, and those of an import *)

\* A run that is not exporting, before and after, has no order for the ERP.
LEMMA ImportersHaveNothing ==
  ASSUME NEW w \in Runs, NEW pcs, NEW todo, NEW at, Turns(w, pcs, todo, at),
         pcs \subseteq {"idle", "look", "insert"}, run[w].pc \in {"idle", "look", "insert"},
         NEW v \in Runs, NEW o \in Orders
  PROVE  /\ Has(v, o)' <=> Has(v, o)
         /\ Posting(v, o)' <=> Posting(v, o)
         /\ Posting(v, o) => v # w
BY DEF Turns, Has, Posting

\* The steps of an import, but for its insert, read only.
LEMMA ImportKeepsIInv ==
  ASSUME IInv, NEW w \in Runs, NEW pcs, NEW todo, NEW at, Turns(w, pcs, todo, at),
         pcs \subseteq {"idle", "look", "insert"}, run[w].pc \in {"idle", "look", "insert"},
         "insert" \in pcs => at \in Orders,
         UNCHANGED <<order, slips, inFlight, request, barred, trouble>>
  PROVE  IInv'
<1>1. \A v \in Runs, o \in Orders : (Has(v, o)' <=> Has(v, o)) /\ (Posting(v, o)' <=> Posting(v, o))
  BY ImportersHaveNothing
<1>2. \A o \in Orders : (Exists(o)' <=> Exists(o)) /\ (Untroubled(o)' <=> Untroubled(o))
  BY DEF Exists, Untroubled
<1>3. TypeOK' /\ OrderAtHand'
  BY DEF IInv, TypeOK, OrderAtHand, Turns
<1>4. NotYet' /\ PoolStaysOut' /\ RecordsAreTrue'
  BY DEF IInv, NotYet, Exists, PoolStaysOut, RecordsAreTrue
<1>5. Listed' /\ BarredAlone'
  BY <1>1, <1>2 DEF IInv, TypeOK, Listed, BarredAlone
<1>6. Posted'
  BY DEF IInv, Posted, Turns
<1>7. PostedOnce'
  <2>1. \A v \in Runs, o \in Orders : AtPost(v, o)' => AtPost(v, o)
    BY DEF Turns, AtPost
  <2> QED BY <1>1, <1>2, <2>1 DEF IInv, PostedOnce, PostedOnceOf
<1> QED BY <1>3, <1>4, <1>5, <1>6, <1>7 DEF IInv

\* The rows an insert may write.
LEMMA NewRows ==
  ASSUME NEW row \in New
  PROVE  row \in Row /\ row.status = "pending" /\ row.logo # "SYNCED" /\ row.synced = FALSE
BY DEF New, NoRow, Row, Status, LogoStatus

\* An order comes into being while the runs stay as they are, or an import takes
\* its next one.
LEMMA InsertKeepsIInv ==
  ASSUME IInv, NEW p \in Orders, ~Exists(p), NEW row \in New, order' = [order EXCEPT ![p] = row],
         run' \in [Runs -> RunRec], OrderAtHand',
         \A v \in Runs, o \in Orders :
           /\ Has(v, o)' <=> Has(v, o)
           /\ Posting(v, o)' <=> Posting(v, o)
           /\ AtPost(v, o)' <=> AtPost(v, o),
         \A v \in Runs : run'[v].pc \in {"mark", "record"} => run'[v] = run[v],
         UNCHANGED <<slips, inFlight, request, barred, trouble>>
  PROVE  IInv'
<1>1. /\ order' \in [Orders -> Row] /\ order'[p] = row /\ \A o \in Orders : o # p => order'[o] = order[o]
      /\ order[p] = NoRow /\ slips[p] = 0 /\ inFlight[p] = 0 /\ \A v \in Runs : ~Has(v, p)
  BY NewRows DEF IInv, TypeOK, NotYet, Listed
<1>2. /\ Exists(p)' /\ order'[p].logo # "SYNCED" /\ ~order'[p].synced
      /\ \A o \in Orders : o # p => (Exists(o)' <=> Exists(o))
  BY <1>1, NewRows DEF Exists
<1>3. \A o \in Orders : Untroubled(o)' <=> Untroubled(o)
  BY DEF Untroubled
<1>4. TypeOK'
  BY <1>1 DEF IInv, TypeOK
<1>5. NotYet' /\ PoolStaysOut' /\ RecordsAreTrue'
  BY <1>1, <1>2 DEF IInv, NotYet, PoolStaysOut, RecordsAreTrue
<1>6. Listed'
  BY <1>1, <1>2 DEF IInv, Listed
<1>7. BarredAlone'
  <2>1. p \notin barred
    BY DEF IInv, BarredAlone, Exists
  <2> QED BY <2>1, <1>1 DEF IInv, TypeOK, BarredAlone
<1>8. Posted'
  <2>1. ASSUME NEW v \in Runs, run'[v].pc \in {"mark", "record"}
        PROVE  run'[v] = run[v] /\ run[v].order \in Orders /\ run[v].order # p
    BY <2>1, <1>1 DEF IInv, OrderAtHand, Has
  <2> QED BY <2>1, <1>1 DEF IInv, Posted
<1>9. PostedOnce'
  BY <1>1, <1>2, <1>3 DEF IInv, PostedOnce, PostedOnceOf
<1> QED BY <1>4, <1>5, <1>6, <1>7, <1>8, <1>9 DEF IInv

\* The insert of an import does.
LEMMA ImportInserts ==
  ASSUME IInv, NEW w \in Runs, Insert(w)
  PROVE  IInv'
<1> DEFINE p == run[w].order
<1>1. p \in Orders /\ ~Exists(p) /\ run[w].pc = "insert" /\ run[w].todo \in SUBSET Orders
  BY DEF IInv, OrderAtHand, TypeOK, RunRec, Insert
<1>2. PICK row \in New : order' = [order EXCEPT ![p] = row]
  BY DEF Insert
<1>3. Turns(w, {"idle", "look"}, run[w].todo, NONE)
  BY <1>1, ContinueTurns DEF IInv, Insert, RunPc
<1>4. \A v \in Runs, o \in Orders : (Has(v, o)' <=> Has(v, o)) /\ (Posting(v, o)' <=> Posting(v, o))
  BY <1>1, <1>3, ImportersHaveNothing
<1>5. run' \in [Runs -> RunRec] /\ OrderAtHand'
  BY <1>3 DEF IInv, OrderAtHand, Turns
<1>6. /\ \A v \in Runs, o \in Orders : AtPost(v, o)' <=> AtPost(v, o)
      /\ \A v \in Runs : run'[v].pc \in {"mark", "record"} => run'[v] = run[v]
  BY <1>1, <1>3 DEF Turns, AtPost
<1>7. UNCHANGED <<slips, inFlight, request, barred, trouble>>
  BY DEF Insert
<1> HIDE DEF p
<1> QED BY <1>1, <1>2, <1>4, <1>5, <1>6, <1>7, InsertKeepsIInv

\* So does OrderService.create().
LEMMA CreateKeepsIInv ==
  ASSUME IInv, NEW p \in Orders, Create(p)
  PROVE  IInv'
<1>1. PICK row \in New : order' = [order EXCEPT ![p] = row]
  BY DEF Create
<1>2. \A v \in Runs, o \in Orders : (Has(v, o)' <=> Has(v, o)) /\ (Posting(v, o)' <=> Posting(v, o))
  BY DEF Create, Has, Posting
<1>4. \A v \in Runs, o \in Orders : AtPost(v, o)' <=> AtPost(v, o)
  BY DEF Create, AtPost
<1>3. run' = run /\ run' \in [Runs -> RunRec] /\ OrderAtHand' /\ ~Exists(p)
  BY DEF Create, IInv, TypeOK, OrderAtHand
<1> QED BY <1>1, <1>2, <1>3, <1>4, InsertKeepsIInv DEF Create

-----------------------------------------------------------------------------
(* The export *)

\* findMany() lists what exists, is open and is not in the pool.
LEMMA ListKeepsIInv ==
  ASSUME IInv, NEW w \in Runs, List(w)
  PROVE  IInv'
<1> DEFINE list == {o \in Orders : Wanted(o)}
<1>1. run[w].pc = "idle" /\ UNCHANGED <<order, slips, inFlight, request, barred, trouble>>
  BY DEF List
<1>2. Turns(w, {"idle", "check"}, list, NONE)
  BY ContinueTurns DEF IInv, List, RunPc
<1>3. /\ run' \in [Runs -> RunRec] /\ \A v \in Runs : v # w => run'[v] = run[v]
      /\ run'[w].pc \in {"idle", "check"} /\ run'[w].todo = list
  BY <1>2 DEF Turns
<1>4. \A v \in Runs, o \in Orders :
        /\ Has(v, o)' => Has(v, o) \/ Wanted(o)
        /\ Posting(v, o)' <=> Posting(v, o)
        /\ AtPost(v, o)' <=> AtPost(v, o)
  BY <1>1, <1>3 DEF Has, Posting, AtPost
<1>5. TypeOK' /\ OrderAtHand' /\ Posted'
  BY <1>1, <1>3 DEF IInv, TypeOK, OrderAtHand, Posted
<1>6. NotYet' /\ PoolStaysOut' /\ RecordsAreTrue'
  BY <1>1 DEF IInv, NotYet, Exists, PoolStaysOut, RecordsAreTrue
<1>7. Listed' /\ BarredAlone'
  BY <1>1, <1>4 DEF IInv, TypeOK, Listed, BarredAlone, Wanted, Exists
<1>8. PostedOnce'
  BY <1>1, <1>4 DEF IInv, PostedOnce, PostedOnceOf, Untroubled
<1> QED BY <1>5, <1>6, <1>7, <1>8 DEF IInv

\* The other steps of an export handle an order p that the run has: whoever has
\* an order afterwards had it before, and of other orders nothing changes.
Handles(w, p) ==
  /\ Has(w, p)
  /\ run' \in [Runs -> RunRec] /\ OrderAtHand'
  /\ \A v \in Runs, o \in Orders : Has(v, o)' => Has(v, o)
  /\ \A v \in Runs, o \in Orders : o # p =>
       (Posting(v, o)' <=> Posting(v, o)) /\ (AtPost(v, o)' <=> AtPost(v, o))
  /\ \A v \in Runs \ {w} : run'[v] = run[v]
  /\ \A o \in Orders : o # p =>
       order'[o] = order[o] /\ slips'[o] = slips[o] /\ inFlight'[o] = inFlight[o] /\ trouble'[o] = trouble[o]
  /\ order' \in [Orders -> Row] /\ order'[p].pool = order[p].pool /\ order'[p].status # "absent"
  /\ slips' \in [Orders -> 0..Many] /\ inFlight' \in [Orders -> 0..MaxInFlight]
  /\ trouble' \in [Orders -> SUBSET Troubles]
  /\ UNCHANGED <<request, barred>>

\* So what is left to show is about p and the run itself.
LEMMA HandlesKeepsIInv ==
  ASSUME IInv, NEW w \in Runs, NEW p \in Orders, Handles(w, p),
         Posted', PostedOnceOf(p)',
         order'[p].synced => order'[p].logo = "SYNCED",
         order'[p].logo = "SYNCED" => slips'[p] > 0
  PROVE  IInv'
<1>1. TypeOK' /\ OrderAtHand'
  BY DEF IInv, TypeOK, Handles
<1>2. Exists(p) /\ ~order[p].pool /\ p \notin barred
  BY DEF IInv, Handles, Listed, BarredAlone
<1>3. NotYet'
  BY <1>2 DEF IInv, NotYet, Handles, Exists
<1>4. Listed'
  <2>1. \A o \in Orders : Exists(o) /\ ~order[o].pool => Exists(o)' /\ ~order'[o].pool
    BY <1>2 DEF Exists, Handles
  <2> QED BY <2>1 DEF IInv, Listed, Handles
<1>5. BarredAlone'
  BY <1>2 DEF IInv, TypeOK, BarredAlone, Handles
<1>6. PoolStaysOut'
  BY <1>2 DEF IInv, PoolStaysOut, Handles
<1>7. RecordsAreTrue'
  BY DEF IInv, RecordsAreTrue, Handles
<1>8. PostedOnce'
  <2>1. ASSUME NEW o \in Orders, o # p PROVE PostedOnceOf(o)'
    BY <2>1 DEF IInv, PostedOnce, PostedOnceOf, Untroubled, Handles
  <2> QED BY <2>1 DEF PostedOnce
<1> QED BY <1>1, <1>3, <1>4, <1>5, <1>6, <1>7, <1>8 DEF IInv

\* A run that handles p has it at hand, or on its list.
HasAtHand(w, p) ==
  \/ run[w].pc = "check" /\ p \in run[w].todo
  \/ run[w].pc \in {"touch", "post", "mark", "record"} /\ run[w].order = p

\* A run that turns to nothing but p, or away from it, handles p.
LEMMA TurnsHandles ==
  ASSUME IInv, NEW w \in Runs, NEW p \in Orders, HasAtHand(w, p),
         NEW pcs, NEW todo \in SUBSET run[w].todo, NEW at \in {p, NONE}, Turns(w, pcs, todo, at),
         at = p => pcs \subseteq {"touch", "post", "mark", "record"},
         at = NONE => pcs \subseteq {"idle", "check"}
  PROVE  /\ Has(w, p)
         /\ run' \in [Runs -> RunRec] /\ OrderAtHand'
         /\ \A v \in Runs, o \in Orders : Has(v, o)' => Has(v, o)
         /\ \A v \in Runs, o \in Orders : o # p =>
              (Posting(v, o)' <=> Posting(v, o)) /\ (AtPost(v, o)' <=> AtPost(v, o))
         /\ \A v \in Runs \ {w} : run'[v] = run[v]
<1>1. Has(w, p)
  BY DEF HasAtHand, Has
<1>2. /\ run' \in [Runs -> RunRec] /\ \A v \in Runs \ {w} : run'[v] = run[v]
      /\ run'[w].pc \in pcs /\ run'[w].todo \subseteq run[w].todo /\ run'[w].order = at
  BY DEF Turns
<1>3. OrderAtHand'
  BY <1>2 DEF IInv, OrderAtHand
<1>4. \A v \in Runs, o \in Orders : Has(v, o)' => Has(v, o)
  BY <1>2, NoneAssumption DEF Has, HasAtHand
<1>5. \A v \in Runs, o \in Orders : o # p =>
        (Posting(v, o)' <=> Posting(v, o)) /\ (AtPost(v, o)' <=> AtPost(v, o))
  BY <1>2, NoneAssumption DEF Posting, AtPost, HasAtHand
<1> QED BY <1>1, <1>2, <1>3, <1>4, <1>5

\* Blaming an order leaves the others alone, and does not absolve it.
LEMMA BlameTypes ==
  ASSUME IInv, NEW p \in Orders, NEW what \in Troubles, Blame(p, what)
  PROVE  /\ trouble' \in [Orders -> SUBSET Troubles]
         /\ trouble'[p] = trouble[p] \cup {what}
         /\ \A o \in Orders : o # p => trouble'[o] = trouble[o]
BY DEF Blame, IInv, TypeOK

\* An order without the event is posted; if another run is posting it too, it is
\* blamed.
LEMMA CheckKeepsIInv ==
  ASSUME IInv, NEW w \in Runs, NEW p \in Orders, Check(w, p)
  PROVE  IInv'
<1> DEFINE pc == IF order[p].synced THEN "touch" ELSE "post"
<1>1. run[w].pc = "check" /\ HasAtHand(w, p) /\ UNCHANGED <<order, slips, inFlight, request, barred>>
  BY DEF Check, HasAtHand
<1>2. Turns(w, {pc}, run[w].todo \ {p}, p)
  BY TakeTurns DEF IInv, Check, RunPc
<1>3. IF ~order[p].synced /\ \E v \in Runs \ {w} : Posting(v, p) THEN Blame(p, "overlap") ELSE UNCHANGED trouble
  BY DEF Check
<1>4. /\ trouble' \in [Orders -> SUBSET Troubles] /\ trouble[p] \subseteq trouble'[p]
      /\ \A o \in Orders : o # p => trouble'[o] = trouble[o]
      /\ Untroubled(p)' => Untroubled(p) /\ (order[p].synced \/ \A v \in Runs \ {w} : ~Posting(v, p))
  BY <1>3, BlameTypes DEF IInv, TypeOK, Troubles, Untroubled
<1>5. Handles(w, p)
  <2>1. run[w].todo \ {p} \in SUBSET run[w].todo /\ p # NONE
    BY NoneAssumption
  <2>2. order[p].status # "absent"
    BY <1>1 DEF IInv, Listed, HasAtHand, Has, Exists
  <2> QED BY <1>1, <1>2, <1>4, <2>1, <2>2, TurnsHandles DEF Handles, IInv, TypeOK
<1>6. Posted'
  BY <1>1, <1>2 DEF IInv, Posted, Turns
<1>7. PostedOnceOf(p)'
  <2> SUFFICES ASSUME Untroubled(p)' PROVE PostedOnceOf(p)'
    BY DEF PostedOnceOf
  <2>1. CASE order[p].synced
    <3>1. \A v \in Runs : (Posting(v, p)' <=> Posting(v, p)) /\ (AtPost(v, p)' <=> AtPost(v, p))
      BY <1>1, <1>2, <2>1 DEF Turns, Posting, AtPost
    <3> QED BY <1>1, <1>4, <3>1 DEF IInv, PostedOnce, PostedOnceOf
  <2>2. CASE ~order[p].synced
    <3>1. \A v \in Runs : ~Posting(v, p)
      BY <1>1, <1>4, <2>2 DEF Posting
    <3>2. slips[p] = 0 /\ inFlight[p] = 0
      BY <1>4, <3>1, <2>2 DEF IInv, TypeOK, PostedOnce, PostedOnceOf
    <3>3. \A v \in Runs : Posting(v, p)' => v = w
      BY <1>2, <3>1 DEF Turns, Posting
    <3> QED BY <1>1, <3>2, <3>3 DEF PostedOnceOf
  <2> QED BY <2>1, <2>2
<1> QED BY <1>1, <1>5, <1>6, <1>7, HandlesKeepsIInv DEF IInv, RecordsAreTrue

\* A run that gives an order up before it was posted.
LEMMA CheckFailsKeepsIInv ==
  ASSUME IInv, NEW w \in Runs, NEW p \in Orders, CheckFails(w, p)
  PROVE  IInv'
<1>1. run[w].pc = "check" /\ HasAtHand(w, p) /\ UNCHANGED <<order, slips, inFlight, request, barred>>
  BY DEF CheckFails, HasAtHand
<1>2. Turns(w, {"idle", "check"}, run[w].todo \ {p}, NONE)
  BY ContinueTurns DEF IInv, TypeOK, RunRec, CheckFails, RunPc
<1>3. /\ trouble' \in [Orders -> SUBSET Troubles] /\ trouble[p] \subseteq trouble'[p]
      /\ \A o \in Orders : o # p => trouble'[o] = trouble[o]
  BY BlameTypes DEF CheckFails, Troubles
<1>4. Handles(w, p)
  <2>1. run[w].todo \ {p} \in SUBSET run[w].todo /\ p # NONE
    BY NoneAssumption
  <2>2. order[p].status # "absent"
    BY <1>1 DEF IInv, Listed, HasAtHand, Has, Exists
  <2> QED BY <1>1, <1>2, <1>3, <2>1, <2>2, TurnsHandles DEF Handles, IInv, TypeOK
<1>5. Posted'
  BY <1>1, <1>2 DEF IInv, Posted, Turns
<1>6. PostedOnceOf(p)'
  <2>1. \A v \in Runs : (Posting(v, p)' <=> Posting(v, p)) /\ (AtPost(v, p)' <=> AtPost(v, p))
    BY <1>1, <1>2 DEF Turns, Posting, AtPost
  <2> QED BY <1>1, <1>3, <2>1 DEF IInv, PostedOnce, PostedOnceOf, Untroubled
<1> QED BY <1>1, <1>4, <1>5, <1>6, HandlesKeepsIInv DEF IInv, RecordsAreTrue

\* The order at hand.
LEMMA AtHand ==
  ASSUME IInv, NEW w \in Runs, run[w].pc \in {"touch", "post", "mark", "record"}
  PROVE  /\ run[w].order \in Orders /\ HasAtHand(w, run[w].order)
         /\ order[run[w].order].status # "absent" /\ order[run[w].order] \in Row
         /\ run[w].todo \in SUBSET Orders /\ run[w].order # NONE
BY NoneAssumption DEF IInv, OrderAtHand, HasAtHand, Has, Listed, Exists, TypeOK, RunRec

\* An order that was exported since is given another status only.
LEMMA TouchKeepsIInv ==
  ASSUME IInv, NEW w \in Runs, Touch(w)
  PROVE  IInv'
<1>0. PICK p \in Orders : p = run[w].order
  BY AtHand DEF Touch
<1>1. /\ run[w].pc = "touch" /\ UNCHANGED <<slips, inFlight, request, barred, trouble>>
      /\ order' = [order EXCEPT ![p].status = "processing"]
  BY <1>0 DEF Touch
<1>2. p \in Orders /\ HasAtHand(w, p) /\ order[p] \in Row /\ run[w].todo \in SUBSET Orders
  BY <1>0, <1>1, AtHand
<1>3. Turns(w, {"idle", "check"}, run[w].todo, NONE)
  BY <1>2, ContinueTurns DEF IInv, Touch, NextExport, RunPc
<1>4. /\ order' \in [Orders -> Row] /\ order'[p].status = "processing"
      /\ order'[p].pool = order[p].pool /\ order'[p].logo = order[p].logo /\ order'[p].synced = order[p].synced
      /\ \A o \in Orders : o # p => order'[o] = order[o]
  BY <1>1, <1>2 DEF IInv, TypeOK, Row, Status
<1>5. Handles(w, p)
  BY <1>1, <1>2, <1>3, <1>4, NoneAssumption, TurnsHandles DEF Handles, IInv, TypeOK
<1>6. Posted'
  <2>1. \A o \in Orders : order'[o].logo = order[o].logo
    BY <1>4
  <2> QED BY <1>1, <1>3, <2>1 DEF IInv, Posted, OrderAtHand, Turns
<1>7. PostedOnceOf(p)'
  <2>1. \A v \in Runs : (Posting(v, p)' <=> Posting(v, p)) /\ (AtPost(v, p)' <=> AtPost(v, p))
    BY <1>1, <1>3 DEF Turns, Posting, AtPost
  <2> QED BY <1>1, <1>2, <1>4, <2>1 DEF IInv, PostedOnce, PostedOnceOf, Untroubled
<1> QED BY <1>1, <1>2, <1>4, <1>5, <1>6, <1>7, HandlesKeepsIInv DEF IInv, RecordsAreTrue

\* The ERP's answer has arrived.
LEMMA PostKeepsIInv ==
  ASSUME IInv, NEW w \in Runs, Post(w)
  PROVE  IInv'
<1>0. PICK p \in Orders : p = run[w].order
  BY AtHand DEF Post
<1>1. /\ run[w].pc = "post" /\ UNCHANGED <<order, inFlight, request, barred, trouble>>
      /\ slips' = [slips EXCEPT ![p] = Counted(@)] /\ run' = [run EXCEPT ![w].pc = "mark"]
  BY <1>0 DEF Post
<1>2. p \in Orders /\ HasAtHand(w, p) /\ order[p].status # "absent" /\ p # NONE
  BY <1>0, <1>1, AtHand
<1>3. Turns(w, {"mark"}, run[w].todo, p)
  BY <1>0, <1>1, PcTurns DEF IInv, RunPc
<1>4. /\ slips' \in [Orders -> 0..Many] /\ slips'[p] > 0 /\ (slips[p] = 0 => slips'[p] = 1)
      /\ \A o \in Orders : o # p => slips'[o] = slips[o]
  BY <1>1, <1>2, LimitsAssumption DEF IInv, TypeOK, Counted
<1>5. Handles(w, p)
  BY <1>1, <1>2, <1>3, <1>4, TurnsHandles DEF Handles, IInv, TypeOK
<1>6. Posted'
  <2>1. ASSUME NEW v \in Runs, v # w PROVE run'[v] = run[v]
    BY <2>1, <1>3 DEF Turns
  <2>2. \A o \in Orders : slips[o] > 0 => slips'[o] > 0
    BY <1>4 DEF IInv, TypeOK
  <2>3. run'[w].pc = "mark" /\ run'[w].order = p
    BY <1>3 DEF Turns
  <2> QED BY <1>1, <1>4, <2>1, <2>2, <2>3 DEF IInv, Posted, OrderAtHand
<1>7. PostedOnceOf(p)'
  <2> SUFFICES ASSUME Untroubled(p)' PROVE PostedOnceOf(p)'
    BY DEF PostedOnceOf
  <2>1. Untroubled(p) /\ Posting(w, p) /\ AtPost(w, p)
    BY <1>0, <1>1 DEF Untroubled, Posting, AtPost
  <2>2. inFlight[p] = 0 /\ slips[p] = 0 /\ \A v \in Runs : Posting(v, p) => v = w
    BY <1>2, <2>1 DEF IInv, PostedOnce, PostedOnceOf
  <2>3. \A v \in Runs : (Posting(v, p)' => v = w) /\ ~AtPost(v, p)'
    BY <1>3, <2>2 DEF Turns, Posting, AtPost
  <2>4. Posting(w, p)'
    BY <1>3 DEF Turns, Posting
  <2> QED BY <1>1, <1>4, <2>2, <2>3, <2>4 DEF PostedOnceOf
<1> QED BY <1>1, <1>2, <1>4, <1>5, <1>6, <1>7, HandlesKeepsIInv DEF IInv, RecordsAreTrue

\* A request that fails is sent again, or its order given up.
LEMMA FailedTurns ==
  ASSUME IInv, NEW w \in Runs, NEW p \in Orders, p = run[w].order, run[w].pc = "post",
         \/ run[w].attempts + 1 < Retries /\ run' = [run EXCEPT ![w].attempts = @ + 1]
         \/ NextExport(w)
  PROVE  Turns(w, {"post"}, run[w].todo, p) \/ Turns(w, {"idle", "check"}, run[w].todo, NONE)
<1>1. run[w].todo \in SUBSET Orders /\ TypeOK
  BY AtHand DEF IInv
<1>2. CASE run[w].attempts + 1 < Retries /\ run' = [run EXCEPT ![w].attempts = @ + 1]
  BY <1>1, <1>2, RetryTurns
<1>3. CASE NextExport(w)
  BY <1>1, <1>3, ContinueTurns DEF NextExport, RunPc
<1> QED BY <1>2, <1>3

\* A request without an answer leaves its order in doubt.
LEMMA TimeoutKeepsIInv ==
  ASSUME IInv, NEW w \in Runs, Timeout(w)
  PROVE  IInv'
<1>0. PICK p \in Orders : p = run[w].order
  BY AtHand DEF Timeout
<1>1. /\ run[w].pc = "post" /\ UNCHANGED <<order, slips, request, barred>>
      /\ inFlight[p] < MaxInFlight /\ inFlight' = [inFlight EXCEPT ![p] = @ + 1] /\ Blame(p, "doubtful")
  BY <1>0 DEF Timeout
<1>2. HasAtHand(w, p) /\ order[p].status # "absent" /\ p # NONE
  BY <1>0, <1>1, AtHand
<1>3. Turns(w, {"post"}, run[w].todo, p) \/ Turns(w, {"idle", "check"}, run[w].todo, NONE)
  BY <1>0, <1>1, FailedTurns DEF Timeout
<1>4. /\ inFlight' \in [Orders -> 0..MaxInFlight]
      /\ \A o \in Orders : o # p => inFlight'[o] = inFlight[o]
  BY <1>1, LimitsAssumption DEF IInv, TypeOK
<1>5. /\ trouble' \in [Orders -> SUBSET Troubles] /\ "doubtful" \in trouble'[p]
      /\ \A o \in Orders : o # p => trouble'[o] = trouble[o]
  BY <1>1, BlameTypes DEF Troubles
<1>6. Handles(w, p)
  BY <1>1, <1>2, <1>3, <1>4, <1>5, TurnsHandles DEF Handles, IInv, TypeOK
<1>7. Posted'
  BY <1>1, <1>3 DEF IInv, Posted, Turns
<1>8. PostedOnceOf(p)'
  BY <1>5 DEF PostedOnceOf, Untroubled
<1> QED BY <1>1, <1>6, <1>7, <1>8, HandlesKeepsIInv DEF IInv, RecordsAreTrue

\* A request that was refused was not posted.
LEMMA RefusedKeepsIInv ==
  ASSUME IInv, NEW w \in Runs, Refused(w)
  PROVE  IInv'
<1>0. PICK p \in Orders : p = run[w].order
  BY AtHand DEF Refused
<1>1. run[w].pc = "post" /\ UNCHANGED <<order, slips, inFlight, request, barred>> /\ Blame(p, "unsent")
  BY <1>0 DEF Refused
<1>2. HasAtHand(w, p) /\ order[p].status # "absent" /\ p # NONE
  BY <1>0, <1>1, AtHand
<1>3. Turns(w, {"post"}, run[w].todo, p) \/ Turns(w, {"idle", "check"}, run[w].todo, NONE)
  BY <1>0, <1>1, FailedTurns DEF Refused
<1>4. /\ trouble' \in [Orders -> SUBSET Troubles] /\ trouble[p] \subseteq trouble'[p]
      /\ \A o \in Orders : o # p => trouble'[o] = trouble[o]
  BY <1>1, BlameTypes DEF Troubles
<1>5. Handles(w, p)
  BY <1>1, <1>2, <1>3, <1>4, TurnsHandles DEF Handles, IInv, TypeOK
<1>6. Posted'
  BY <1>1, <1>3 DEF IInv, Posted, Turns
<1>7. PostedOnceOf(p)'
  <2> SUFFICES ASSUME Untroubled(p)' PROVE PostedOnceOf(p)'
    BY DEF PostedOnceOf
  <2>1. Untroubled(p) /\ AtPost(w, p)
    BY <1>0, <1>1, <1>4 DEF Untroubled, AtPost
  <2>2. \A v \in Runs : (Posting(v, p)' => Posting(v, p)) /\ (AtPost(v, p)' => AtPost(v, p))
    BY <1>2, <1>3, <2>1 DEF Turns, Posting, AtPost
  <2> QED BY <1>1, <2>1, <2>2 DEF IInv, TypeOK, PostedOnce, PostedOnceOf
<1> QED BY <1>1, <1>5, <1>6, <1>7, HandlesKeepsIInv DEF IInv, RecordsAreTrue

\* The mark is written after the ERP has taken the order.
LEMMA MarkKeepsIInv ==
  ASSUME IInv, NEW w \in Runs, Mark(w)
  PROVE  IInv'
<1>0. PICK p \in Orders : p = run[w].order
  BY AtHand DEF Mark
<1>1. /\ run[w].pc = "mark" /\ UNCHANGED <<slips, inFlight, request, barred, trouble>>
      /\ order' = [order EXCEPT ![p] = [@ EXCEPT !.status = "processing", !.logo = "SYNCED"]]
      /\ run' = [run EXCEPT ![w].pc = "record"]
  BY <1>0 DEF Mark
<1>2. HasAtHand(w, p) /\ order[p] \in Row /\ p # NONE /\ slips[p] > 0
  BY <1>0, <1>1, AtHand DEF IInv, Posted
<1>3. Turns(w, {"record"}, run[w].todo, p)
  BY <1>0, <1>1, PcTurns DEF IInv, RunPc
<1>4. /\ order' \in [Orders -> Row] /\ order'[p].status = "processing" /\ order'[p].logo = "SYNCED"
      /\ order'[p].pool = order[p].pool /\ order'[p].synced = order[p].synced
      /\ \A o \in Orders : o # p => order'[o] = order[o]
  BY <1>1, <1>2 DEF IInv, TypeOK, Row, Status, LogoStatus
<1>5. Handles(w, p)
  BY <1>1, <1>2, <1>3, <1>4, TurnsHandles DEF Handles, IInv, TypeOK
<1>6. Posted'
  <2>1. \A o \in Orders : order[o].logo = "SYNCED" => order'[o].logo = "SYNCED"
    BY <1>4
  <2>2. run'[w].order = p /\ \A v \in Runs : v # w => run'[v] = run[v]
    BY <1>3 DEF Turns
  <2> QED BY <1>1, <1>2, <1>4, <2>1, <2>2 DEF IInv, Posted, OrderAtHand
<1>7. PostedOnceOf(p)'
  <2>1. \A v \in Runs : (Posting(v, p)' <=> Posting(v, p)) /\ (AtPost(v, p)' => AtPost(v, p))
    BY <1>0, <1>1, <1>3 DEF Turns, Posting, AtPost
  <2> QED BY <1>1, <1>4, <2>1 DEF IInv, PostedOnce, PostedOnceOf, Untroubled
<1> QED BY <1>1, <1>2, <1>4, <1>5, <1>6, <1>7, HandlesKeepsIInv

\* The event is written: who posted the order is done with it.
LEMMA RecordKeepsIInv ==
  ASSUME IInv, NEW w \in Runs, Record(w)
  PROVE  IInv'
<1>0. PICK p \in Orders : p = run[w].order
  BY AtHand DEF Record
<1>1. /\ run[w].pc = "record" /\ UNCHANGED <<slips, inFlight, request, barred, trouble>>
      /\ order' = [order EXCEPT ![p].synced = TRUE]
  BY <1>0 DEF Record
<1>2. /\ HasAtHand(w, p) /\ order[p] \in Row /\ order[p].status # "absent" /\ p # NONE
      /\ slips[p] > 0 /\ order[p].logo = "SYNCED" /\ run[w].todo \in SUBSET Orders
  BY <1>0, <1>1, AtHand DEF IInv, Posted
<1>3. Turns(w, {"idle", "check"}, run[w].todo, NONE)
  BY <1>2, ContinueTurns DEF IInv, Record, NextExport, RunPc
<1>4. /\ order' \in [Orders -> Row] /\ order'[p].synced
      /\ order'[p].status = order[p].status /\ order'[p].pool = order[p].pool /\ order'[p].logo = order[p].logo
      /\ \A o \in Orders : o # p => order'[o] = order[o]
  BY <1>1, <1>2 DEF IInv, TypeOK, Row
<1>5. Handles(w, p)
  BY <1>1, <1>2, <1>3, <1>4, TurnsHandles DEF Handles, IInv, TypeOK
<1>6. Posted'
  <2>1. \A o \in Orders : order'[o].logo = order[o].logo
    BY <1>4
  <2> QED BY <1>1, <1>3, <2>1 DEF IInv, Posted, OrderAtHand, Turns
<1>7. PostedOnceOf(p)'
  <2>1. \A v \in Runs : (Posting(v, p)' => Posting(v, p)) /\ (AtPost(v, p)' => AtPost(v, p))
    BY <1>2, <1>3 DEF Turns, Posting, AtPost
  <2> QED BY <1>1, <1>4, <2>1 DEF IInv, PostedOnce, PostedOnceOf, Untroubled
<1> QED BY <1>1, <1>2, <1>4, <1>5, <1>6, <1>7, HandlesKeepsIInv

\* A write that throws leaves an order that was posted in doubt.
LEMMA WriteFailsKeepsIInv ==
  ASSUME IInv, NEW w \in Runs, WriteFails(w)
  PROVE  IInv'
<1>0. PICK p \in Orders : p = run[w].order
  BY AtHand DEF WriteFails
<1>1. /\ run[w].pc \in {"touch", "mark", "record"} /\ UNCHANGED <<order, slips, inFlight, request, barred>>
      /\ IF run[w].pc = "touch" THEN UNCHANGED trouble ELSE Blame(p, "doubtful")
  BY <1>0 DEF WriteFails
<1>2. HasAtHand(w, p) /\ order[p].status # "absent" /\ p # NONE /\ run[w].todo \in SUBSET Orders
  BY <1>0, <1>1, AtHand
<1>3. Turns(w, {"idle", "check"}, run[w].todo, NONE)
  BY <1>2, ContinueTurns DEF IInv, WriteFails, NextExport, RunPc
<1>4. /\ trouble' \in [Orders -> SUBSET Troubles] /\ trouble[p] \subseteq trouble'[p]
      /\ run[w].pc # "touch" => "doubtful" \in trouble'[p]
      /\ \A o \in Orders : o # p => trouble'[o] = trouble[o]
  BY <1>1, BlameTypes DEF Troubles, IInv, TypeOK
<1>5. Handles(w, p)
  BY <1>1, <1>2, <1>3, <1>4, TurnsHandles DEF Handles, IInv, TypeOK
<1>6. Posted'
  BY <1>1, <1>3 DEF IInv, Posted, Turns
<1>7. PostedOnceOf(p)'
  <2> SUFFICES ASSUME Untroubled(p)' PROVE PostedOnceOf(p)'
    BY DEF PostedOnceOf
  <2>1. Untroubled(p) /\ run[w].pc = "touch"
    BY <1>1, <1>4 DEF Untroubled
  <2>2. \A v \in Runs : (Posting(v, p)' <=> Posting(v, p)) /\ (AtPost(v, p)' <=> AtPost(v, p))
    BY <1>2, <1>3, <2>1 DEF Turns, Posting, AtPost
  <2> QED BY <1>1, <2>1, <2>2 DEF IInv, PostedOnce, PostedOnceOf
<1> QED BY <1>1, <1>5, <1>6, <1>7, HandlesKeepsIInv DEF IInv, RecordsAreTrue

-----------------------------------------------------------------------------
(* Users and the environment *)

\* A user's handler reads the order.
LEMMA GetKeepsIInv ==
  ASSUME IInv, NEW r \in Requests, NEW o \in Orders, NEW s \in Status, Get(r, o, s)
  PROVE  IInv'
<1>1. UNCHANGED <<order, slips, inFlight, run, barred, trouble>> /\ request' = [request EXCEPT ![r] = [order |-> o, status |-> s]]
  BY DEF Get
<1>2. TypeOK'
  BY <1>1 DEF IInv, TypeOK, RequestRec
<1>3. Listed' /\ PostedOnce' /\ BarredAlone'
  BY <1>1 DEF IInv, Listed, PostedOnce, PostedOnceOf, BarredAlone, Has, Posting, AtPost, Exists, Untroubled
<1>4. OrderAtHand' /\ NotYet' /\ Posted' /\ PoolStaysOut' /\ RecordsAreTrue'
  BY <1>1 DEF IInv, OrderAtHand, NotYet, Posted, PoolStaysOut, RecordsAreTrue, Exists
<1> QED BY <1>2, <1>3, <1>4 DEF IInv

\* A user's write changes a status only, and bars an order nobody has.
LEMMA WriteKeepsIInv ==
  ASSUME IInv, NEW r \in Requests, Write(r)
  PROVE  IInv'
<1>1. PICK p \in Orders : p = request[r].order
  BY DEF Write, IInv, TypeOK, RequestRec
<1>2. /\ UNCHANGED <<slips, inFlight, run, trouble>> /\ request[r] \in RequestRec
      /\ order' = [order EXCEPT ![p].status = request[r].status]
      /\ request' = [request EXCEPT ![r] = Idle]
  BY <1>1 DEF Write, IInv, TypeOK
<1>3. /\ barred' \subseteq barred \cup {p}
      /\ p \in barred' => /\ request[r].status = "cancelled"
                          /\ p \in barred \/ (inFlight[p] = 0 /\ \A w \in Runs : ~Has(w, p))
  <2>1. barred' = IF request[r].status # "cancelled" THEN barred \ {p}
                  ELSE IF inFlight[p] = 0 /\ \A w \in Runs : ~Has(w, p) THEN barred \cup {p}
                  ELSE barred
    BY <1>1 DEF Write
  <2> QED BY <2>1
<1>4. /\ order' \in [Orders -> Row] /\ order'[p].status = request[r].status
      /\ order'[p].status # "absent"
      /\ \A o \in Orders : order'[o].pool = order[o].pool /\ order'[o].logo = order[o].logo
                             /\ order'[o].synced = order[o].synced /\ (o # p => order'[o] = order[o])
  BY <1>1, <1>2 DEF IInv, TypeOK, Row, Status, RequestRec
<1>5. /\ \A w \in Runs, o \in Orders : (Has(w, o)' <=> Has(w, o)) /\ (Posting(w, o)' <=> Posting(w, o))
      /\ \A w \in Runs, o \in Orders : AtPost(w, o)' <=> AtPost(w, o)
      /\ \A o \in Orders : Untroubled(o)' <=> Untroubled(o)
  BY <1>2 DEF Has, Posting, AtPost, Untroubled
<1>6. TypeOK'
  <2>1. request' \in [Requests -> RequestRec]
    BY <1>2 DEF IInv, TypeOK, RequestRec, Idle, Status
  <2>2. barred' \in SUBSET Orders
    BY <1>1, <1>3 DEF IInv, TypeOK
  <2> QED BY <1>2, <1>4, <2>1, <2>2 DEF IInv, TypeOK
<1>7. NotYet' /\ Listed'
  BY <1>2, <1>4, <1>5 DEF IInv, NotYet, Listed, Exists
<1>8. PoolStaysOut' /\ RecordsAreTrue' /\ OrderAtHand' /\ Posted'
  BY <1>2, <1>4 DEF IInv, PoolStaysOut, RecordsAreTrue, OrderAtHand, Posted
<1>9. PostedOnce'
  <2> SUFFICES ASSUME NEW o \in Orders PROVE PostedOnceOf(o)'
    BY DEF PostedOnce
  <2>1. slips'[o] = slips[o] /\ inFlight'[o] = inFlight[o] /\ order'[o].synced = order[o].synced
    BY <1>2, <1>4
  <2> QED BY <2>1, <1>5 DEF IInv, PostedOnce, PostedOnceOf
<1>10. BarredAlone'
  <2>1. barred \in SUBSET Orders
    BY DEF IInv, TypeOK
  <2>2. ASSUME NEW o \in barred', o # p
        PROVE  order'[o].status = "cancelled" /\ inFlight'[o] = 0 /\ \A w \in Runs : ~Has(w, o)'
    BY <1>1, <1>2, <1>4, <1>5, <1>3, <2>1, <2>2 DEF IInv, BarredAlone
  <2>3. ASSUME p \in barred'
        PROVE  order'[p].status = "cancelled" /\ inFlight'[p] = 0 /\ \A w \in Runs : ~Has(w, p)'
    BY <1>1, <1>2, <1>4, <1>5, <1>3, <2>3 DEF IInv, BarredAlone
  <2> QED BY <2>2, <2>3 DEF BarredAlone
<1> QED BY <1>6, <1>7, <1>8, <1>9, <1>10 DEF IInv

\* What arrives late was sent for an order that is in doubt.
LEMMA ArriveKeepsIInv ==
  ASSUME IInv, NEW p \in Orders, Arrive(p)
  PROVE  IInv'
<1>1. /\ UNCHANGED <<order, run, request, barred, trouble>> /\ inFlight[p] > 0
      /\ inFlight' \in [Orders -> 0..MaxInFlight] /\ slips' \in [Orders -> 0..Many]
      /\ \A o \in Orders : (slips[o] > 0 => slips'[o] > 0)
                             /\ (o # p => inFlight'[o] = inFlight[o] /\ slips'[o] = slips[o])
  BY LimitsAssumption DEF Arrive, IInv, TypeOK, Counted
<1>2. p \notin barred /\ Exists(p) /\ ~order[p].pool /\ ~Untroubled(p)
  BY <1>1 DEF IInv, BarredAlone, NotYet, PoolStaysOut, PostedOnce, PostedOnceOf
<1>3. /\ \A w \in Runs, o \in Orders : (Has(w, o)' <=> Has(w, o)) /\ (Posting(w, o)' <=> Posting(w, o))
      /\ \A w \in Runs, o \in Orders : AtPost(w, o)' <=> AtPost(w, o)
      /\ \A o \in Orders : (Untroubled(o)' <=> Untroubled(o)) /\ (Exists(o)' <=> Exists(o))
  BY <1>1 DEF Has, Posting, AtPost, Untroubled, Exists
<1>4. TypeOK' /\ OrderAtHand' /\ Posted' /\ RecordsAreTrue'
  BY <1>1 DEF IInv, TypeOK, OrderAtHand, Posted, RecordsAreTrue
<1>5. NotYet' /\ Listed' /\ PoolStaysOut'
  <2>1. NotYet'
    BY <1>1, <1>2, <1>3 DEF IInv, NotYet
  <2>2. Listed'
    BY <1>1, <1>3 DEF IInv, Listed
  <2>3. PoolStaysOut'
    BY <1>1, <1>2 DEF IInv, PoolStaysOut
  <2> QED BY <2>1, <2>2, <2>3
<1>6. PostedOnce' /\ BarredAlone'
  <2>1. ASSUME NEW o \in Orders, o # p PROVE PostedOnceOf(o)'
    <3>1. slips'[o] = slips[o] /\ inFlight'[o] = inFlight[o] /\ order' = order
      BY <1>1, <2>1
    <3> QED BY <3>1, <1>3 DEF IInv, PostedOnce, PostedOnceOf
  <2>2. PostedOnceOf(p)'
    BY <1>2, <1>3 DEF PostedOnceOf
  <2>3. BarredAlone'
    BY <1>1, <1>2, <1>3 DEF IInv, TypeOK, BarredAlone
  <2> QED BY <2>1, <2>2, <2>3 DEF PostedOnce
<1> QED BY <1>4, <1>5, <1>6 DEF IInv

\* After a restart nobody has an order, and those that were being posted are in
\* doubt.
LEMMA CrashKeepsIInv ==
  ASSUME IInv, Crash
  PROVE  IInv'
<1>1. /\ UNCHANGED <<order, slips, barred>> /\ run' = [w \in Runs |-> IdleRun]
      /\ request' = [r \in Requests |-> Idle]
      /\ trouble' = [o \in Orders |-> trouble[o]
                        \cup {t \in {"doubtful"} : \E w \in Runs : Posting(w, o)}
                        \cup {t \in {"unsent"} : \E w \in Runs : Has(w, o) /\ ~Posting(w, o)}]
  BY DEF Crash
<1>2. /\ inFlight' \in [Orders -> 0..MaxInFlight]
      /\ \A o \in Orders : inFlight'[o] = inFlight[o] \/ \E w \in Runs : Posting(w, o) /\ Has(w, o)
  <2>1. PICK sent \in SUBSET {o \in Orders : inFlight[o] < MaxInFlight
                                 /\ \E w \in Runs : run[w].pc = "post" /\ run[w].order = o} :
          inFlight' = [o \in Orders |-> IF o \in sent THEN inFlight[o] + 1 ELSE inFlight[o]]
    BY DEF Crash
  <2>2. \A o \in sent : inFlight[o] + 1 \in 0..MaxInFlight /\ \E w \in Runs : Posting(w, o) /\ Has(w, o)
    BY LimitsAssumption DEF IInv, TypeOK, Posting, Has
  <2> QED BY <2>1, <2>2 DEF IInv, TypeOK
<1>3. \A w \in Runs : run'[w] = IdleRun /\ IdleRun \in RunRec /\ IdleRun.pc = "idle"
  BY <1>1, LimitsAssumption DEF IdleRun, RunRec, RunPc
<1>4. \A w \in Runs, o \in Orders : ~Has(w, o)' /\ ~Posting(w, o)' /\ ~AtPost(w, o)'
  BY <1>3 DEF Has, Posting, AtPost
<1>5. TypeOK'
  <2>1. trouble' \in [Orders -> SUBSET Troubles]
    BY <1>1 DEF IInv, TypeOK, Troubles
  <2>2. run' \in [Runs -> RunRec] /\ request' \in [Requests -> RequestRec]
    BY <1>1, <1>3 DEF Idle, RequestRec, Status
  <2> QED BY <1>1, <1>2, <2>1, <2>2 DEF IInv, TypeOK
<1>6. OrderAtHand' /\ Posted' /\ Listed' /\ RecordsAreTrue'
  BY <1>1, <1>3, <1>4 DEF IInv, OrderAtHand, Posted, Listed, RecordsAreTrue
<1>7. NotYet' /\ PoolStaysOut' /\ BarredAlone'
  BY <1>1, <1>2, <1>4 DEF IInv, TypeOK, NotYet, PoolStaysOut, BarredAlone, Listed, Exists
<1>8. PostedOnce'
  <2> SUFFICES ASSUME NEW o \in Orders, Untroubled(o)' PROVE PostedOnceOf(o)'
    BY DEF PostedOnce, PostedOnceOf
  <2>1. Untroubled(o) /\ \A w \in Runs : ~Posting(w, o)
    BY <1>1 DEF Untroubled
  <2> QED BY <1>1, <1>2, <1>4, <2>1 DEF IInv, PostedOnce, PostedOnceOf
<1> QED BY <1>5, <1>6, <1>7, <1>8 DEF IInv

-----------------------------------------------------------------------------
(* The theorems *)

\* There are no orders at first.
LEMMA InitEstablishes == Init => IInv
<1> SUFFICES ASSUME Init PROVE IInv
  OBVIOUS
<1>1. NoRow \in Row /\ Idle \in RequestRec /\ IdleRun \in RunRec /\ IdleRun.pc = "idle"
        /\ NoRow.logo = "PENDING" /\ NoRow.synced = FALSE
  BY LimitsAssumption DEF NoRow, Row, Idle, RequestRec, IdleRun, RunRec, RunPc, Status, LogoStatus
<1>2. TypeOK
  BY <1>1, LimitsAssumption DEF Init, TypeOK
<1>3. \A w \in Runs, o \in Orders : ~Has(w, o) /\ ~Posting(w, o) /\ ~AtPost(w, o)
  BY <1>1 DEF Init, Has, Posting, AtPost
<1>4. OrderAtHand /\ Posted /\ Listed /\ BarredAlone
  BY <1>1, <1>3 DEF Init, OrderAtHand, Posted, Listed, BarredAlone
<1>5. NotYet /\ PoolStaysOut /\ RecordsAreTrue
  BY <1>1 DEF Init, NotYet, PoolStaysOut, RecordsAreTrue
<1>6. PostedOnce
  BY <1>3 DEF Init, PostedOnce, PostedOnceOf
<1> QED BY <1>2, <1>4, <1>5, <1>6 DEF IInv

\* Every step of a run keeps the invariant.
LEMMA RunKeepsIInv ==
  ASSUME IInv, NEW w \in Runs, Fetched(w) \/ Import(w) \/ List(w) \/ Export(w)
  PROVE  IInv'
<1>1. CASE Fetched(w)
  <2>1. PICK batch \in (SUBSET Market) \ {{}} : Continue(w, "look", batch)
    BY <1>1 DEF Fetched
  <2>2. Turns(w, {"idle", "look"}, batch, NONE)
    BY <2>1, MarketAssumption, ContinueTurns DEF IInv, RunPc
  <2> QED BY <1>1, <2>2, ImportKeepsIInv DEF Fetched
<1>2. ASSUME NEW o \in Orders, Look(w, o) PROVE IInv'
  <2>1. run[w].pc = "look" /\ UNCHANGED <<order, slips, inFlight, request, barred, trouble>>
    BY <1>2 DEF Look
  <2>2. run[w].todo \ {o} \in SUBSET Orders
    BY DEF IInv, TypeOK, RunRec
  <2>3. Turns(w, {"idle", "look"}, run[w].todo \ {o}, NONE) \/ Turns(w, {"insert"}, run[w].todo \ {o}, o)
    BY <1>2, <2>2, ContinueTurns, TakeTurns DEF Look, IInv, RunPc
  <2> QED BY <2>1, <2>3, ImportKeepsIInv
<1>3. CASE InsertFails(w)
  BY <1>3, IdleTurns, ImportKeepsIInv DEF InsertFails, IInv
<1> QED
  BY <1>1, <1>2, <1>3, ImportInserts, ListKeepsIInv, CheckKeepsIInv, CheckFailsKeepsIInv,
     TouchKeepsIInv, PostKeepsIInv, TimeoutKeepsIInv, RefusedKeepsIInv, MarkKeepsIInv,
     RecordKeepsIInv, WriteFailsKeepsIInv
  DEF Import, Export

\* A step that changes nothing keeps it.
LEMMA StutterKeepsIInv == IInv /\ UNCHANGED vars => IInv'
<1> SUFFICES ASSUME IInv, UNCHANGED vars PROVE IInv'
  OBVIOUS
<1>1. TypeOK' /\ OrderAtHand' /\ NotYet' /\ Posted' /\ PoolStaysOut' /\ RecordsAreTrue'
  BY DEF vars, IInv, TypeOK, OrderAtHand, NotYet, Posted, PoolStaysOut, RecordsAreTrue, Exists
<1>2. Listed' /\ PostedOnce' /\ BarredAlone'
  BY DEF vars, IInv, Listed, PostedOnce, PostedOnceOf, BarredAlone, Has, Posting, AtPost, Exists, Untroubled
<1> QED BY <1>1, <1>2 DEF IInv

\* Every step keeps the invariant.
LEMMA Inductive == IInv /\ [Next]_vars => IInv'
BY RunKeepsIInv, GetKeepsIInv, WriteKeepsIInv, CreateKeepsIInv, ArriveKeepsIInv, CrashKeepsIInv,
   StutterKeepsIInv DEF Next, User

\* So it always holds.
LEMMA Invariance == Spec => []IInv
BY InitEstablishes, Inductive, PTL DEF Spec

\* Orders, runs and requests keep their types: in particular no request is sent
\* more often than the client's limit.
THEOREM TypeCorrect == Spec => []TypeOK
BY Invariance, PTL DEF IInv

\* No order of the pool ever gets to the ERP.
THEOREM PoolNeverExported == Spec => []PoolStaysOut
BY Invariance, PTL DEF IInv

\* What is marked as exported was exported.
THEOREM RecordsAlwaysTrue == Spec => []RecordsAreTrue
BY Invariance, PTL DEF IInv

\* The ERP gets an order at most once until a request for it gets no answer, the
\* record of its export is not written, or two runs are posting it at once.
THEOREM NotTwice == Spec => []ExportedOnceUnlessTroubled
<1>1. IInv => ExportedOnceUnlessTroubled
  BY DEF IInv, TypeOK, PostedOnce, PostedOnceOf, Untroubled, ExportedOnceUnlessTroubled
<1> QED BY <1>1, Invariance, PTL

\* An order that was cancelled while no run had it stays cancelled and unposted
\* until a user sets another status.
THEOREM CancelStands == Spec => CancelIsFinal
<1>1. IInv /\ [Next]_vars =>
        [\A o \in barred \cap barred' : slips'[o] = slips[o] /\ order'[o].status = "cancelled"]_vars
  <2> SUFFICES ASSUME IInv, [Next]_vars, NEW o \in barred, o \in barred'
               PROVE  slips'[o] = slips[o] /\ order'[o].status = "cancelled"
    OBVIOUS
  <2>1. /\ o \in Orders /\ order[o].status = "cancelled" /\ inFlight[o] = 0
        /\ \A w \in Runs : ~Has(w, o)
    BY DEF IInv, TypeOK, BarredAlone
  <2>2. ASSUME NEW w \in Runs, Import(w) \/ Fetched(w) \/ List(w) PROVE slips'[o] = slips[o] /\ order'[o] = order[o]
    BY <2>1, <2>2 DEF Import, Fetched, List, Look, Insert, InsertFails, Exists, IInv, TypeOK
  <2>3. ASSUME NEW w \in Runs, Export(w) PROVE slips'[o] = slips[o] /\ order'[o] = order[o]
    <3>1. run[w].pc \in {"touch", "post", "mark", "record"} => run[w].order # o
      BY <2>1 DEF Has
    <3> QED
      BY <2>1, <2>3, <3>1
      DEF Export, Check, CheckFails, Touch, Post, Timeout, Refused, Mark, Record, WriteFails, IInv, TypeOK
  <2>4. ASSUME NEW r \in Requests, User(r) PROVE slips'[o] = slips[o] /\ order'[o].status = "cancelled"
    <3>1. CASE Write(r)
      <4>1. CASE request[r].order = o
        <5>1. request[r].status = "cancelled"
          BY <3>1, <4>1 DEF Write
        <5> QED BY <2>1, <3>1, <4>1, <5>1 DEF Write, IInv, TypeOK, Row
      <4>2. CASE request[r].order # o
        BY <2>1, <3>1, <4>2 DEF Write, IInv, TypeOK
      <4> QED BY <4>1, <4>2
    <3> QED BY <2>1, <2>4, <3>1 DEF User, Get
  <2>5. ASSUME NEW p \in Orders, Create(p) \/ Arrive(p) PROVE slips'[o] = slips[o] /\ order'[o] = order[o]
    BY <2>1, <2>5 DEF Create, Arrive, Exists, IInv, TypeOK
  <2>6. CASE Crash \/ UNCHANGED vars
    BY <2>1, <2>6 DEF Crash, vars
  <2> QED BY <2>1, <2>2, <2>3, <2>4, <2>5, <2>6 DEF Next
<1> QED BY <1>1, Invariance, PTL DEF Spec, CancelIsFinal

=============================================================================
