------------------------------ MODULE OrderDesk ------------------------------
(***************************************************************************)
(* The orders of a store as users handle them: created under idempotency    *)
(* keys, moved from status to status, cancelled and refunded, each with an  *)
(* entry in the timeline.  A request reads the order first and writes it in *)
(* a transaction afterwards; requests overlap, and the worker exports.      *)
(***************************************************************************)
EXTENDS Integers

CONSTANTS
  OrderKeys,     \* idempotency keys; an order is known by its key
  Attendants,    \* concurrent requests (a bound)
  MaxDeskCalls,  \* requests in all (a bound)
  Patches,       \* what status updates may carry (a bound)
  SAME           \* a field the request does not carry

VARIABLES
  order,      \* order[k]: the order stored under key k
  told,       \* told[k]: the status and payment the timeline ends with
  torn,       \* torn[k]: an entry whose old value is not the new one of the last
  attendant,  \* attendant[u]: what a request has read
  deskCalls,  \* requests begun
  excuses     \* history: excuses[k], why the timeline may be wrong

deskVars == <<order, told, torn, attendant, deskCalls, excuses>>

-----------------------------------------------------------------------------
(* Types *)

DeskStatuses == {"pending", "processing", "cancelled"}
Payments     == {"pending", "paid", "refunded"}
Fulfilments  == {"unfulfilled", "fulfilled", "returned"}
Order        == [exists : BOOLEAN, status : DeskStatuses, payment : Payments,
                 fulfilment : Fulfilments]
NotCreated   == [exists |-> FALSE, status |-> "pending", payment |-> "pending",
                 fulfilment |-> "unfulfilled"]
Patch        == [status : DeskStatuses \cup {SAME}, payment : Payments \cup {SAME},
                 fulfilment : Fulfilments \cup {SAME}]
NoPatch      == [status |-> SAME, payment |-> SAME, fulfilment |-> SAME]

ASSUME DeskAssumption ==
  MaxDeskCalls \in Nat /\ Patches \subseteq Patch /\ SAME \notin DeskStatuses \cup Payments \cup Fulfilments

\* repeats: the order was there when the request to create it came in.
Attendant == [stage : {"idle", "look", "insert", "refused", "write"}, op : {"none", "status", "cancel", "refund"},
              key : OrderKeys \cup {SAME}, seen : Order, patch : Patch, repeats : BOOLEAN]
Nobody == [stage |-> "idle", op |-> "none", key |-> SAME, seen |-> NotCreated,
           patch |-> NoPatch, repeats |-> FALSE]

DeskTypeOK ==
  /\ order \in [OrderKeys -> Order]
  /\ told \in [OrderKeys -> [status : DeskStatuses, payment : Payments]]
  /\ torn \in [OrderKeys -> BOOLEAN]
  /\ attendant \in [Attendants -> Attendant]
  /\ deskCalls \in 0..MaxDeskCalls
  /\ excuses \in [OrderKeys -> SUBSET {"overlap", "exported"}]

Attend(u, request) ==
  /\ attendant[u] = Nobody /\ deskCalls < MaxDeskCalls
  /\ deskCalls' = deskCalls + 1
  /\ attendant' = [attendant EXCEPT ![u] = request]
  /\ UNCHANGED <<order, told, torn, excuses>>

StepsAway(u) == attendant' = [attendant EXCEPT ![u] = Nobody]

-----------------------------------------------------------------------------
(* Creation *)

AskForOrder(u, k) ==
  Attend(u, [Nobody EXCEPT !.stage = "look", !.key = k, !.repeats = order[k].exists])

\* Mutant: create() does not look the key up.
LookNowhere(u) ==
  /\ attendant[u].stage = "look"
  /\ attendant' = [attendant EXCEPT ![u].stage = "insert"]
  /\ UNCHANGED <<order, told, torn, deskCalls, excuses>>

\* The order of the key, if any, is the answer.
Look(u) ==
  /\ attendant[u].stage = "look"
  /\ IF order[attendant[u].key].exists THEN StepsAway(u)
     ELSE attendant' = [attendant EXCEPT ![u].stage = "insert"]
  /\ UNCHANGED <<order, told, torn, deskCalls, excuses>>

\* The products are priced and the order is stored with the first entry of its
\* timeline; the unique key refuses a second one.
Insert(u) ==
  LET k == attendant[u].key IN
  /\ attendant[u].stage = "insert"
  /\ IF order[k].exists
     THEN attendant' = [attendant EXCEPT ![u].stage = "refused"] /\ UNCHANGED order
     ELSE order' = [order EXCEPT ![k].exists = TRUE] /\ StepsAway(u)
  /\ UNCHANGED <<told, torn, deskCalls, excuses>>

-----------------------------------------------------------------------------
(* Changes *)

\* get(): the order as it is now.
Open(u, op, k, patch) ==
  /\ order[k].exists
  /\ op = "cancel" => order[k].status # "cancelled"
  /\ op = "refund" => order[k].payment # "refunded"
  /\ Attend(u, [Nobody EXCEPT !.stage = "write", !.op = op, !.key = k, !.seen = order[k], !.patch = patch])

\* What a request changes of the order it has read: nothing that is the same.
Differs(new, old) == IF new = old THEN SAME ELSE new
Changes(u) ==
  LET seen == attendant[u].seen  patch == attendant[u].patch IN
  CASE attendant[u].op = "cancel" -> [status |-> "cancelled", payment |-> SAME, fulfilment |-> "returned"]
    [] attendant[u].op = "refund" -> [status |-> SAME, payment |-> "refunded", fulfilment |-> SAME]
    [] OTHER -> [status |-> Differs(patch.status, seen.status),
                 payment |-> Differs(patch.payment, seen.payment),
                 fulfilment |-> Differs(patch.fulfilment, seen.fulfilment)]

Over(new, old) == IF new = SAME THEN old ELSE new

\* Mutant: the timeline is told the request, not what it changes.
TellRequest(k, changes, seen, patch) ==
  /\ told' = [told EXCEPT ![k] = [status |-> Over(patch.status, @.status),
                                  payment |-> Over(patch.payment, @.payment)]]
  /\ torn' = [torn EXCEPT ![k] = @ \/ seen.status # told[k].status \/ seen.payment # told[k].payment]

\* An entry for each change, from the value read to the new one.
Tell(k, changes, seen, patch) ==
  /\ told' = [told EXCEPT ![k] = [status |-> Over(changes.status, @.status),
                                  payment |-> Over(changes.payment, @.payment)]]
  /\ torn' = [torn EXCEPT ![k] =
       \/ @
       \/ changes.status # SAME /\ seen.status # told[k].status
       \/ changes.payment # SAME /\ seen.payment # told[k].payment]

\* One transaction: the changed fields and their entries.
WriteOrder(u) ==
  LET k == attendant[u].key  seen == attendant[u].seen  changes == Changes(u) IN
  /\ attendant[u].stage = "write"
  /\ order' = [order EXCEPT ![k] =
       [exists |-> TRUE, status |-> Over(changes.status, @.status),
        payment |-> Over(changes.payment, @.payment),
        fulfilment |-> Over(changes.fulfilment, @.fulfilment)]]
  /\ Tell(k, changes, seen, attendant[u].patch)
  /\ excuses' = [excuses EXCEPT ![k] = IF seen = order[k] THEN @ ELSE @ \cup {"overlap"}]
  /\ StepsAway(u)
  /\ UNCHANGED deskCalls

\* A query fails, or a refused request is answered with the database's error.
NotDone(u) ==
  /\ attendant[u] # Nobody
  /\ StepsAway(u)
  /\ UNCHANGED <<order, told, torn, deskCalls, excuses>>

\* The worker exports the order: it found it pending, which every order is once,
\* and writes whatever has become of it; its entry does not name the status.
MarkProcessing(k) ==
  /\ order[k].exists
  /\ order' = [order EXCEPT ![k].status = "processing"]
  /\ excuses' = [excuses EXCEPT ![k] = @ \cup {"exported"}]
  /\ UNCHANGED <<told, torn, attendant, deskCalls>>

DeskInit ==
  /\ order = [k \in OrderKeys |-> NotCreated]
  /\ told = [k \in OrderKeys |-> [status |-> "pending", payment |-> "pending"]]
  /\ torn = [k \in OrderKeys |-> FALSE]
  /\ attendant = [u \in Attendants |-> Nobody]
  /\ deskCalls = 0
  /\ excuses = [k \in OrderKeys |-> {}]

DeskNext ==
  \/ \E u \in Attendants :
       \/ \E k \in OrderKeys :
            \/ AskForOrder(u, k)
            \/ \E op \in {"cancel", "refund"} : Open(u, op, k, NoPatch)
            \/ \E patch \in Patches : Open(u, "status", k, patch)
       \/ Look(u) \/ Insert(u) \/ WriteOrder(u) \/ NotDone(u)
  \/ \E k \in OrderKeys : MarkProcessing(k)

DeskSpec == DeskInit /\ [][DeskNext]_deskVars

-----------------------------------------------------------------------------
(* Properties *)

\* The timeline ends with the status and the payment the order has and no entry
\* starts from anything but the last one, unless two changes of the order
\* overlapped or the worker exported it.
TimelineTells ==
  \A k \in OrderKeys : excuses[k] = {} =>
    /\ told[k] = [status |-> order[k].status, payment |-> order[k].payment]
    /\ ~torn[k]

\* create() answers a repeated request with the order; only a request that
\* overlaps the first one is refused by the database.
RepeatIsAnswered == \A u \in Attendants : attendant[u].stage = "refused" => ~attendant[u].repeats

=============================================================================
