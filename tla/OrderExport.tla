----------------------------- MODULE OrderExport -----------------------------
(***************************************************************************)
(* The way of an order to the ERP: orders are created by hand or imported  *)
(* from a marketplace by runs of the sync worker, users change their        *)
(* status, and runs for the ERP integration list the open ones, post each   *)
(* as a sales order over HTTP, and record that they have.                   *)
(*                                                                          *)
(* The orders of one agency with one ERP integration.  A run is a call of   *)
(* processJob; two jobs of one integration may overlap.  When a run starts, *)
(* and that it is delivered more than once, is the matter of IntegrationSync: *)
(* here it may start at any time.                                           *)
(***************************************************************************)
EXTENDS Naturals, FiniteSets

CONSTANTS
  Orders,       \* the order numbers
  Market,       \* those the marketplace reports
  Runs,         \* concurrent runs of the worker (a bound)
  Requests,     \* concurrent requests of users (a bound)
  Retries,      \* how often the HTTP client sends a request at most
  MaxInFlight,  \* requests it has given up on, per order (a bound)
  Many,         \* sales orders are counted up to this number (a bound)
  Faults,       \* the kinds of fault this environment can produce
  NONE          \* no order

FaultKinds == {"crash", "dbWrite", "timeout", "refused"}

ASSUME MarketAssumption == Market \subseteq Orders
ASSUME LimitsAssumption == Retries \in Nat \ {0} /\ MaxInFlight \in Nat /\ Many \in Nat \ {0, 1}
ASSUME FaultAssumption  == Faults \subseteq FaultKinds
ASSUME NoneAssumption   == NONE \notin Orders

VARIABLES
  order,        \* order[o]: the row of the order, with its erp_synced event
  slips,        \* slips[o]: how many sales orders the ERP has for it
  inFlight,     \* inFlight[o]: requests the client gave up on, which may still arrive
  run,          \* run[w]: what a run of the worker does
  request,      \* request[r]: what a user's request has read
  barred,       \* history: orders that were cancelled while no run had them
  trouble       \* history: trouble[o]: what has gone wrong with order o

vars == <<order, slips, inFlight, run, request, barred, trouble>>

-----------------------------------------------------------------------------
(* Types *)

\* "closed" stands for every status the ERP run does not ask for: shipped,
\* delivered, and any other string a user may set.
Status     == {"pending", "processing", "closed", "cancelled"}
LogoStatus == {"PENDING", "SYNCED", "BYPASSED_POOL"}
Row        == [status : Status \cup {"absent"}, pool : BOOLEAN, logo : LogoStatus, synced : BOOLEAN]
NoRow      == [status |-> "absent", pool |-> FALSE, logo |-> "PENDING", synced |-> FALSE]

\* todo: the orders still to be handled, order: the one at hand, attempts: how
\* often its request has failed.
RunPc      == {"idle", "look", "insert", "check", "touch", "post", "mark", "record"}
RunRec     == [pc : RunPc, todo : SUBSET Orders, order : Orders \cup {NONE}, attempts : 0..(Retries - 1)]
IdleRun    == [pc |-> "idle", todo |-> {}, order |-> NONE, attempts |-> 0]

RequestRec == [order : Orders \cup {NONE}, status : Status]
Idle       == [order |-> NONE, status |-> "pending"]

\* doubtful: the order was or may have been posted, and its run does not know or
\* could not record it; unsent: a run gave it up, or was cut off, before the ERP
\* took it; overlap: two runs were posting it.
Troubles   == {"doubtful", "unsent", "overlap"}

TypeOK ==
  /\ order    \in [Orders -> Row]
  /\ slips    \in [Orders -> 0..Many]
  /\ inFlight \in [Orders -> 0..MaxInFlight]
  /\ run      \in [Runs -> RunRec]
  /\ request  \in [Requests -> RequestRec]
  /\ barred   \in SUBSET Orders
  /\ trouble  \in [Orders -> SUBSET Troubles]

-----------------------------------------------------------------------------
Init ==
  /\ order    = [o \in Orders |-> NoRow]
  /\ slips    = [o \in Orders |-> 0]
  /\ inFlight = [o \in Orders |-> 0]
  /\ run      = [w \in Runs |-> IdleRun]
  /\ request  = [r \in Requests |-> Idle]
  /\ barred   = {}
  /\ trouble  = [o \in Orders |-> {}]

-----------------------------------------------------------------------------
(* Helpers *)

Exists(o) == order[o].status # "absent"

\* The runs that are posting o, or have posted it and are to record it.
Posting(w, o) == run[w].pc \in {"post", "mark", "record"} /\ run[w].order = o

\* The runs that have o on their list for the ERP, or in their hands.
Has(w, o) ==
  \/ run[w].pc \in {"touch", "post", "mark", "record"} /\ run[w].order = o
  \/ run[w].pc \in {"check", "touch", "post", "mark", "record"} /\ o \in run[w].todo

Blame(o, what) == trouble' = [trouble EXCEPT ![o] = @ \cup {what}]

\* The loop goes on with the orders that are left, in whichever order the
\* database or the marketplace returned them.
Continue(w, pc, rest) ==
  run' = [run EXCEPT ![w] = IF rest = {} THEN IdleRun
                            ELSE [pc |-> pc, todo |-> rest, order |-> NONE, attempts |-> 0]]

\* Mutant: an order the ERP fails to take ends the run.
StopAll(w) == run' = [run EXCEPT ![w] = IdleRun]

NextExport(w) == Continue(w, "check", run[w].todo)

\* The order at hand.
Take(w, pc, o) ==
  run' = [run EXCEPT ![w] = [pc |-> pc, todo |-> @.todo \ {o}, order |-> o, attempts |-> 0]]

Counted(n) == IF n < Many THEN n + 1 ELSE n

-----------------------------------------------------------------------------
(* Orders come into being *)

\* The mode of the store at that time: POOL_ONLY, MANUAL_APPROVAL or LOGO_SYNC.
\* The store's row is read just before the insert; a change of the mode between
\* the two could as well have come after both.
New == {[NoRow EXCEPT !.status = "pending", !.pool = TRUE, !.logo = "BYPASSED_POOL"],
        [NoRow EXCEPT !.status = "pending", !.pool = TRUE],
        [NoRow EXCEPT !.status = "pending"]}

\* OrderService.create(), in one transaction.
Create(o) ==
  /\ o \notin Market
  /\ ~Exists(o)
  /\ \E row \in New : order' = [order EXCEPT ![o] = row]
  /\ UNCHANGED <<slips, inFlight, run, request, barred, trouble>>

\* sync_orders of a marketplace integration: getOrders() has answered.
Fetched(w) ==
  /\ run[w].pc = "idle"
  /\ \E batch \in (SUBSET Market) \ {{}} : Continue(w, "look", batch)
  /\ UNCHANGED <<order, slips, inFlight, request, barred, trouble>>

\* An order that exists already is skipped.
Look(w, o) ==
  /\ run[w].pc = "look"
  /\ o \in run[w].todo
  /\ IF Exists(o) THEN Continue(w, "look", run[w].todo \ {o}) ELSE Take(w, "insert", o)
  /\ UNCHANGED <<order, slips, inFlight, request, barred, trouble>>

Insert(w) ==
  LET o == run[w].order IN
  /\ run[w].pc = "insert"
  /\ ~Exists(o)
  /\ \E row \in New : order' = [order EXCEPT ![o] = row]
  /\ Continue(w, "look", run[w].todo)
  /\ UNCHANGED <<slips, inFlight, request, barred, trouble>>

\* The insert throws, because orderNumber is unique and another run was faster,
\* or for another reason: the whole run ends.
InsertFails(w) ==
  /\ run[w].pc = "insert"
  /\ Exists(run[w].order) \/ "dbWrite" \in Faults
  /\ run' = [run EXCEPT ![w] = IdleRun]
  /\ UNCHANGED <<order, slips, inFlight, request, barred, trouble>>

-----------------------------------------------------------------------------
(* sync_products of the ERP integration, after the products: the export *)

\* Mutant: the list is not restricted by status.
WantedAnyStatus(o) == Exists(o) /\ ~order[o].pool /\ order[o].logo = "PENDING"

\* Mutant: the list is not restricted to orders outside the pool.
WantedPool(o) == order[o].status \in {"pending", "processing"} /\ order[o].logo = "PENDING"

\* The orders findMany() asks for; no code writes the FAILED it also asks for.
Wanted(o) ==
  /\ order[o].status \in {"pending", "processing"}
  /\ ~order[o].pool
  /\ order[o].logo = "PENDING"

List(w) ==
  /\ run[w].pc = "idle"
  /\ \E o \in Orders : Wanted(o)
  /\ Continue(w, "check", {o \in Orders : Wanted(o)})
  /\ UNCHANGED <<order, slips, inFlight, request, barred, trouble>>

\* Mutant: the idempotency check finds nothing.
CheckNothing(w, o) ==
  /\ run[w].pc = "check"
  /\ o \in run[w].todo
  /\ Take(w, "post", o)
  /\ IF \E v \in Runs \ {w} : Posting(v, o) THEN Blame(o, "overlap") ELSE UNCHANGED trouble
  /\ UNCHANGED <<order, slips, inFlight, request, barred>>

\* The idempotency check, by the erp_synced event of the timeline.
Check(w, o) ==
  /\ run[w].pc = "check"
  /\ o \in run[w].todo
  /\ Take(w, IF order[o].synced THEN "touch" ELSE "post", o)
  /\ IF ~order[o].synced /\ \E v \in Runs \ {w} : Posting(v, o)
     THEN Blame(o, "overlap") ELSE UNCHANGED trouble
  /\ UNCHANGED <<order, slips, inFlight, request, barred>>

\* The check, or the look-up of a product's stock code, throws.
CheckFails(w, o) ==
  /\ "dbWrite" \in Faults
  /\ run[w].pc = "check"
  /\ o \in run[w].todo
  /\ Continue(w, "check", run[w].todo \ {o})
  /\ Blame(o, "unsent")
  /\ UNCHANGED <<order, slips, inFlight, request, barred>>

\* It was exported since the list was read: only the status is written.
Touch(w) ==
  /\ run[w].pc = "touch"
  /\ order' = [order EXCEPT ![run[w].order].status = "processing"]
  /\ NextExport(w)
  /\ UNCHANGED <<slips, inFlight, request, barred, trouble>>

\* createSalesOrder(): the ERP takes the order and the answer arrives.
Post(w) ==
  LET o == run[w].order IN
  /\ run[w].pc = "post"
  /\ slips' = [slips EXCEPT ![o] = Counted(@)]
  /\ run' = [run EXCEPT ![w].pc = "mark"]
  /\ UNCHANGED <<order, inFlight, request, barred, trouble>>

\* Mutant: a request that timed out counts as one that was answered.
TimeoutIsSuccess(w) ==
  LET o == run[w].order IN
  /\ "timeout" \in Faults
  /\ run[w].pc = "post"
  /\ inFlight[o] < MaxInFlight
  /\ inFlight' = [inFlight EXCEPT ![o] = @ + 1]
  /\ Blame(o, "doubtful")
  /\ run' = [run EXCEPT ![w].pc = "mark"]
  /\ UNCHANGED <<order, slips, request, barred>>

\* Mutant: the client counts its attempts wrong.
TimeoutOnceMore(w) ==
  LET o == run[w].order IN
  /\ "timeout" \in Faults
  /\ run[w].pc = "post"
  /\ inFlight[o] < MaxInFlight
  /\ inFlight' = [inFlight EXCEPT ![o] = @ + 1]
  /\ Blame(o, "doubtful")
  /\ IF run[w].attempts < Retries THEN run' = [run EXCEPT ![w].attempts = @ + 1] ELSE NextExport(w)
  /\ UNCHANGED <<order, slips, request, barred>>

\* No answer in time, a network error or a server error: the request, which the
\* ERP may take after all, is sent again, until the client gives up and throws.
Timeout(w) ==
  LET o == run[w].order IN
  /\ "timeout" \in Faults
  /\ run[w].pc = "post"
  /\ inFlight[o] < MaxInFlight
  /\ inFlight' = [inFlight EXCEPT ![o] = @ + 1]
  /\ Blame(o, "doubtful")
  /\ IF run[w].attempts + 1 < Retries THEN run' = [run EXCEPT ![w].attempts = @ + 1] ELSE NextExport(w)
  /\ UNCHANGED <<order, slips, request, barred>>

\* The ERP refuses it: 429 is retried, any other client error is thrown at once.
Refused(w) ==
  LET o == run[w].order IN
  /\ "refused" \in Faults
  /\ run[w].pc = "post"
  /\ Blame(o, "unsent")
  /\ \/ run[w].attempts + 1 < Retries /\ run' = [run EXCEPT ![w].attempts = @ + 1]
     \/ NextExport(w)
  /\ UNCHANGED <<order, slips, inFlight, request, barred>>

Mark(w) ==
  /\ run[w].pc = "mark"
  /\ order' = [order EXCEPT ![run[w].order] = [@ EXCEPT !.status = "processing", !.logo = "SYNCED"]]
  /\ run' = [run EXCEPT ![w].pc = "record"]
  /\ UNCHANGED <<slips, inFlight, request, barred, trouble>>

Record(w) ==
  /\ run[w].pc = "record"
  /\ order' = [order EXCEPT ![run[w].order].synced = TRUE]
  /\ NextExport(w)
  /\ UNCHANGED <<slips, inFlight, request, barred, trouble>>

\* A write throws; the loop logs the error and goes on with the next order.
WriteFails(w) ==
  /\ "dbWrite" \in Faults
  /\ run[w].pc \in {"touch", "mark", "record"}
  /\ NextExport(w)
  /\ IF run[w].pc = "touch" THEN UNCHANGED trouble ELSE Blame(run[w].order, "doubtful")
  /\ UNCHANGED <<order, slips, inFlight, request, barred>>

-----------------------------------------------------------------------------
(* Users *)

\* updateStatus() and cancel() read the order and refuse the status it has ...
Get(r, o, status) ==
  /\ request[r] = Idle
  /\ Exists(o) /\ order[o].status # status
  /\ request' = [request EXCEPT ![r] = [order |-> o, status |-> status]]
  /\ UNCHANGED <<order, slips, inFlight, run, barred, trouble>>

\* ... and write the new one by id, whatever it is by then.
Write(r) ==
  LET o == request[r].order IN
  /\ o # NONE
  /\ order' = [order EXCEPT ![o].status = request[r].status]
  /\ barred' = IF request[r].status # "cancelled" THEN barred \ {o}
               ELSE IF inFlight[o] = 0 /\ \A w \in Runs : ~Has(w, o) THEN barred \cup {o}
               ELSE barred
  /\ request' = [request EXCEPT ![r] = Idle]
  /\ UNCHANGED <<slips, inFlight, run, trouble>>

-----------------------------------------------------------------------------
(* The environment *)

\* A request the client gave up on is taken by the ERP after all, or is lost.
Arrive(o) ==
  /\ inFlight[o] > 0
  /\ inFlight' = [inFlight EXCEPT ![o] = @ - 1]
  /\ slips' \in {slips, [slips EXCEPT ![o] = Counted(@)]}
  /\ UNCHANGED <<order, run, request, barred, trouble>>

\* The process restarts: the requests it was sending may still arrive.
Crash ==
  /\ "crash" \in Faults
  /\ \E sent \in SUBSET {o \in Orders : inFlight[o] < MaxInFlight /\ \E w \in Runs : run[w].pc = "post" /\ run[w].order = o} :
       inFlight' = [o \in Orders |-> IF o \in sent THEN inFlight[o] + 1 ELSE inFlight[o]]
  /\ trouble' = [o \in Orders |-> trouble[o]
                    \cup {t \in {"doubtful"} : \E w \in Runs : Posting(w, o)}
                    \cup {t \in {"unsent"} : \E w \in Runs : Has(w, o) /\ ~Posting(w, o)}]
  /\ run' = [w \in Runs |-> IdleRun]
  /\ request' = [r \in Requests |-> Idle]
  /\ UNCHANGED <<order, slips, barred>>

-----------------------------------------------------------------------------
(* The specification *)

Export(w) ==
  \/ \E o \in Orders : Check(w, o) \/ CheckFails(w, o)
  \/ Touch(w) \/ Post(w) \/ Timeout(w) \/ Refused(w) \/ Mark(w) \/ Record(w) \/ WriteFails(w)

Import(w) == (\E o \in Orders : Look(w, o)) \/ Insert(w) \/ InsertFails(w)

User(r) == (\E o \in Orders, status \in Status : Get(r, o, status)) \/ Write(r)

Next ==
  \/ \E w \in Runs : Fetched(w) \/ Import(w) \/ List(w) \/ Export(w)
  \/ \E r \in Requests : User(r)
  \/ \E o \in Orders : Create(o) \/ Arrive(o)
  \/ Crash

Spec == Init /\ [][Next]_vars

\* An awaited database call settles, and the HTTP client aborts a request that
\* does not: a run goes on.  Nobody has to start one.
FairSpec == Spec /\ \A w \in Runs : WF_vars(Export(w)) /\ WF_vars(Import(w))

-----------------------------------------------------------------------------
(* Properties *)

\* An order of the pool, bypassed or awaiting approval, never gets to the ERP,
\* whatever users and runs do.
PoolStaysOut ==
  \A o \in Orders : order[o].pool => slips[o] = 0 /\ inFlight[o] = 0 /\ order[o].logo # "SYNCED"

\* "Prevent duplicate syncs if already processed": the ERP gets an order once.
\* The code violates it, because the event it checks is the last thing written.
ExportedOnce == \A o \in Orders : slips[o] <= 1

\* It holds of an order until a request for it gets no answer, the record of its
\* export is not written, or two runs are posting it at once.
ExportedOnceUnlessTroubled ==
  \A o \in Orders :
    trouble[o] \cap {"doubtful", "overlap"} = {} => slips[o] + inFlight[o] <= 1

\* What is marked as exported was exported, whatever goes wrong; the event of
\* the timeline is never ahead of the mark.
RecordsAreTrue ==
  \A o \in Orders :
    /\ order[o].synced => order[o].logo = "SYNCED"
    /\ order[o].logo = "SYNCED" => slips[o] > 0

\* An order that is cancelled while no run has it stays cancelled and is not
\* posted, until a user sets another status.
CancelIsFinal ==
  [][\A o \in barred \cap barred' : slips'[o] = slips[o] /\ order'[o].status = "cancelled"]_vars

\* An order an export run has listed is marked, unless something goes wrong with
\* that order: what the ERP makes of another order does not matter.
ListedIsExported ==
  \A o \in Orders, w \in Runs :
    Has(w, o) ~> (order[o].logo = "SYNCED" \/ trouble[o] \ {"overlap"} # {})
=============================================================================
