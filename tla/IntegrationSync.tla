-------------------------- MODULE IntegrationSync ---------------------------
(***************************************************************************)
(* The synchronisation pipeline of an integration: the HTTP handlers that  *)
(* pause, delete, test and sync it, the queue that carries the jobs they   *)
(* create (a row in PostgreSQL, and a delivery either through BullMQ or    *)
(* through an in-memory event), and the worker that runs a job.            *)
(*                                                                         *)
(* Every await of the code ends an atomic step: what a handler or a run    *)
(* has read before it may be stale after it.                               *)
(***************************************************************************)
EXTENDS Naturals, FiniteSets

CONSTANTS
  Integrations,   \* ids of the integration rows
  Jobs,           \* ids of the queue rows that may ever be created (a bound)
  Requests,       \* concurrent HTTP requests (a bound)
  Concurrency,    \* BullMQ worker slots
  Late,           \* places for runs that have lost the lock of their job (a bound)
  MaxAttempts,    \* the "attempts" option a job is added with
  MaxStalls,      \* BullMQ's maxStalledCount
  Faults,         \* the kinds of fault this environment can produce
  NONE            \* no integration, no job

FaultKinds == {"crash", "redisError", "addLost", "addStored", "dbWrite", "syncError", "lockLost"}

ASSUME SlotsAssumption  == Concurrency \in Nat \ {0}
ASSUME LimitsAssumption == MaxAttempts \in Nat \ {0} /\ MaxStalls \in Nat
ASSUME FaultAssumption  == Faults \subseteq FaultKinds
ASSUME LateAssumption   == {"bull", "memory"} \cap Late = {}
ASSUME NoneAssumption   == NONE \notin Integrations \cup Jobs

VARIABLES
  \* the Integration table
  status,     \* status[i]: the status column
  deleted,    \* deleted[i]: deletedAt is set
  \* the IntegrationQueue table
  row,        \* row[j]: the status column, "absent" before the insert
  config,     \* config[j]: configId, the integration the row belongs to
  \* Redis, which survives a crash of the backend
  bull,       \* bull[j]: the state of the BullMQ job of row j
  attempts,   \* attempts[j]: how many of its runs have thrown
  stalls,     \* stalls[j]: how often it was found stalled
  \* the memory of the backend process
  redisUp,    \* IntegrationQueueService.isRedisAvailable
  pc,         \* pc[x]: where run x of processJob is
  seen,       \* seen[x]: integration.status as run x read it
  request,    \* request[r]: the handler that serves r, and its locals
  \* history, for the properties only
  paused,     \* paused[i]: the status the user last chose is "inactive"
  happened    \* the kinds of events there have been

tables == <<status, deleted, row, config>>
redis  == <<bull, attempts, stalls>>
vars   == <<tables, redis, redisUp, pc, seen, request, paused, happened>>

-----------------------------------------------------------------------------
(* Types *)

IntegrationStatus == {"active", "error", "inactive"}
Settled           == {"processed", "failed"}
RowStatus         == {"absent", "pending", "processing"} \cup Settled
BullState         == {"none", "waiting", "active", "completed", "failed"}

\* A row can be run from its BullMQ job and from an in-memory event; and a run
\* whose job BullMQ has taken for stalled goes on beside the next one.
Lanes == {"bull", "memory"} \cup Late
Runs  == Jobs \X Lanes

Claimed == {"fetch", "contact", "settle", "failRow"}   \* before the row is settled
Closing == {"stamp", "failInt", "ack"}                 \* after it
RunPc   == {"none", "claim"} \cup Claimed \cup Closing

\* was, to: the status a handler has read, and the one it will write;
\* todo: the rows it still has to add, each with its integration;
\* job: the row it has inserted and not handed over yet.
RequestPc  == {"idle", "add", "hand", "update", "delete", "test"}
RequestRec ==
  [pc : RequestPc, int : Integrations \cup {NONE}, was : IntegrationStatus,
   to : IntegrationStatus, todo : SUBSET (Jobs \X Integrations), job : Jobs \cup {NONE}]

\* The kinds of events the properties are conditional on.
Events == {"interrupted", "addStored", "overwritten", "lockLost"}

TypeOK ==
  /\ status   \in [Integrations -> IntegrationStatus]
  /\ deleted  \in [Integrations -> BOOLEAN]
  /\ row      \in [Jobs -> RowStatus]
  /\ config   \in [Jobs -> Integrations \cup {NONE}]
  /\ bull     \in [Jobs -> BullState]
  /\ attempts \in [Jobs -> 0..MaxAttempts]
  /\ stalls   \in [Jobs -> 0..MaxStalls]
  /\ redisUp  \in BOOLEAN
  /\ pc       \in [Runs -> RunPc]
  /\ seen     \in [Runs -> IntegrationStatus]
  /\ request  \in [Requests -> RequestRec]
  /\ paused   \in [Integrations -> BOOLEAN]
  /\ happened \in SUBSET Events

-----------------------------------------------------------------------------
(* Initial state: integrations as create() leaves them, no job yet. *)

Idle == [pc |-> "idle", int |-> NONE, was |-> "active", to |-> "active", todo |-> {}, job |-> NONE]

Init ==
  /\ status   = [i \in Integrations |-> "active"]
  /\ deleted  = [i \in Integrations |-> FALSE]
  /\ row      = [j \in Jobs |-> "absent"]
  /\ config   = [j \in Jobs |-> NONE]
  /\ bull     = [j \in Jobs |-> "none"]
  /\ attempts = [j \in Jobs |-> 0]
  /\ stalls   = [j \in Jobs |-> 0]
  /\ redisUp  = TRUE
  /\ pc       = [x \in Runs |-> "none"]
  /\ seen     = [x \in Runs |-> "active"]
  /\ request  = [r \in Requests |-> Idle]
  /\ paused   = [i \in Integrations |-> FALSE]
  /\ happened = {}

-----------------------------------------------------------------------------
(* Helpers *)

Note(events) == happened' = happened \cup events

\* A write of an integration's status column.
SetStatus(i, s) == status' = [status EXCEPT ![i] = s]

\* Row ids no handler has taken: cuid() never returns one twice.
FreshJobs ==
  {j \in Jobs : row[j] = "absent" /\ \A r \in Requests, i \in Integrations : <<j, i>> \notin request[r].todo}

Begin(r, handler) == request' = [request EXCEPT ![r] = handler]
Answer(r)         == Begin(r, Idle)

\* get(): only a row that is not soft-deleted is found.
Get(r, i) == request[r].pc = "idle" /\ ~deleted[i]

-----------------------------------------------------------------------------
(* POST /integrations/:id/sync, and the stock change of a product *)

\* get(), and the 400 for a paused integration.  assertConfigured() reads the
\* settings row, which is not part of this module; its 400 changes nothing.
TriggerGet(r, i) ==
  /\ Get(r, i)
  /\ status[i] # "inactive"
  /\ \E products, orders \in FreshJobs :
       /\ products # orders
       /\ Begin(r, [Idle EXCEPT !.pc = "add", !.todo = {products, orders} \X {i}])
  /\ UNCHANGED <<tables, redis, redisUp, pc, seen, paused, happened>>

\* ProductService.update(): one sync_stock row for every integration that is
\* active at this read.
StockChange(r) ==
  LET targets == {i \in Integrations : status[i] = "active" /\ ~deleted[i]} IN
  /\ request[r].pc = "idle"
  /\ targets # {}
  /\ \E id \in [targets -> FreshJobs] :
       /\ \A i, k \in targets : id[i] = id[k] => i = k
       /\ Begin(r, [Idle EXCEPT !.pc = "add", !.todo = {<<id[i], i>> : i \in targets}])
  /\ UNCHANGED <<tables, redis, redisUp, pc, seen, paused, happened>>

\* addSyncJob(), first half: the row is inserted.
AddRow(r, j, i) ==
  /\ request[r].pc = "add"
  /\ <<j, i>> \in request[r].todo
  /\ row' = [row EXCEPT ![j] = "pending"]
  /\ config' = [config EXCEPT ![j] = i]
  /\ Begin(r, [request[r] EXCEPT !.pc = "hand", !.job = j, !.todo = @ \ {<<j, i>>}])
  /\ UNCHANGED <<status, deleted, redis, redisUp, pc, seen, paused, happened>>

\* The handler goes on to the next addSyncJob, or answers.
Added(r) ==
  IF request[r].todo = {} THEN Answer(r)
  ELSE Begin(r, [request[r] EXCEPT !.pc = "add", !.job = NONE])

Store(j) == bull' = [bull EXCEPT ![j] = "waiting"]

\* setImmediate, the emit and the listener's call of processJob up to its first
\* await: nothing can tell these apart, so they are one step.  Nothing bounds
\* how many such runs there are at a time.
Emit(j) == pc' = [pc EXCEPT ![<<j, "memory">>] = "claim"]

\* Mutant: the in-memory branch is entered after a successful queue.add, too.
HandToBullThenMemory(r) ==
  /\ request[r].pc = "hand" /\ redisUp
  /\ Store(request[r].job)
  /\ Emit(request[r].job)
  /\ Added(r)
  /\ UNCHANGED <<tables, attempts, stalls, redisUp, seen, paused, happened>>

\* addSyncJob(), second half: queue.add stores the job, ...
HandToBull(r) ==
  /\ request[r].pc = "hand" /\ redisUp
  /\ Store(request[r].job)
  /\ Added(r)
  /\ UNCHANGED <<tables, attempts, stalls, redisUp, pc, seen, paused, happened>>

\* Mutant: the fallback only logs.
HandToNobody(r) ==
  /\ request[r].pc = "hand"
  /\ redisUp => "addLost" \in Faults
  /\ Added(r)
  /\ UNCHANGED <<tables, redis, redisUp, pc, seen, paused, happened>>

\* ... or Redis is known to be down, or queue.add rejects, and the job goes to
\* the in-memory listener; ...
HandToMemory(r) ==
  /\ request[r].pc = "hand"
  /\ redisUp => "addLost" \in Faults
  /\ Emit(request[r].job)
  /\ Added(r)
  /\ UNCHANGED <<tables, redis, redisUp, seen, paused, happened>>

\* ... or queue.add rejects although Redis has stored the job (the reply was
\* lost), and it goes to both.
HandToBoth(r) ==
  /\ request[r].pc = "hand" /\ redisUp
  /\ "addStored" \in Faults
  /\ Store(request[r].job)
  /\ Emit(request[r].job)
  /\ Note({"addStored"})
  /\ Added(r)
  /\ UNCHANGED <<tables, attempts, stalls, redisUp, seen, paused>>

-----------------------------------------------------------------------------
(* PATCH /integrations/:id, DELETE /integrations/:id, POST .../test *)

\* Mutant: the DTO does not restrict the status.
UpdateGetUnvalidated(r, i) ==
  /\ Get(r, i)
  /\ \E s \in IntegrationStatus \cup {"paused"} : Begin(r, [Idle EXCEPT !.pc = "update", !.int = i, !.to = s])
  /\ UNCHANGED <<tables, redis, redisUp, pc, seen, paused, happened>>

\* The UpdateIntegrationDto may carry any of the three statuses.
UpdateGet(r, i) ==
  /\ Get(r, i)
  /\ \E s \in IntegrationStatus : Begin(r, [Idle EXCEPT !.pc = "update", !.int = i, !.to = s])
  /\ UNCHANGED <<tables, redis, redisUp, pc, seen, paused, happened>>

\* An error status hides the user's switch.
Hides(s) == IF s = "error" THEN {"overwritten"} ELSE {}

\* The write names the row by id only: a soft delete since the read is not seen.
UpdateWrite(r) ==
  LET i == request[r].int  s == request[r].to IN
  /\ request[r].pc = "update"
  /\ SetStatus(i, s)
  /\ paused' = [paused EXCEPT ![i] = (s = "inactive")]
  /\ Note(Hides(s))
  /\ Answer(r)
  /\ UNCHANGED <<deleted, row, config, redis, redisUp, pc, seen>>

DeleteGet(r, i) ==
  /\ Get(r, i)
  /\ Begin(r, [Idle EXCEPT !.pc = "delete", !.int = i])
  /\ UNCHANGED <<tables, redis, redisUp, pc, seen, paused, happened>>

DeleteWrite(r) ==
  LET i == request[r].int IN
  /\ request[r].pc = "delete"
  /\ deleted' = [deleted EXCEPT ![i] = TRUE]
  /\ SetStatus(i, "inactive")
  /\ paused' = [paused EXCEPT ![i] = TRUE]
  /\ Answer(r)
  /\ UNCHANGED <<row, config, redis, redisUp, pc, seen, happened>>

TestGet(r, i) ==
  /\ Get(r, i)
  /\ Begin(r, [Idle EXCEPT !.pc = "test", !.int = i, !.was = status[i]])
  /\ UNCHANGED <<tables, redis, redisUp, pc, seen, paused, happened>>

\* The connector has answered: the status is written if the outcome differs
\* from the status read before the call.
TestWrite(r) ==
  /\ request[r].pc = "test"
  /\ \E target \in {"active", "error"} \ {request[r].was} :
       SetStatus(request[r].int, target) /\ Note({"overwritten"})
  /\ Answer(r)
  /\ UNCHANGED <<deleted, row, config, redis, redisUp, pc, seen, paused>>

\* The outcome is the status the test has read; or any awaited database call of
\* a handler throws, and what was left to do is not done.  (Between the insert
\* of a row and its hand-over nothing throws: a rejected queue.add is caught.)
RequestEnds(r) ==
  /\ \/ request[r].pc = "test" /\ request[r].was # "inactive"
     \/ "dbWrite" \in Faults /\ request[r].pc \notin {"idle", "hand"}
  /\ Answer(r)
  /\ UNCHANGED <<tables, redis, redisUp, pc, seen, paused, happened>>

-----------------------------------------------------------------------------
(* The BullMQ worker, and how a run of processJob ends *)

\* BullMQ gives a waiting job to a free slot of the worker; a run that has lost
\* its lock still holds one.
BullTake(j) ==
  /\ bull[j] = "waiting"
  /\ Cardinality({x \in Runs : x[2] # "memory" /\ pc[x] # "none"}) < Concurrency
  /\ bull' = [bull EXCEPT ![j] = "active"]
  /\ pc' = [pc EXCEPT ![<<j, "bull">>] = "claim"]
  /\ UNCHANGED <<tables, attempts, stalls, redisUp, seen, request, paused, happened>>

Goto(x, next) == pc' = [pc EXCEPT ![x] = next]

\* The run is over, its locals are gone.
Leave(x) == Goto(x, "none") /\ seen' = [seen EXCEPT ![x] = "active"]

\* How a run ends that BullMQ learns nothing of: the listener only logs an error,
\* and without the lock of its job a run can neither complete nor fail it.
EndsUnheard(x, events) ==
  /\ \/ x[2] # "bull" /\ Note(events)
     \/ x[2] = "bull" /\ "lockLost" \in Faults /\ Note({"lockLost"} \cup events)
  /\ UNCHANGED redis

\* processJob threw: BullMQ retries until its attempts are used up.
Reject(x, events) ==
  LET j == x[1] IN
  /\ "dbWrite" \in Faults
  /\ Leave(x)
  /\ \/ /\ x[2] = "bull"
        /\ attempts' = [attempts EXCEPT ![j] = @ + 1]
        /\ bull' = [bull EXCEPT ![j] = IF attempts[j] + 1 < MaxAttempts THEN "waiting" ELSE "failed"]
        /\ Note({"interrupted"} \cup events)
        /\ UNCHANGED stalls
     \/ EndsUnheard(x, {"interrupted"} \cup events)

\* An awaited write inside the try block throws: control goes to the catch block.
Throws(x) == "dbWrite" \in Faults /\ Note({"interrupted"}) /\ Goto(x, "failRow")

-----------------------------------------------------------------------------
(* IntegrationSyncWorker.processJob, run x = <<job, lane>> *)

SetRow(x, s) == row' = [row EXCEPT ![x[1]] = s]

\* 1. The row is marked as processing, outside the try block.
Claim(x) ==
  /\ pc[x] = "claim"
  /\ \/ SetRow(x, "processing") /\ Goto(x, "fetch") /\ UNCHANGED <<redis, seen, happened>>
     \/ UNCHANGED row /\ Reject(x, {})
  /\ UNCHANGED <<status, deleted, config, redisUp, request, paused>>

\* 2. The integration is read.  Neither its status nor deletedAt is looked at.
Fetch(x) ==
  /\ pc[x] = "fetch"
  /\ seen' = [seen EXCEPT ![x] = status[config[x[1]]]]
  /\ Goto(x, "contact")
  /\ UNCHANGED <<tables, redis, redisUp, request, paused, happened>>

\* 3. The marketplace or the ERP is called, and what it answered is stored.
\* Any of it may throw.
Contact(x) ==
  /\ pc[x] = "contact"
  /\ \/ Goto(x, "settle")
     \/ "syncError" \in Faults /\ Goto(x, "failRow")
  /\ UNCHANGED <<tables, redis, redisUp, seen, request, paused, happened>>

\* 4. The row is marked as processed, ...
Settle(x) ==
  /\ pc[x] = "settle"
  /\ \/ SetRow(x, "processed") /\ Goto(x, "stamp") /\ UNCHANGED happened
     \/ UNCHANGED row /\ Throws(x)
  /\ UNCHANGED <<status, deleted, config, redis, redisUp, seen, request, paused>>

\* Mutant: a successful run always sets the status.
ClearAlways(x) == SetStatus(config[x[1]], "active")

\* ... and the integration gets lastSyncAt, and its error cleared if the status
\* read in Fetch was "error".
ClearError(x) == IF seen[x] = "error" THEN SetStatus(config[x[1]], "active") ELSE UNCHANGED status

\* That write, or the log after it, may throw.
Stamp(x) ==
  /\ pc[x] = "stamp"
  /\ \/ ClearError(x) /\ Goto(x, "ack") /\ UNCHANGED happened
     \/ (ClearError(x) \/ UNCHANGED status) /\ Throws(x)
  /\ UNCHANGED <<deleted, row, config, redis, redisUp, seen, request, paused>>

\* Mutant: the catch block forgets the row.
FailRowForgotten(x) ==
  /\ pc[x] = "failRow"
  /\ Goto(x, "failInt")
  /\ UNCHANGED <<tables, redis, redisUp, seen, request, paused, happened>>

\* Mutant: the catch block puts the row back to pending, as if to retry it.
FailRowRequeued(x) ==
  /\ pc[x] = "failRow"
  /\ \/ SetRow(x, "pending") /\ Goto(x, "failInt") /\ UNCHANGED <<redis, seen, happened>>
     \/ UNCHANGED row /\ Reject(x, {})
  /\ UNCHANGED <<status, deleted, config, redisUp, request, paused>>

\* The catch block: the row is marked as failed, ...
FailRow(x) ==
  /\ pc[x] = "failRow"
  /\ \/ SetRow(x, "failed") /\ Goto(x, "failInt") /\ UNCHANGED <<redis, seen, happened>>
     \/ UNCHANGED row /\ Reject(x, {})
  /\ UNCHANGED <<status, deleted, config, redisUp, request, paused>>

\* ... and the integration gets the status error, whatever it was.
MarkError(x) == SetStatus(config[x[1]], "error")

\* The error is not thrown again, unless this write or the log after it throws.
FailInt(x) ==
  /\ pc[x] = "failInt"
  /\ \/ MarkError(x) /\ Note({"overwritten"}) /\ Goto(x, "ack") /\ UNCHANGED <<redis, seen>>
     \/ MarkError(x) /\ Reject(x, {"overwritten"})
     \/ UNCHANGED status /\ Reject(x, {})
  /\ UNCHANGED <<deleted, row, config, redisUp, request, paused>>

\* processJob returned: BullMQ completes the job, if the run still has its lock
\* and Redis hears of it; the listener does nothing.
Ack(x) ==
  /\ pc[x] = "ack"
  /\ Leave(x)
  /\ \/ x[2] = "bull" /\ bull' = [bull EXCEPT ![x[1]] = "completed"] /\ UNCHANGED <<attempts, stalls, happened>>
     \/ EndsUnheard(x, {})
  /\ UNCHANGED <<tables, redisUp, request, paused>>

Run(x) == Claim(x) \/ Fetch(x) \/ Contact(x) \/ Settle(x) \/ Stamp(x)
            \/ FailRow(x) \/ FailInt(x) \/ Ack(x)

-----------------------------------------------------------------------------
(* The environment *)

\* The queue's error handler, or the failed ping: nothing sets the flag again.
RedisError ==
  /\ "redisError" \in Faults
  /\ redisUp
  /\ redisUp' = FALSE
  /\ UNCHANGED <<tables, redis, pc, seen, request, paused, happened>>

\* A job without a lock is found stalled: BullMQ hands it out again, unless that
\* has happened too often.
Restored(j) == IF stalls[j] < MaxStalls THEN "waiting" ELSE "failed"
StallsOf(j) == IF stalls[j] < MaxStalls THEN stalls[j] + 1 ELSE stalls[j]

\* The lock of a job runs out although the process lives: its renewal has not
\* reached Redis in time, or the job could not be completed.  The run, if it has
\* not returned, does not learn of it and goes on.
Stall(j) ==
  /\ "lockLost" \in Faults
  /\ bull[j] = "active"
  /\ bull'   = [bull EXCEPT ![j] = Restored(j)]
  /\ stalls' = [stalls EXCEPT ![j] = StallsOf(j)]
  /\ \/ pc[<<j, "bull">>] = "none" /\ UNCHANGED <<pc, seen>>
     \/ \E l \in Late :
          /\ pc[<<j, "bull">>] # "none" /\ pc[<<j, l>>] = "none"
          /\ pc'   = [pc EXCEPT ![<<j, l>>] = pc[<<j, "bull">>], ![<<j, "bull">>] = "none"]
          /\ seen' = [seen EXCEPT ![<<j, l>>] = seen[<<j, "bull">>], ![<<j, "bull">>] = "active"]
  /\ Note({"lockLost"})
  /\ UNCHANGED <<tables, attempts, redisUp, request, paused>>

\* The backend dies and starts again.  Handlers, runs and scheduled emits are
\* gone, and with them every lock.  Nothing reads the pending rows.
Crash ==
  /\ "crash" \in Faults
  /\ Note({"interrupted"})
  /\ redisUp' = TRUE
  /\ pc'      = [x \in Runs |-> "none"]
  /\ seen'    = [x \in Runs |-> "active"]
  /\ request' = [r \in Requests |-> Idle]
  /\ bull'    = [j \in Jobs |-> IF bull[j] = "active" THEN Restored(j) ELSE bull[j]]
  /\ stalls'  = [j \in Jobs |-> IF bull[j] = "active" THEN StallsOf(j) ELSE stalls[j]]
  /\ UNCHANGED <<tables, attempts, paused>>

-----------------------------------------------------------------------------
(* The specification *)

HandOver(r) == HandToBull(r) \/ HandToMemory(r) \/ HandToBoth(r)

Handler(r) ==
  \/ \E i \in Integrations : TriggerGet(r, i) \/ UpdateGet(r, i) \/ DeleteGet(r, i) \/ TestGet(r, i)
  \/ StockChange(r)
  \/ \E j \in Jobs, i \in Integrations : AddRow(r, j, i)
  \/ HandOver(r)
  \/ UpdateWrite(r) \/ DeleteWrite(r) \/ TestWrite(r) \/ RequestEnds(r)

Next ==
  \/ \E r \in Requests : Handler(r)
  \/ \E j \in Jobs : BullTake(j) \/ Stall(j)
  \/ \E x \in Runs : Run(x)
  \/ RedisError
  \/ Crash

Spec == Init /\ [][Next]_vars

\* Every await settles and every scheduled callback runs: a handler that has
\* inserted a row hands it over, and deliveries and runs go on.  Nothing is
\* assumed of the users: no request has to arrive.
Fairness ==
  /\ \A r \in Requests : WF_vars(HandOver(r))
  /\ \A j \in Jobs : WF_vars(BullTake(j))
  /\ \A x \in Runs : WF_vars(Run(x))

FairSpec == Spec /\ Fairness

-----------------------------------------------------------------------------
(* Properties *)

Never(events) == events \cap happened = {}

\* Somebody will still run row j: a handler about to hand it over, BullMQ, or
\* a run that has not returned.
Handing(j)  == \E r \in Requests : request[r].pc = "hand" /\ request[r].job = j
Queued(j)   == bull[j] \in {"waiting", "active"}
InMemory(j) == pc[<<j, "memory">>] # "none"
Running(j)  == \E l \in Lanes : pc[<<j, l>>] # "none"

\* "Processing in-memory instead": unless queue.add rejected a job it had in
\* fact stored, a row is never in the hands of BullMQ and of the in-memory
\* listener both; and unless a lock was lost, it is never run twice at a time.
SingleDelivery ==
  /\ Never({"addStored"}) =>
       \A j \in Jobs : ~(Queued(j) /\ InMemory(j)) /\ ~(Handing(j) /\ (Queued(j) \/ InMemory(j)))
  /\ Never({"addStored", "lockLost"}) =>
       \A j \in Jobs, l, m \in Lanes : pc[<<j, l>>] # "none" /\ pc[<<j, m>>] # "none" => l = m

\* As long as the backend has not crashed and no write of the worker was lost,
\* every row still pending or processing is in somebody's hands: none is left
\* behind by the hand-over between PostgreSQL, Redis and the event emitter,
\* whatever Redis does meanwhile, and however often a job is run again.
NoStrandedRow ==
  Never({"interrupted"}) =>
    \A j \in Jobs : row[j] \in {"pending", "processing"} => Handing(j) \/ Queued(j) \/ Running(j)

\* BullMQ considers a job completed only when its row is settled, even across
\* crashes, retries and lost writes (unless the row was delivered twice, or a
\* run went on without its lock).
CompletedIsSettled ==
  Never({"addStored", "lockLost"}) => \A j \in Jobs : bull[j] = "completed" => row[j] \in Settled

\* The status switch: "a paused integration must stay paused".  What the user
\* last chose is what the column says, whatever jobs and handlers are in
\* flight, as long as nothing has marked an integration as failing and no
\* connection test has overwritten the column.
PauseHolds ==
  Never({"overwritten"}) => \A i \in Integrations : paused[i] <=> status[i] = "inactive"

\* A row is created, claimed and settled once, and a settled row never changes
\* again, until the first crash, lost write, lost lock or doubly stored job.
Board == INSTANCE JobBoard WITH Jobs <- Jobs, row <- row

ExactlyOnce == [][Never({"interrupted", "addStored", "lockLost"})' => [Board!Next]_row]_vars

\* With the fairness above, and none of those faults possible, the pipeline
\* implements JobBoard: in particular every row is claimed and settled.
ImplementsJobBoard == Board!Spec

\* integration.service.ts:396, "the status switch is the user's explicit 'do
\* not talk to this marketplace'": a run that has itself read the status
\* "inactive" does not get past calling the marketplace.  The code violates it.
PausedIsNotContacted ==
  \A x \in Runs : pc[x] \in {"settle", "stamp"} => seen[x] # "inactive"

\* integration-sync.worker.ts:504, "it must never re-enable an integration the
\* user paused": no step of a worker (they leave the requests alone) makes an
\* integration active whose user last chose to pause it.  The code violates it.
WorkerNeverReenables ==
  [][\A i \in Integrations :
       paused[i] /\ status[i] # "active" /\ status'[i] = "active" => request' # request]_vars
=============================================================================
