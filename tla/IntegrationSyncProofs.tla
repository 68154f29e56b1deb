----------------------- MODULE IntegrationSyncProofs ------------------------
(***************************************************************************)
(* Proofs of the safety properties of IntegrationSync, for every set of    *)
(* integrations, rows and requests, every number of worker slots, attempts *)
(* and stalls, and every set of faults.                                    *)
(***************************************************************************)
EXTENDS IntegrationSync, TLAPS

-----------------------------------------------------------------------------
(* The inductive invariant *)

Working == {"claim"} \cup Claimed     \* a run that has still to settle its row

\* A row id reserved by a handler has no row yet, and belongs to one handler
\* and one integration.
Reserved ==
  \A r, s \in Requests : \A t \in request[r].todo, u \in request[s].todo :
    /\ row[t[1]] = "absent"
    /\ t[1] = u[1] => r = s /\ t = u

\* A row about to be handed over exists, nobody runs it yet, and one handler
\* holds it.
HandedOnce ==
  \A r \in Requests : request[r].pc = "hand" =>
    LET j == request[r].job IN
    /\ j \in Jobs /\ row[j] # "absent"
    /\ bull[j] = "none" /\ pc[<<j, "memory">>] = "none"
    /\ \A s \in Requests : request[s].pc = "hand" /\ request[s].job = j => s = r

\* What is delivered has a row, and the row an integration; the run that has the
\* lock of a job exists only while BullMQ considers the job active; a job that can still be run has
\* attempts left.
Delivered ==
  \A j \in Jobs :
    /\ row[j] = "absent" => bull[j] = "none" /\ \A l \in Lanes : pc[<<j, l>>] = "none"
    /\ row[j] # "absent" => config[j] \in Integrations
    /\ pc[<<j, "bull">>] # "none" => bull[j] = "active"
    /\ bull[j] \in {"none", "waiting", "active"} => attempts[j] < MaxAttempts

\* A row goes to BullMQ or to the in-memory listener.
OneLane ==
  Never({"addStored"}) => \A j \in Jobs : bull[j] # "none" => pc[<<j, "memory">>] = "none"

\* A run that goes on without a lock has lost it.
LocksHeld ==
  Never({"lockLost"}) => \A j \in Jobs, l \in Late : pc[<<j, l>>] = "none"

\* An unsettled row has somebody who has still to settle it.
Pursued ==
  Never({"interrupted"}) =>
    \A j \in Jobs : row[j] \in {"pending", "processing"} =>
      \/ Handing(j)
      \/ bull[j] = "waiting"
      \/ \E l \in Lanes : pc[<<j, l>>] \in Working

\* BullMQ completes a job after its run has settled the row.
SettledFirst ==
  Never({"addStored", "lockLost"}) =>
    \A j \in Jobs : bull[j] = "completed" \/ pc[<<j, "bull">>] \in Closing => row[j] \in Settled

\* While nothing has gone wrong, where a row is says how far it has come.
InStep ==
  Never({"interrupted", "addStored", "lockLost"}) =>
    /\ \A j \in Jobs : Handing(j) \/ bull[j] = "waiting" => row[j] = "pending"
    /\ \A x \in Runs :
         /\ pc[x] = "claim"   => row[x[1]] = "pending"
         /\ pc[x] \in Claimed => row[x[1]] = "processing"
         /\ pc[x] \in Closing => row[x[1]] \in Settled

\* While no status was overwritten, nobody has seen an error.
NoErrorSeen ==
  Never({"overwritten"}) =>
    /\ \A i \in Integrations : status[i] # "error" /\ (paused[i] <=> status[i] = "inactive")
    /\ \A x \in Runs : seen[x] # "error"

IInv ==
  /\ TypeOK
  /\ Reserved
  /\ HandedOnce
  /\ Delivered
  /\ OneLane
  /\ LocksHeld
  /\ Pursued
  /\ SettledFirst
  /\ InStep
  /\ NoErrorSeen

\* It holds of the integrations as create() leaves them, before any job.
THEOREM Initial == Init => IInv
<1> SUFFICES ASSUME Init PROVE IInv
  OBVIOUS
<1> USE LimitsAssumption DEF Init, Idle
<1>1. Idle \in RequestRec
  BY DEF RequestRec, RequestPc, IntegrationStatus
<1>2. TypeOK
  BY <1>1 DEF TypeOK, IntegrationStatus, RowStatus, BullState, RunPc
<1>3. Delivered
  <2>1. /\ \A j \in Jobs, l \in Lanes : pc[<<j, l>>] = "none"
        /\ "bull" \in Lanes
    BY DEF Runs, Lanes
  <2>2. \A j \in Jobs : row[j] = "absent" /\ bull[j] = "none" /\ attempts[j] = 0 /\ 0 < MaxAttempts
    OBVIOUS
  <2> QED
    BY <2>1, <2>2 DEF Delivered
<1>4. Reserved /\ HandedOnce /\ OneLane /\ LocksHeld /\ Pursued /\ SettledFirst /\ InStep /\ NoErrorSeen
  <2>1. \A j \in Jobs, l \in Lanes : <<j, l>> \in Runs
    BY DEF Runs
  <2> QED
    BY <2>1 DEF Reserved, HandedOnce, OneLane, LocksHeld, Pursued, SettledFirst, InStep, NoErrorSeen, Handing,
                Lanes, Closing, Claimed
<1> QED
  BY <1>2, <1>3, <1>4 DEF IInv

-----------------------------------------------------------------------------
(* The handlers that only take locals: they reserve fresh row ids, or none. *)

Others == <<tables, redis, redisUp, pc, seen, paused, happened>>

\* request[r] becomes h, which is not about to hand a row over.
Takes(r, h) ==
  /\ h \in RequestRec /\ h.pc # "hand"
  /\ \A t, u \in h.todo : t[1] \in FreshJobs /\ (t[1] = u[1] => t = u)
  /\ request[r].pc # "hand"
  /\ request' = [request EXCEPT ![r] = h]
  /\ UNCHANGED Others

\* A request at rest is a request.
LEMMA IdleType == Idle \in RequestRec /\ Idle.pc = "idle" /\ Idle.todo = {}
BY DEF Idle, RequestRec, RequestPc, IntegrationStatus

\* What triggerSync() reserves: rows of its integration.
LEMMA TriggerTakes ==
  ASSUME NEW r \in Requests, NEW i \in Integrations, TriggerGet(r, i)
  PROVE  \E h : Takes(r, h)
<1>1. PICK products \in FreshJobs, orders \in FreshJobs :
        request' = [request EXCEPT ![r] = [Idle EXCEPT !.pc = "add", !.todo = {products, orders} \X {i}]]
  BY DEF TriggerGet, Begin
<1> DEFINE h == [Idle EXCEPT !.pc = "add", !.todo = {products, orders} \X {i}]
<1>2. h \in RequestRec /\ h.pc = "add" /\ h.todo = {products, orders} \X {i}
  <2>1. {products, orders} \X {i} \in SUBSET (Jobs \X Integrations)
    BY DEF FreshJobs
  <2> QED
    BY <2>1, IdleType DEF RequestRec, RequestPc, Idle
<1>3. Takes(r, h)
  BY <1>1, <1>2 DEF Takes, Others, TriggerGet, Get
<1> QED
  BY <1>3

\* What an update of a product's stock reserves.
LEMMA StockTakes ==
  ASSUME NEW r \in Requests, StockChange(r)
  PROVE  \E h : Takes(r, h)
<1> DEFINE targets == {i \in Integrations : status[i] = "active" /\ ~deleted[i]}
<1>1. PICK id \in [targets -> FreshJobs] :
        /\ \A i, k \in targets : id[i] = id[k] => i = k
        /\ request' = [request EXCEPT ![r] = [Idle EXCEPT !.pc = "add", !.todo = {<<id[i], i>> : i \in targets}]]
  BY DEF StockChange, Begin
<1> DEFINE h == [Idle EXCEPT !.pc = "add", !.todo = {<<id[i], i>> : i \in targets}]
<1>2. h \in RequestRec /\ h.pc = "add" /\ h.todo = {<<id[i], i>> : i \in targets}
  <2>1. {<<id[i], i>> : i \in targets} \in SUBSET (Jobs \X Integrations)
    BY DEF FreshJobs
  <2> QED
    BY <2>1, IdleType DEF RequestRec, RequestPc, Idle
<1>3. \A t, u \in h.todo : t[1] \in FreshJobs /\ (t[1] = u[1] => t = u)
  BY <1>1, <1>2
<1>4. Takes(r, h)
  <2>1. request[r].pc # "hand" /\ UNCHANGED Others
    BY DEF StockChange, Others
  <2>2. request' = [request EXCEPT ![r] = h]
    BY <1>1
  <2> QED
    BY <1>2, <1>3, <2>1, <2>2 DEF Takes
<1> QED
  BY <1>4

\* The handlers that remember an integration, and those that answer.
LEMMA PlainTakes ==
  ASSUME TypeOK, NEW r \in Requests,
         \/ \E i \in Integrations : UpdateGet(r, i) \/ DeleteGet(r, i) \/ TestGet(r, i)
         \/ RequestEnds(r)
  PROVE  \E h : Takes(r, h)
<1>1. ASSUME NEW i \in Integrations, UpdateGet(r, i) PROVE \E h : Takes(r, h)
  <2>1. PICK s \in IntegrationStatus :
          request' = [request EXCEPT ![r] = [Idle EXCEPT !.pc = "update", !.int = i, !.to = s]]
    BY <1>1 DEF UpdateGet, Begin
  <2>2. Takes(r, [Idle EXCEPT !.pc = "update", !.int = i, !.to = s])
    BY <1>1, <2>1 DEF Takes, UpdateGet, Get, Others, Idle, RequestRec, RequestPc, IntegrationStatus
  <2> QED
    BY <2>2
<1>2. ASSUME NEW i \in Integrations, DeleteGet(r, i) PROVE \E h : Takes(r, h)
  <2>1. Takes(r, [Idle EXCEPT !.pc = "delete", !.int = i])
    BY <1>2 DEF Takes, DeleteGet, Begin, Get, Others, Idle, RequestRec, RequestPc, IntegrationStatus
  <2> QED
    BY <2>1
<1>3. ASSUME NEW i \in Integrations, TestGet(r, i) PROVE \E h : Takes(r, h)
  <2>1. status[i] \in IntegrationStatus
    BY DEF TypeOK
  <2>2. Takes(r, [Idle EXCEPT !.pc = "test", !.int = i, !.was = status[i]])
    BY <1>3, <2>1 DEF Takes, TestGet, Begin, Get, Others, Idle, RequestRec, RequestPc, IntegrationStatus
  <2> QED
    BY <2>2
<1>4. ASSUME RequestEnds(r) PROVE \E h : Takes(r, h)
  <2>1. Takes(r, Idle)
    BY <1>4, IdleType DEF Takes, RequestEnds, Answer, Begin, Others
  <2> QED
    BY <2>1
<1> QED
  BY <1>1, <1>2, <1>3, <1>4

\* A handler that only reserves row ids keeps the invariant.
LEMMA TakesKeepsIInv ==
  ASSUME IInv, NEW r \in Requests, NEW h, Takes(r, h)
  PROVE  IInv'
<1> USE DEF Takes, Others, tables, redis
<1>1. TypeOK'
  BY DEF IInv, TypeOK
<1>2. Reserved'
  BY DEF IInv, Reserved, TypeOK, FreshJobs, RequestRec
<1>3. HandedOnce'
  BY DEF IInv, HandedOnce, TypeOK
<1>4. \A j \in Jobs : Handing(j)' <=> Handing(j)
  BY DEF IInv, Handing, TypeOK
<1>5. Delivered' /\ OneLane' /\ LocksHeld' /\ SettledFirst' /\ NoErrorSeen'
  BY DEF IInv, Delivered, OneLane, LocksHeld, SettledFirst, NoErrorSeen, Never
<1>6. Pursued' /\ InStep'
  BY <1>4 DEF IInv, Pursued, InStep, Never
<1> QED
  BY <1>1, <1>2, <1>3, <1>5, <1>6 DEF IInv

-----------------------------------------------------------------------------
(* addSyncJob: the insert, and the hand-over *)

\* The insert of addSyncJob() turns a reserved id into a row being handed over.
LEMMA AddRowKeepsIInv ==
  ASSUME IInv, NEW r \in Requests, NEW j \in Jobs, NEW i \in Integrations, AddRow(r, j, i)
  PROVE  IInv'
<1> DEFINE h == [request[r] EXCEPT !.pc = "hand", !.job = j, !.todo = @ \ {<<j, i>>}]
<1> USE DEF tables, redis
<1>1. /\ h \in RequestRec /\ h.pc = "hand" /\ h.job = j /\ h.todo = request[r].todo \ {<<j, i>>}
      /\ request' = [request EXCEPT ![r] = h]
      /\ <<j, i>> \in request[r].todo /\ request[r].pc = "add"
  BY DEF AddRow, Begin, IInv, TypeOK, RequestRec, RequestPc
<1>2. /\ row[j] = "absent" /\ row' = [row EXCEPT ![j] = "pending"]
      /\ config' = [config EXCEPT ![j] = i]
      /\ UNCHANGED <<status, deleted, redis, redisUp, pc, seen, paused, happened>>
  BY <1>1 DEF AddRow, IInv, Reserved
<1>3. bull[j] = "none" /\ \A l \in Lanes : pc[<<j, l>>] = "none"
  BY <1>2 DEF IInv, Delivered
<1>4. TypeOK'
  BY <1>1, <1>2 DEF IInv, TypeOK, RowStatus
<1>5. Reserved'
  BY <1>1, <1>2 DEF IInv, Reserved, TypeOK, RequestRec
<1>6. HandedOnce'
  <2>1. \A s \in Requests : request[s].pc = "hand" => request[s].job # j
    BY <1>2 DEF IInv, HandedOnce
  <2> QED
    BY <1>1, <1>2, <1>3, <2>1 DEF IInv, HandedOnce, TypeOK, Lanes
<1>7. Delivered'
  BY <1>2, <1>3 DEF IInv, Delivered, TypeOK
<1>8. OneLane' /\ LocksHeld' /\ NoErrorSeen'
  BY <1>2 DEF IInv, OneLane, LocksHeld, NoErrorSeen, Never
<1>9. SettledFirst'
  BY <1>2, <1>3 DEF IInv, SettledFirst, Never, TypeOK, Closing, Lanes
<1>10. \A k \in Jobs : Handing(k)' <=> Handing(k) \/ k = j
  BY <1>1 DEF IInv, TypeOK, Handing
<1>11. Pursued'
  BY <1>2, <1>10 DEF IInv, Pursued, Never, TypeOK
<1>12. InStep'
  <2>1. \A x \in Runs : x[1] \in Jobs /\ (x[1] = j => pc[x] = "none")
    BY <1>3 DEF Runs
  <2> QED
    BY <1>2, <1>3, <1>10, <2>1 DEF IInv, InStep, Never, TypeOK, Claimed, Closing
<1> QED
  BY <1>4, <1>5, <1>6, <1>7, <1>8, <1>9, <1>11, <1>12 DEF IInv

\* What the three hand-overs of row j have in common: it goes to BullMQ, to the
\* listener, or to both, and in that last case the event is on record.
Hands(r, j, h) ==
  /\ request[r].pc = "hand" /\ request[r].job = j
  /\ h \in RequestRec /\ h.pc # "hand" /\ h.todo = request[r].todo
  /\ request' = [request EXCEPT ![r] = h]
  /\ \/ bull' = [bull EXCEPT ![j] = "waiting"] /\ pc' = pc
     \/ bull' = bull /\ pc' = [pc EXCEPT ![<<j, "memory">>] = "claim"]
     \/ /\ bull' = [bull EXCEPT ![j] = "waiting"]
        /\ pc' = [pc EXCEPT ![<<j, "memory">>] = "claim"]
        /\ "addStored" \in happened'
  /\ happened' \in {happened, happened \cup {"addStored"}}
  /\ UNCHANGED <<tables, attempts, stalls, redisUp, seen, paused>>

\* The three outcomes of a hand-over, by what they change.
LEMMA HandOverHands ==
  ASSUME TypeOK, NEW r \in Requests, HandOver(r)
  PROVE  \E h : Hands(r, request[r].job, h)
<1> DEFINE h == IF request[r].todo = {} THEN Idle ELSE [request[r] EXCEPT !.pc = "add", !.job = NONE]
<1>1. h \in RequestRec /\ h.pc # "hand" /\ h.todo = request[r].todo
  BY IdleType DEF TypeOK, RequestRec, RequestPc
<1>2. Added(r) => request' = [request EXCEPT ![r] = h]
  BY DEF Added, Answer, Begin
<1>3. CASE HandToBull(r)
  BY <1>1, <1>2, <1>3 DEF HandToBull, Store, Hands, redis
<1>4. CASE HandToMemory(r)
  BY <1>1, <1>2, <1>4 DEF HandToMemory, Emit, Hands, redis
<1>5. CASE HandToBoth(r)
  BY <1>1, <1>2, <1>5 DEF HandToBoth, Store, Emit, Note, Hands, redis
<1> QED
  BY <1>3, <1>4, <1>5 DEF HandOver

\* A row that was handed over is in Redis, in memory, or both.
LEMMA HandsKeepsIInv ==
  ASSUME IInv, NEW r \in Requests, NEW j, NEW h, Hands(r, j, h)
  PROVE  IInv'
<1>1. /\ j \in Jobs /\ row[j] # "absent" /\ bull[j] = "none" /\ attempts[j] < MaxAttempts
      /\ pc[<<j, "memory">>] = "none" /\ pc[<<j, "bull">>] = "none"
      /\ \A s \in Requests : request[s].pc = "hand" /\ request[s].job = j => s = r
  BY DEF IInv, HandedOnce, Hands, Delivered
<1>2. \A k \in Jobs, l \in Lanes : <<k, l>> \in Runs
  BY DEF Runs
<1>3. \A x \in Runs : x[1] \in Jobs /\ x[2] \in Lanes /\ x = <<x[1], x[2]>>
  BY DEF Runs
<1>4. \A k \in Jobs :
        /\ bull'[k] = bull[k] \/ (k = j /\ bull'[k] = "waiting")
        /\ \A l \in Lanes : l # "memory" => pc'[<<k, l>>] = pc[<<k, l>>]
        /\ k # j => bull'[k] = bull[k] /\ \A l \in Lanes : pc'[<<k, l>>] = pc[<<k, l>>]
        /\ "bull" \in Lanes /\ "memory" \in Lanes
  BY <1>1, <1>2 DEF Hands, IInv, TypeOK, Lanes
<1>5. /\ bull'[j] = "waiting" \/ pc'[<<j, "memory">>] = "claim"
      /\ pc'[<<j, "memory">>] \in {"none", "claim"}
  BY <1>1, <1>2 DEF Hands, IInv, TypeOK, Lanes
<1>6. \A k \in Jobs : Handing(k) => Handing(k)' \/ k = j
  BY DEF Hands, IInv, TypeOK, Handing
<1>7. \A k \in Jobs : Handing(k)' => Handing(k) /\ k # j
  BY <1>1 DEF Hands, IInv, TypeOK, Handing
<1>8. /\ row' = row /\ config' = config /\ attempts' = attempts
      /\ happened \subseteq happened'
      /\ "addStored" \notin happened' => bull'[j] = "none" \/ pc'[<<j, "memory">>] = "none"
  BY <1>1, <1>2 DEF Hands, tables, IInv, TypeOK, Lanes
<1>9. TypeOK'
  BY <1>1 DEF Hands, tables, IInv, TypeOK, BullState, RunPc, Events
<1>10. Reserved'
  BY <1>8 DEF Hands, IInv, TypeOK, Reserved
<1>11. HandedOnce'
  <2> SUFFICES ASSUME NEW s \in Requests, request'[s].pc = "hand"
               PROVE  /\ request'[s].job \in Jobs /\ row'[request'[s].job] # "absent"
                      /\ bull'[request'[s].job] = "none" /\ pc'[<<request'[s].job, "memory">>] = "none"
                      /\ \A q \in Requests : request'[q].pc = "hand" /\ request'[q].job = request'[s].job => q = s
    BY DEF HandedOnce
  <2>1. s # r /\ request'[s] = request[s]
    BY DEF Hands, IInv, TypeOK
  <2>2. \A q \in Requests : request'[q].pc = "hand" => request'[q] = request[q]
    BY DEF Hands, IInv, TypeOK
  <2>3. PICK k : k = request[s].job
    OBVIOUS
  <2>4. /\ k \in Jobs /\ k # j /\ row[k] # "absent" /\ bull[k] = "none" /\ pc[<<k, "memory">>] = "none"
        /\ \A q \in Requests : request[q].pc = "hand" /\ request[q].job = k => q = s
    BY <1>1, <2>1, <2>3 DEF IInv, HandedOnce
  <2>5. bull'[k] = "none" /\ pc'[<<k, "memory">>] = "none"
    BY <1>4, <2>4
  <2> QED
    BY <1>8, <2>1, <2>2, <2>3, <2>4, <2>5
<1>12. Delivered'
  <2> SUFFICES ASSUME NEW k \in Jobs
               PROVE  /\ row'[k] = "absent" => bull'[k] = "none" /\ \A m \in Lanes : pc'[<<k, m>>] = "none"
                      /\ row'[k] # "absent" => config'[k] \in Integrations
                      /\ pc'[<<k, "bull">>] # "none" => bull'[k] = "active"
                      /\ bull'[k] \in {"none", "waiting", "active"} => attempts'[k] < MaxAttempts
    BY DEF Delivered
  <2>1. /\ row[k] = "absent" => bull[k] = "none" /\ \A m \in Lanes : pc[<<k, m>>] = "none"
        /\ row[k] # "absent" => config[k] \in Integrations
        /\ pc[<<k, "bull">>] # "none" => bull[k] = "active"
        /\ bull[k] \in {"none", "waiting", "active"} => attempts[k] < MaxAttempts
    BY DEF IInv, Delivered
  <2>2. CASE k = j
    BY <1>1, <1>4, <1>8, <2>1, <2>2
  <2>3. CASE k # j
    BY <1>4, <1>8, <2>1, <2>3
  <2> QED
    BY <2>2, <2>3
<1>13. OneLane'
  <2> SUFFICES ASSUME "addStored" \notin happened', NEW k \in Jobs, bull'[k] # "none"
               PROVE  pc'[<<k, "memory">>] = "none"
    BY DEF OneLane, Never
  <2>1. bull[k] # "none" => pc[<<k, "memory">>] = "none"
    BY <1>8 DEF IInv, OneLane, Never
  <2> QED
    BY <1>4, <1>8, <2>1
<1>14. Pursued'
  <2> SUFFICES ASSUME "interrupted" \notin happened', NEW k \in Jobs, row'[k] \in {"pending", "processing"}
               PROVE  \/ Handing(k)'
                      \/ bull'[k] = "waiting"
                      \/ \E l \in Lanes : pc'[<<k, l>>] \in Working
    BY DEF Pursued, Never, Working, Claimed
  <2>1. Handing(k) \/ bull[k] = "waiting" \/ \E l \in Lanes : pc[<<k, l>>] \in Working
    BY <1>8 DEF IInv, Pursued, Never
  <2>2. CASE k = j
    BY <1>5, <2>2 DEF Working, Lanes
  <2>3. CASE k # j
    BY <1>4, <1>6, <2>1, <2>3 DEF Lanes
  <2> QED
    BY <2>2, <2>3
<1>15. SettledFirst'
  <2> SUFFICES ASSUME "addStored" \notin happened', "lockLost" \notin happened', NEW k \in Jobs,
                      bull'[k] = "completed" \/ pc'[<<k, "bull">>] \in Closing
               PROVE  row'[k] \in Settled
    BY DEF SettledFirst, Never, Closing
  <2> QED
    BY <1>4, <1>8 DEF IInv, SettledFirst, Never
<1>16. InStep'
  <2> SUFFICES ASSUME "interrupted" \notin happened', "addStored" \notin happened', "lockLost" \notin happened'
               PROVE  /\ \A k \in Jobs : Handing(k)' \/ bull'[k] = "waiting" => row'[k] = "pending"
                      /\ \A x \in Runs :
                           /\ pc'[x] = "claim"   => row'[x[1]] = "pending"
                           /\ pc'[x] \in Claimed => row'[x[1]] = "processing"
                           /\ pc'[x] \in Closing => row'[x[1]] \in Settled
    BY DEF InStep, Never, Claimed, Closing
  <2>1. /\ \A k \in Jobs : Handing(k) \/ bull[k] = "waiting" => row[k] = "pending"
        /\ \A x \in Runs :
             /\ pc[x] = "claim"   => row[x[1]] = "pending"
             /\ pc[x] \in Claimed => row[x[1]] = "processing"
             /\ pc[x] \in Closing => row[x[1]] \in Settled
    BY <1>8 DEF IInv, InStep, Never
  <2>2. row[j] = "pending"
    BY <1>1, <2>1 DEF Hands, Handing
  <2>3. \A k \in Jobs : Handing(k)' \/ bull'[k] = "waiting" => row'[k] = "pending"
    BY <1>4, <1>7, <1>8, <2>1, <2>2
  <2>4. \A k \in Jobs, l \in Lanes :
          pc'[<<k, l>>] = pc[<<k, l>>] \/ (k = j /\ pc'[<<k, l>>] = "claim")
    BY <1>1, <1>4, <1>5
  <2>5. \A x \in Runs : pc'[x] = pc[x] \/ (x[1] = j /\ pc'[x] = "claim")
    BY <1>3, <2>4
  <2> QED
    BY <1>8, <2>1, <2>2, <2>3, <2>5 DEF Claimed, Closing
<1>17. NoErrorSeen'
  BY <1>8 DEF Hands, tables, IInv, NoErrorSeen, Never
<1>18. LocksHeld'
  <2>1. \A l \in Late : l \in Lanes /\ l # "memory"
    BY LateAssumption DEF Lanes
  <2>2. \A k \in Jobs, l \in Late : pc'[<<k, l>>] = pc[<<k, l>>]
    BY <1>4, <2>1
  <2> QED
    BY <1>8, <2>2 DEF IInv, LocksHeld, Never
<1> QED
  BY <1>9, <1>10, <1>11, <1>12, <1>13, <1>14, <1>15, <1>16, <1>17, <1>18 DEF IInv

-----------------------------------------------------------------------------
(* The writes of an integration's status, and BullMQ's delivery *)

\* The handlers that write an integration's status keep the invariant.
LEMMA StatusWriteKeepsIInv ==
  ASSUME IInv, NEW r \in Requests, UpdateWrite(r) \/ DeleteWrite(r) \/ TestWrite(r)
  PROVE  IInv'
<1> USE DEF tables, redis
<1>1. /\ request[r].pc # "hand"
      /\ request' = [request EXCEPT ![r] = Idle]
      /\ UNCHANGED <<row, config, bull, attempts, stalls, redisUp, pc, seen>>
      /\ happened \subseteq happened'
  BY DEF UpdateWrite, DeleteWrite, TestWrite, Answer, Begin, Note
<1>2. TypeOK'
  <2>1. /\ status' \in [Integrations -> IntegrationStatus] /\ deleted' \in [Integrations -> BOOLEAN]
        /\ paused' \in [Integrations -> BOOLEAN] /\ happened' \in SUBSET Events
    <3>1. CASE UpdateWrite(r)
      BY <3>1 DEF UpdateWrite, SetStatus, Note, Hides, IInv, TypeOK, RequestRec, Events
    <3>2. CASE DeleteWrite(r)
      BY <3>2 DEF DeleteWrite, SetStatus, IInv, TypeOK, IntegrationStatus
    <3>3. CASE TestWrite(r)
      BY <3>3 DEF TestWrite, SetStatus, Note, IInv, TypeOK, IntegrationStatus, Events
    <3> QED
      BY <3>1, <3>2, <3>3
  <2> QED
    BY <1>1, <2>1, IdleType DEF IInv, TypeOK
<1>3. Reserved' /\ HandedOnce'
  <2>1. \A s \in Requests : /\ request'[s].todo \subseteq request[s].todo
                            /\ request'[s].pc = "hand" => s # r /\ request'[s] = request[s]
    BY <1>1, IdleType DEF IInv, TypeOK
  <2>2. Reserved'
    BY <1>1, <2>1 DEF IInv, Reserved
  <2>3. HandedOnce'
    BY <1>1, <2>1 DEF IInv, HandedOnce
  <2> QED
    BY <2>2, <2>3
<1>4. \A j \in Jobs : Handing(j)' <=> Handing(j)
  BY <1>1, IdleType DEF IInv, TypeOK, Handing
<1>5. Delivered' /\ OneLane' /\ LocksHeld' /\ SettledFirst'
  BY <1>1 DEF IInv, Delivered, OneLane, LocksHeld, SettledFirst, Never
<1>6. Pursued' /\ InStep'
  BY <1>1, <1>4 DEF IInv, Pursued, InStep, Never
<1>7. NoErrorSeen'
  <2> SUFFICES ASSUME "overwritten" \notin happened'
               PROVE  /\ \A i \in Integrations : status'[i] # "error" /\ (paused'[i] <=> status'[i] = "inactive")
                      /\ \A x \in Runs : seen'[x] # "error"
    BY DEF NoErrorSeen, Never
  <2>1. /\ \A i \in Integrations : status[i] # "error" /\ (paused[i] <=> status[i] = "inactive")
        /\ \A x \in Runs : seen'[x] # "error"
    BY <1>1 DEF IInv, NoErrorSeen, Never
  <2>2. CASE UpdateWrite(r)
    <3>1. request[r].to # "error"
      BY <2>2 DEF UpdateWrite, Note, Hides
    <3> QED
      BY <2>1, <2>2, <3>1 DEF UpdateWrite, SetStatus, IInv, TypeOK
  <2>3. CASE DeleteWrite(r)
    BY <2>1, <2>3 DEF DeleteWrite, SetStatus, IInv, TypeOK
  <2>4. ~ TestWrite(r)
    BY DEF TestWrite, Note
  <2> QED
    BY <2>2, <2>3, <2>4
<1> QED
  BY <1>2, <1>3, <1>5, <1>6, <1>7 DEF IInv

\* BullMQ gives a job to a free slot.
LEMMA BullTakeKeepsIInv ==
  ASSUME IInv, NEW j \in Jobs, BullTake(j)
  PROVE  IInv'
<1> USE DEF tables, redis
<1>1. /\ bull[j] = "waiting" /\ row[j] # "absent" /\ attempts[j] < MaxAttempts
      /\ bull' = [bull EXCEPT ![j] = "active"]
      /\ pc' = [pc EXCEPT ![<<j, "bull">>] = "claim"]
      /\ UNCHANGED <<tables, attempts, stalls, redisUp, seen, request, paused, happened>>
  BY DEF BullTake, IInv, Delivered
<1>2. /\ \A k \in Jobs, l \in Lanes : <<k, l>> \in Runs
      /\ \A x \in Runs : x[1] \in Jobs /\ x[2] \in Lanes /\ x = <<x[1], x[2]>>
  BY DEF Runs
<1>3. /\ bull'[j] = "active" /\ pc'[<<j, "bull">>] = "claim"
      /\ \A k \in Jobs : /\ k # j => bull'[k] = bull[k] /\ \A l \in Lanes : pc'[<<k, l>>] = pc[<<k, l>>]
                         /\ \A l \in Lanes : l # "bull" => pc'[<<k, l>>] = pc[<<k, l>>]
      /\ "bull" \in Lanes /\ "memory" \in Lanes
  BY <1>1, <1>2 DEF IInv, TypeOK, Lanes
<1>4. TypeOK'
  BY <1>1 DEF IInv, TypeOK, BullState, RunPc
<1>5. Reserved' /\ HandedOnce' /\ NoErrorSeen'
  BY <1>1, <1>3 DEF IInv, Reserved, HandedOnce, NoErrorSeen, Never
<1>6. Delivered'
  <2> SUFFICES ASSUME NEW k \in Jobs
               PROVE  /\ row'[k] = "absent" => bull'[k] = "none" /\ \A m \in Lanes : pc'[<<k, m>>] = "none"
                      /\ row'[k] # "absent" => config'[k] \in Integrations
                      /\ pc'[<<k, "bull">>] # "none" => bull'[k] = "active"
                      /\ bull'[k] \in {"none", "waiting", "active"} => attempts'[k] < MaxAttempts
    BY DEF Delivered
  <2>1. /\ row[k] = "absent" => bull[k] = "none" /\ \A m \in Lanes : pc[<<k, m>>] = "none"
        /\ row[k] # "absent" => config[k] \in Integrations
        /\ pc[<<k, "bull">>] # "none" => bull[k] = "active"
        /\ bull[k] \in {"none", "waiting", "active"} => attempts[k] < MaxAttempts
    BY DEF IInv, Delivered
  <2> QED
    BY <1>1, <1>3, <2>1
<1>7. OneLane' /\ LocksHeld' /\ SettledFirst'
  BY <1>1, <1>3, LateAssumption DEF IInv, OneLane, LocksHeld, SettledFirst, Never, Closing, Lanes
<1>8. \A k \in Jobs : Handing(k)' <=> Handing(k)
  BY <1>1 DEF Handing
<1>9. Pursued'
  BY <1>1, <1>3, <1>8 DEF IInv, Pursued, Never, Working
<1>10. InStep'
  <2>1. \A x \in Runs : pc'[x] = pc[x] \/ (x[1] = j /\ pc'[x] = "claim")
    BY <1>1, <1>2 DEF IInv, TypeOK
  <2> QED
    BY <1>1, <1>3, <1>8, <2>1 DEF IInv, InStep, Never, Claimed, Closing
<1> QED
  BY <1>4, <1>5, <1>6, <1>7, <1>9, <1>10 DEF IInv

\* After a restart nothing runs, and what Redis keeps is as it was.
LEMMA CrashKeepsIInv ==
  ASSUME IInv, Crash
  PROVE  IInv'
<1> USE LimitsAssumption DEF tables, redis, Crash, Restored, StallsOf
<1>1. \A j \in Jobs : bull'[j] # "active" /\ (bull'[j] = "none" <=> bull[j] = "none")
                      /\ (bull'[j] = "completed" <=> bull[j] = "completed")
                      /\ (bull'[j] = "waiting" => bull[j] \in {"waiting", "active"})
  BY DEF IInv, TypeOK
<1>2. \A j \in Jobs, l \in Lanes : pc'[<<j, l>>] = "none"
  BY DEF Runs
<1>3. \A r \in Requests : request'[r].pc # "hand" /\ request'[r].todo = {}
  BY IdleType
<1>4. TypeOK'
  BY IdleType DEF IInv, TypeOK, Note, Events, BullState, RunPc, IntegrationStatus
<1>5. Reserved' /\ HandedOnce'
  BY <1>3 DEF Reserved, HandedOnce
<1>6. Delivered'
  BY <1>1, <1>2 DEF IInv, Delivered, Lanes
<1>7. OneLane' /\ LocksHeld' /\ SettledFirst'
  BY <1>1, <1>2 DEF IInv, OneLane, LocksHeld, SettledFirst, Never, Note, Lanes, Closing
<1>8. Pursued' /\ InStep'
  BY DEF Pursued, InStep, Never, Note
<1>9. NoErrorSeen'
  BY DEF IInv, NoErrorSeen, Never, Note
<1> QED
  BY <1>4, <1>5, <1>6, <1>7, <1>8, <1>9 DEF IInv

\* A job taken for stalled goes back to Redis; its run goes on in another lane.
LEMMA StallKeepsIInv ==
  ASSUME IInv, NEW j \in Jobs, Stall(j)
  PROVE  IInv'
<1> USE LimitsAssumption, LateAssumption DEF tables, redis
<1>1. /\ bull[j] = "active" /\ row[j] # "absent" /\ attempts[j] < MaxAttempts
      /\ bull' = [bull EXCEPT ![j] = Restored(j)] /\ Restored(j) \in {"waiting", "failed"}
      /\ stalls' = [stalls EXCEPT ![j] = StallsOf(j)] /\ StallsOf(j) \in 0..MaxStalls
      /\ happened' = happened \cup {"lockLost"}
      /\ UNCHANGED <<tables, attempts, redisUp, request, paused>>
  BY DEF Stall, Note, Restored, StallsOf, IInv, Delivered, TypeOK
<1>2. /\ \A k \in Jobs, l \in Lanes : <<k, l>> \in Runs
      /\ \A x \in Runs : x[1] \in Jobs /\ x[2] \in Lanes /\ x = <<x[1], x[2]>>
      /\ "bull" \in Lanes /\ "memory" \in Lanes
  BY DEF Runs, Lanes
<1>3. /\ pc' \in [Runs -> RunPc] /\ seen' \in [Runs -> IntegrationStatus]
      /\ \A k \in Jobs : /\ k # j => \A l \in Lanes : pc'[<<k, l>>] = pc[<<k, l>>]
                         /\ pc'[<<k, "memory">>] = pc[<<k, "memory">>]
      /\ pc'[<<j, "bull">>] = "none"
      /\ \A l \in Lanes : pc[<<j, l>>] # "none" => \E m \in Lanes : pc'[<<j, m>>] = pc[<<j, l>>]
      /\ (\A x \in Runs : seen[x] # "error") => \A x \in Runs : seen'[x] # "error"
  <2>1. CASE pc[<<j, "bull">>] = "none" /\ UNCHANGED <<pc, seen>>
    BY <1>2, <2>1 DEF IInv, TypeOK
  <2>2. CASE pc[<<j, "bull">>] # "none"
    <3>1. PICK l \in Late :
            /\ pc[<<j, l>>] = "none"
            /\ pc' = [pc EXCEPT ![<<j, l>>] = pc[<<j, "bull">>], ![<<j, "bull">>] = "none"]
            /\ seen' = [seen EXCEPT ![<<j, l>>] = seen[<<j, "bull">>], ![<<j, "bull">>] = "active"]
      BY <2>2 DEF Stall
    <3>2. l \in Lanes /\ l # "bull" /\ l # "memory"
      BY DEF Lanes
    <3>3. /\ pc' \in [Runs -> RunPc] /\ seen' \in [Runs -> IntegrationStatus]
      BY <1>2, <3>1, <3>2 DEF IInv, TypeOK, RunPc, IntegrationStatus
    <3>4. /\ pc'[<<j, l>>] = pc[<<j, "bull">>] /\ pc'[<<j, "bull">>] = "none"
          /\ \A x \in Runs : x # <<j, l>> /\ x # <<j, "bull">> => pc'[x] = pc[x] /\ seen'[x] = seen[x]
          /\ seen'[<<j, l>>] = seen[<<j, "bull">>] /\ seen'[<<j, "bull">>] = "active"
      BY <1>2, <3>1, <3>2 DEF IInv, TypeOK
    <3>5. \A m \in Lanes : pc[<<j, m>>] # "none" => \E n \in Lanes : pc'[<<j, n>>] = pc[<<j, m>>]
      BY <1>2, <3>1, <3>2, <3>4
    <3> QED
      BY <1>2, <3>2, <3>3, <3>4, <3>5
  <2> QED
    BY <2>1, <2>2 DEF Stall
<1>4. TypeOK'
  BY <1>1, <1>3 DEF IInv, TypeOK, BullState, Events
<1>5. \A k \in Jobs : /\ k # j => bull'[k] = bull[k]
                      /\ bull'[k] = "none" <=> bull[k] = "none"
  BY <1>1 DEF IInv, TypeOK
<1>6. Reserved' /\ HandedOnce'
  BY <1>1, <1>3, <1>5 DEF IInv, Reserved, HandedOnce
<1>7. Delivered'
  <2>1. ASSUME NEW k \in Jobs
        PROVE  /\ row[k] = "absent" => bull'[k] = "none" /\ \A m \in Lanes : pc'[<<k, m>>] = "none"
               /\ row[k] # "absent" => config[k] \in Integrations
               /\ pc'[<<k, "bull">>] # "none" => bull'[k] = "active"
               /\ bull'[k] \in {"none", "waiting", "active"} => attempts[k] < MaxAttempts
    <3>1. /\ row[k] = "absent" => bull[k] = "none" /\ \A m \in Lanes : pc[<<k, m>>] = "none"
          /\ row[k] # "absent" => config[k] \in Integrations
          /\ pc[<<k, "bull">>] # "none" => bull[k] = "active"
          /\ bull[k] \in {"none", "waiting", "active"} => attempts[k] < MaxAttempts
      BY DEF IInv, Delivered
    <3>2. CASE k = j
      BY <1>1, <1>3, <3>1, <3>2
    <3>3. CASE k # j
      BY <1>2, <1>3, <1>5, <3>1, <3>3
    <3> QED
      BY <3>2, <3>3
  <2> QED
    BY <1>1, <2>1 DEF Delivered
<1>8. OneLane'
  BY <1>1, <1>3, <1>5 DEF IInv, OneLane, Never
<1>9. LocksHeld' /\ SettledFirst' /\ InStep'
  BY <1>1 DEF LocksHeld, SettledFirst, InStep, Never
<1>10. Pursued'
  <2> SUFFICES ASSUME "interrupted" \notin happened', NEW k \in Jobs, row[k] \in {"pending", "processing"}
               PROVE  \/ Handing(k)
                      \/ bull'[k] = "waiting"
                      \/ \E l \in Lanes : pc'[<<k, l>>] \in Working
    BY <1>1 DEF Pursued, Never, Working, Claimed, Handing
  <2>1. Handing(k) \/ bull[k] = "waiting" \/ \E l \in Lanes : pc[<<k, l>>] \in Working
    BY <1>1 DEF IInv, Pursued, Never
  <2>2. "none" \notin Working
    BY DEF Working, Claimed
  <2>3. CASE k = j
    BY <1>1, <1>3, <2>1, <2>2, <2>3
  <2>4. CASE k # j
    BY <1>3, <1>5, <2>1, <2>4
  <2> QED
    BY <2>3, <2>4
<1>11. NoErrorSeen'
  BY <1>1, <1>3 DEF IInv, NoErrorSeen, Never
<1> QED
  BY <1>4, <1>6, <1>7, <1>8, <1>9, <1>10, <1>11 DEF IInv

\* Losing the connection changes a flag only.
LEMMA RedisErrorKeepsIInv ==
  ASSUME IInv, RedisError
  PROVE  IInv'
<1> USE DEF RedisError, tables, redis
<1>1. TypeOK'
  BY DEF IInv, TypeOK
<1>2. Reserved' /\ HandedOnce' /\ Delivered'
  BY DEF IInv, Reserved, HandedOnce, Delivered
<1>3. OneLane' /\ LocksHeld' /\ Pursued' /\ SettledFirst' /\ InStep' /\ NoErrorSeen'
  BY DEF IInv, OneLane, LocksHeld, Pursued, SettledFirst, InStep, NoErrorSeen, Never, Handing
<1> QED
  BY <1>1, <1>2, <1>3 DEF IInv

-----------------------------------------------------------------------------
(* The steps of a run: what they have in common *)

\* How a run may go on, and what it makes of the status of its row.
Advances(from, to, old, new) ==
  \/ from = "claim" /\ to = "fetch" /\ new = "processing"
  \/ from \in Claimed /\ to \in Claimed /\ new = old
  \/ from \in Claimed /\ to \in Closing /\ new \in Settled
  \/ from \in Closing /\ to \in Closing \cup {"none"} /\ new = old
  \/ "interrupted" \in happened' /\ from # "none" /\ to \notin Closing /\ new = old

\* What BullMQ makes of it, if the run is in its lane.
BullFollows(from, to, oldBull, bullNow, attemptsNow) ==
  /\ to # "none" => bullNow = "active"
  /\ bullNow # "none"
  /\ bullNow \in {"waiting", "active"} => attemptsNow < MaxAttempts
  /\ bullNow = "completed" => from \in Closing
  /\ bullNow = "waiting" => "interrupted" \in happened'

\* Run <<j, l>> goes to p, its row to s; BullMQ's job becomes b with a attempts.
Steps(j, l, p, s, b, a) ==
  /\ p \in RunPc /\ s \in RowStatus \ {"absent"} /\ b \in BullState /\ a \in 0..MaxAttempts
  /\ pc' = [pc EXCEPT ![<<j, l>>] = p]
  /\ row' = [row EXCEPT ![j] = s]
  /\ bull' = [bull EXCEPT ![j] = b]
  /\ attempts' = [attempts EXCEPT ![j] = a]
  /\ Advances(pc[<<j, l>>], p, row[j], s)
  /\ IF l = "bull" THEN BullFollows(pc[<<j, l>>], p, bull[j], b, a)
     ELSE b = bull[j] /\ a = attempts[j]
  /\ happened \subseteq happened' /\ happened' \in SUBSET Events
  /\ status' \in [Integrations -> IntegrationStatus]
  /\ seen' \in [Runs -> IntegrationStatus]
  /\ UNCHANGED <<deleted, config, stalls, redisUp, request, paused>>

\* A step of a run, as it is abstracted, keeps the invariant.
LEMMA StepsKeepsIInv ==
  ASSUME IInv, NEW j \in Jobs, NEW l \in Lanes, NEW p, NEW s, NEW b, NEW a, Steps(j, l, p, s, b, a)
  PROVE  /\ TypeOK' /\ Reserved' /\ HandedOnce' /\ Delivered' /\ OneLane'
         /\ LocksHeld' /\ Pursued' /\ SettledFirst' /\ InStep'
<1>1. pc[<<j, l>>] # "none"
  BY DEF Steps, Advances, Claimed, Closing
<1>2. /\ \A k \in Jobs, m \in Lanes : <<k, m>> \in Runs
      /\ \A x \in Runs : x[1] \in Jobs /\ x[2] \in Lanes /\ x = <<x[1], x[2]>>
      /\ "bull" \in Lanes /\ "memory" \in Lanes
      /\ l \in {"bull", "memory"} \cup Late
  BY DEF Runs, Lanes
<1>3. /\ row[j] # "absent" /\ s # "absent"
      /\ l = "bull" => bull[j] = "active"
      /\ pc[<<j, "bull">>] # "none" => bull[j] = "active"
  BY <1>1, <1>2 DEF IInv, Delivered, Steps
<1>4. /\ row'[j] = s /\ bull'[j] = b /\ attempts'[j] = a /\ pc'[<<j, l>>] = p
      /\ config' = config /\ request' = request
      /\ \A k \in Jobs \ {j} : row'[k] = row[k] /\ bull'[k] = bull[k] /\ attempts'[k] = attempts[k]
      /\ \A k \in Jobs, m \in Lanes : <<k, m>> # <<j, l>> => pc'[<<k, m>>] = pc[<<k, m>>]
  BY <1>2 DEF Steps, IInv, TypeOK
<1>5. \A k \in Jobs : /\ row'[k] = "absent" <=> row[k] = "absent"
                      /\ bull'[k] = "none" <=> bull[k] = "none"
  BY <1>3, <1>4 DEF Steps, BullFollows
<1>6. TypeOK'
  BY DEF Steps, IInv, TypeOK
<1>7. Reserved'
  <2>1. \A r \in Requests : \A t \in request[r].todo : t[1] \in Jobs
    BY DEF IInv, TypeOK, RequestRec
  <2> QED
    BY <1>4, <1>5, <2>1 DEF IInv, Reserved
<1>8. HandedOnce'
  <2> SUFFICES ASSUME NEW r \in Requests, NEW k, request[r].pc = "hand", k = request[r].job
               PROVE  /\ k \in Jobs /\ row'[k] # "absent"
                      /\ bull'[k] = "none" /\ pc'[<<k, "memory">>] = "none"
                      /\ \A q \in Requests : request[q].pc = "hand" /\ request[q].job = k => q = r
    BY <1>4 DEF HandedOnce
  <2>1. /\ k \in Jobs /\ row[k] # "absent" /\ bull[k] = "none" /\ pc[<<k, "memory">>] = "none"
        /\ \A q \in Requests : request[q].pc = "hand" /\ request[q].job = k => q = r
    BY DEF IInv, HandedOnce
  <2>2. <<k, "memory">> # <<j, l>>
    BY <1>1, <2>1
  <2> QED
    BY <1>4, <1>5, <2>1, <2>2 DEF Lanes
<1>9. Delivered'
  <2> SUFFICES ASSUME NEW k \in Jobs
               PROVE  /\ row'[k] = "absent" => bull'[k] = "none" /\ \A m \in Lanes : pc'[<<k, m>>] = "none"
                      /\ row'[k] # "absent" => config'[k] \in Integrations
                      /\ pc'[<<k, "bull">>] # "none" => bull'[k] = "active"
                      /\ bull'[k] \in {"none", "waiting", "active"} => attempts'[k] < MaxAttempts
    BY DEF Delivered
  <2>1. /\ row[k] = "absent" => bull[k] = "none" /\ \A m \in Lanes : pc[<<k, m>>] = "none"
        /\ row[k] # "absent" => config[k] \in Integrations
        /\ pc[<<k, "bull">>] # "none" => bull[k] = "active"
        /\ bull[k] \in {"none", "waiting", "active"} => attempts[k] < MaxAttempts
    BY DEF IInv, Delivered
  <2>2. CASE k # j
    BY <1>4, <2>1, <2>2 DEF Lanes
  <2>3. CASE k = j /\ l = "bull"
    BY <1>3, <1>4, <2>1, <2>3 DEF Steps, BullFollows
  <2>4. CASE k = j /\ l # "bull"
    <3>1. b = bull[j] /\ a = attempts[j] /\ pc'[<<j, "bull">>] = pc[<<j, "bull">>]
      BY <1>4, <2>4 DEF Steps, Lanes
    <3> QED
      BY <1>3, <1>4, <2>1, <2>4, <3>1
  <2> QED
    BY <1>2, <2>2, <2>3, <2>4
<1>10. ASSUME "addStored" \notin happened'
       PROVE  \A k \in Jobs : bull[k] # "none" => pc[<<k, "memory">>] = "none"
  BY <1>10 DEF Steps, IInv, OneLane, Never
<1>11. OneLane'
  <2> SUFFICES ASSUME "addStored" \notin happened', NEW k \in Jobs, bull'[k] # "none"
               PROVE  pc'[<<k, "memory">>] = "none"
    BY DEF OneLane, Never
  <2>1. pc[<<k, "memory">>] = "none"
    BY <1>5, <1>10
  <2>2. <<k, "memory">> # <<j, l>>
    BY <1>1, <2>1
  <2> QED
    BY <1>4, <2>1, <2>2 DEF Lanes
<1>12. Pursued'
  <2> SUFFICES ASSUME "interrupted" \notin happened', NEW k \in Jobs, row'[k] \in {"pending", "processing"}
               PROVE  \/ Handing(k)'
                      \/ bull'[k] = "waiting"
                      \/ \E m \in Lanes : pc'[<<k, m>>] \in Working
    BY DEF Pursued, Never, Working, Claimed
  <2>1. row[k] \in {"pending", "processing"} =>
          Handing(k) \/ bull[k] = "waiting" \/ \E m \in Lanes : pc[<<k, m>>] \in Working
    BY DEF Steps, IInv, Pursued, Never
  <2>2. Handing(k)' <=> Handing(k)
    BY <1>4 DEF Handing
  <2>3. CASE k # j
    BY <1>4, <2>1, <2>2, <2>3
  <2>4. CASE k = j /\ p \in Working
    BY <1>4, <2>4
  <2>5. CASE k = j /\ p \notin Working
    <3>1. pc[<<j, l>>] \in Closing /\ s = row[j]
      BY <1>4, <2>5 DEF Steps, Advances, Working, Settled, Claimed
    <3>2. bull[j] = "waiting" => bull'[j] = "waiting"
      BY <1>3, <1>4 DEF Steps
    <3>3. \A m \in Lanes : pc[<<j, m>>] \in Working => pc'[<<j, m>>] = pc[<<j, m>>]
      BY <1>4, <3>1 DEF Working, Claimed, Closing
    <3> QED
      BY <1>4, <2>1, <2>2, <2>5, <3>1, <3>2, <3>3
  <2> QED
    BY <2>3, <2>4, <2>5
<1>13. LocksHeld'
  <2> SUFFICES ASSUME "lockLost" \notin happened', NEW k \in Jobs, NEW m \in Late
               PROVE  pc'[<<k, m>>] = "none"
    BY DEF LocksHeld, Never
  <2>1. pc[<<k, m>>] = "none"
    BY DEF Steps, IInv, LocksHeld, Never
  <2>2. <<k, m>> # <<j, l>> /\ m \in Lanes
    BY <1>1, <2>1 DEF Lanes
  <2> QED
    BY <1>4, <2>1, <2>2
<1>14. ASSUME "lockLost" \notin happened' PROVE l = "bull" \/ l = "memory"
  BY <1>1, <1>2, <1>14 DEF Steps, IInv, LocksHeld, Never
<1>15. SettledFirst'
  <2> SUFFICES ASSUME "addStored" \notin happened', "lockLost" \notin happened', NEW k \in Jobs,
                      bull'[k] = "completed" \/ pc'[<<k, "bull">>] \in Closing
               PROVE  row'[k] \in Settled
    BY DEF SettledFirst, Never, Closing
  <2>1. \A i \in Jobs : bull[i] = "completed" \/ pc[<<i, "bull">>] \in Closing => row[i] \in Settled
    BY DEF Steps, IInv, SettledFirst, Never
  <2>2. CASE k # j
    BY <1>4, <2>1, <2>2 DEF Lanes
  <2>3. CASE k = j /\ l = "bull"
    BY <1>4, <2>1, <2>3 DEF Steps, Advances, BullFollows, Claimed, Closing
  <2>4. CASE k = j /\ l = "memory"
    <3>1. bull[j] = "none" /\ pc[<<j, "bull">>] = "none"
      BY <1>1, <1>3, <1>10, <2>4
    <3>2. bull'[j] = "none" /\ pc'[<<j, "bull">>] = "none"
      BY <1>4, <1>5, <2>4, <3>1 DEF Lanes
    <3> QED
      BY <2>4, <3>2 DEF Closing
  <2> QED
    BY <1>14, <2>2, <2>3, <2>4
<1>16. InStep'
  <2> SUFFICES ASSUME "interrupted" \notin happened', "addStored" \notin happened', "lockLost" \notin happened'
               PROVE  /\ \A k \in Jobs : Handing(k)' \/ bull'[k] = "waiting" => row'[k] = "pending"
                      /\ \A x \in Runs :
                           /\ pc'[x] = "claim"   => row'[x[1]] = "pending"
                           /\ pc'[x] \in Claimed => row'[x[1]] = "processing"
                           /\ pc'[x] \in Closing => row'[x[1]] \in Settled
    BY DEF InStep, Never, Claimed, Closing
  <2>1. /\ \A k \in Jobs : Handing(k) \/ bull[k] = "waiting" => row[k] = "pending"
        /\ \A x \in Runs :
             /\ pc[x] = "claim"   => row[x[1]] = "pending"
             /\ pc[x] \in Claimed => row[x[1]] = "processing"
             /\ pc[x] \in Closing => row[x[1]] \in Settled
    BY DEF Steps, IInv, InStep, Never
  <2>2. \A k \in Jobs : Handing(k)' => Handing(k) /\ k # j
    <3>1. ~Handing(j)
      BY <1>1, <1>2, <1>3, <1>14 DEF IInv, HandedOnce, Handing
    <3> QED
      BY <1>4, <3>1 DEF Handing
  <2>3. \A m \in Lanes : m # l => pc[<<j, m>>] = "none"
    BY <1>1, <1>2, <1>3, <1>10, <1>14 DEF Lanes, Steps, IInv, LocksHeld, Never
  <2>4. bull'[j] # "waiting"
    BY <1>1, <1>2, <1>3, <1>4, <1>10, <1>14 DEF Steps, BullFollows
  <2>5. \A k \in Jobs : Handing(k)' \/ bull'[k] = "waiting" => row'[k] = "pending"
    BY <1>4, <2>1, <2>2, <2>4
  <2>6. \A x \in Runs : x # <<j, l>> => pc'[x] = pc[x] /\ (pc[x] # "none" => row'[x[1]] = row[x[1]])
    BY <1>2, <1>4, <2>3
  <2>7. /\ p # "claim"
        /\ p \in Claimed => s = "processing"
        /\ p \in Closing => s \in Settled
    BY <1>2, <2>1 DEF Steps, Advances, Claimed, Closing
  <2> QED
    BY <1>2, <1>4, <2>1, <2>5, <2>6, <2>7 DEF Claimed, Closing
<1> QED
  BY <1>6, <1>7, <1>8, <1>9, <1>11, <1>12, <1>13, <1>15, <1>16

-----------------------------------------------------------------------------
(* Each step of a run is such a step. *)

\* processJob throws before its row is settled, or after it in the catch block.
LEMMA RejectSteps ==
  ASSUME IInv, NEW j \in Jobs, NEW l \in Lanes, NEW events, events \subseteq Events,
         Reject(<<j, l>>, events), pc[<<j, l>>] # "none", row' = row,
         status' \in [Integrations -> IntegrationStatus],
         UNCHANGED <<deleted, config, redisUp, request, paused>>
  PROVE  \E b, a : Steps(j, l, "none", row[j], b, a)
<1>1. /\ row[j] \in RowStatus \ {"absent"} /\ row' = [row EXCEPT ![j] = row[j]]
      /\ bull[j] \in BullState /\ attempts[j] \in 0..MaxAttempts
      /\ l = "bull" => bull[j] = "active" /\ attempts[j] < MaxAttempts
  BY DEF IInv, Delivered, TypeOK
<1>2. /\ pc' = [pc EXCEPT ![<<j, l>>] = "none"]
      /\ seen' \in [Runs -> IntegrationStatus]
      /\ "interrupted" \in happened' /\ happened \subseteq happened' /\ happened' \in SUBSET Events
      /\ stalls' = stalls
  BY DEF Reject, EndsUnheard, Leave, Goto, Note, redis, IInv, TypeOK, IntegrationStatus, Events
<1>3. Advances(pc[<<j, l>>], "none", row[j], row[j])
  BY <1>2 DEF Advances, Closing
<1>4. CASE l = "bull" /\ ~UNCHANGED redis
  <2> DEFINE a == attempts[j] + 1
             b == IF a < MaxAttempts THEN "waiting" ELSE "failed"
  <2>1. attempts' = [attempts EXCEPT ![j] = a] /\ bull' = [bull EXCEPT ![j] = b]
    BY <1>4 DEF Reject, EndsUnheard
  <2>2. a \in 0..MaxAttempts /\ b \in BullState
    BY <1>1, <1>4, LimitsAssumption DEF BullState
  <2>3. BullFollows(pc[<<j, l>>], "none", bull[j], b, a)
    BY <1>2 DEF BullFollows
  <2> HIDE DEF a, b
  <2>4. Steps(j, l, "none", row[j], b, a)
    BY <1>1, <1>2, <1>3, <1>4, <2>1, <2>2, <2>3 DEF Steps, RunPc
  <2> QED
    BY <2>4
<1>5. CASE UNCHANGED redis
  <2>1. bull' = [bull EXCEPT ![j] = bull[j]] /\ attempts' = [attempts EXCEPT ![j] = attempts[j]]
    BY <1>5 DEF redis, IInv, TypeOK
  <2>2. Steps(j, l, "none", row[j], bull[j], attempts[j])
    BY <1>1, <1>2, <1>3, <2>1 DEF Steps, RunPc, BullFollows
  <2> QED
    BY <2>2
<1>6. l # "bull" => UNCHANGED redis
  BY DEF Reject, EndsUnheard
<1> QED
  BY <1>4, <1>5, <1>6

\* Any other step but the last leaves BullMQ alone.
LEMMA GoesOnSteps ==
  ASSUME IInv, NEW j \in Jobs, NEW l \in Lanes, NEW p \in RunPc \ {"none"}, NEW s,
         pc[<<j, l>>] # "none", Goto(<<j, l>>, p),
         s \in RowStatus \ {"absent"}, row' = [row EXCEPT ![j] = s],
         Advances(pc[<<j, l>>], p, row[j], s),
         happened \subseteq happened', happened' \in SUBSET Events,
         status' \in [Integrations -> IntegrationStatus], seen' \in [Runs -> IntegrationStatus],
         UNCHANGED <<deleted, config, redis, redisUp, request, paused>>
  PROVE  \E b, a : Steps(j, l, p, s, b, a)
<1>1. /\ bull[j] \in BullState /\ bull' = [bull EXCEPT ![j] = bull[j]]
      /\ attempts[j] \in 0..MaxAttempts /\ attempts' = [attempts EXCEPT ![j] = attempts[j]]
  BY DEF redis, IInv, TypeOK
<1>2. l = "bull" => bull[j] = "active" /\ attempts[j] < MaxAttempts
  BY DEF IInv, Delivered
<1>3. Steps(j, l, p, s, bull[j], attempts[j])
  BY <1>1, <1>2 DEF Steps, BullFollows, Goto, redis
<1> QED
  BY <1>3

\* The writes that a run makes of its integration's status keep its type.
LEMMA RunWritesStatus ==
  ASSUME IInv, NEW x \in Runs
  PROVE  /\ ClearError(x) => status' \in [Integrations -> IntegrationStatus]
         /\ MarkError(x) => status' \in [Integrations -> IntegrationStatus]
BY DEF ClearError, MarkError, SetStatus, IInv, TypeOK, IntegrationStatus

\* Every step of a run is one of the abstract ones.
LEMMA RunSteps ==
  ASSUME IInv, NEW j \in Jobs, NEW l \in Lanes, Run(<<j, l>>)
  PROVE  \E p, s, b, a : Steps(j, l, p, s, b, a)
<1> DEFINE x == <<j, l>>
<1>1. x \in Runs /\ x[1] = j /\ x[2] = l
  BY DEF Runs
<1>2. pc[x] # "none"
  BY DEF Run, Claim, Fetch, Contact, Settle, Stamp, FailRow, FailInt, Ack
<1>3. /\ row[j] \in RowStatus \ {"absent"} /\ row = [row EXCEPT ![j] = row[j]]
      /\ status \in [Integrations -> IntegrationStatus] /\ seen \in [Runs -> IntegrationStatus]
      /\ happened \in SUBSET Events
      /\ config[j] \in Integrations
  BY <1>2 DEF IInv, Delivered, TypeOK
<1> HIDE DEF x
<1>4. CASE Claim(x)
  <2>1. CASE Reject(x, {}) /\ row' = row
    BY <1>1, <1>2, <1>3, <1>4, <2>1, RejectSteps DEF Claim, x
  <2>2. CASE SetRow(x, "processing") /\ Goto(x, "fetch") /\ UNCHANGED <<redis, seen, happened>>
    <3>1. row' = [row EXCEPT ![j] = "processing"] /\ Advances(pc[x], "fetch", row[j], "processing")
      BY <1>1, <1>4, <2>2 DEF Claim, SetRow, Advances
    <3> QED
      BY <1>1, <1>2, <1>3, <1>4, <2>2, <3>1, GoesOnSteps DEF Claim, RunPc, Claimed, RowStatus, x
  <2> QED
    BY <1>4, <2>1, <2>2 DEF Claim
<1>5. CASE Fetch(x)
  <2>1. /\ seen' \in [Runs -> IntegrationStatus] /\ row' = [row EXCEPT ![j] = row[j]]
        /\ Advances(pc[x], "contact", row[j], row[j])
    BY <1>1, <1>3, <1>5 DEF Fetch, tables, Advances, Claimed
  <2> QED
    BY <1>1, <1>2, <1>3, <1>5, <2>1, GoesOnSteps DEF Fetch, tables, RunPc, Claimed, x
<1>6. CASE Contact(x)
  <2>1. PICK p \in {"settle", "failRow"} : Goto(x, p)
    BY <1>6 DEF Contact
  <2>2. row' = [row EXCEPT ![j] = row[j]] /\ Advances(pc[x], p, row[j], row[j])
    BY <1>3, <1>6 DEF Contact, tables, Advances, Claimed
  <2> QED
    BY <1>1, <1>2, <1>3, <1>6, <2>1, <2>2, GoesOnSteps DEF Contact, tables, RunPc, Claimed, x
<1>7. CASE Settle(x)
  <2>1. CASE SetRow(x, "processed") /\ Goto(x, "stamp") /\ UNCHANGED happened
    <3>1. row' = [row EXCEPT ![j] = "processed"] /\ Advances(pc[x], "stamp", row[j], "processed")
      BY <1>1, <1>7, <2>1 DEF Settle, SetRow, Advances, Claimed, Closing, Settled
    <3> QED
      BY <1>1, <1>2, <1>3, <1>7, <2>1, <3>1, GoesOnSteps DEF Settle, RunPc, Closing, RowStatus, Settled, x
  <2>2. CASE row' = row /\ Throws(x)
    <3>1. /\ row' = [row EXCEPT ![j] = row[j]] /\ Advances(pc[x], "failRow", row[j], row[j])
          /\ happened \subseteq happened' /\ happened' \in SUBSET Events /\ Goto(x, "failRow")
      BY <1>3, <1>7, <2>2 DEF Settle, Throws, Note, Events, Advances, Claimed
    <3> QED
      BY <1>1, <1>2, <1>3, <1>7, <3>1, GoesOnSteps DEF Settle, RunPc, Claimed, x
  <2> QED
    BY <1>7, <2>1, <2>2 DEF Settle
<1>8. CASE Stamp(x)
  <2>1. status' \in [Integrations -> IntegrationStatus] /\ row' = [row EXCEPT ![j] = row[j]]
    BY <1>1, <1>3, <1>8, RunWritesStatus DEF Stamp
  <2>2. CASE Goto(x, "ack") /\ UNCHANGED happened
    <3>1. Advances(pc[x], "ack", row[j], row[j])
      BY <1>8 DEF Stamp, Advances, Closing
    <3> QED
      BY <1>1, <1>2, <1>3, <1>8, <2>1, <2>2, <3>1, GoesOnSteps DEF Stamp, RunPc, Closing, x
  <2>3. CASE Throws(x)
    <3>1. /\ Advances(pc[x], "failRow", row[j], row[j])
          /\ happened \subseteq happened' /\ happened' \in SUBSET Events /\ Goto(x, "failRow")
      BY <1>2, <1>3, <1>8, <2>3 DEF Throws, Note, Events, Advances, Closing
    <3> QED
      BY <1>1, <1>2, <1>3, <1>8, <2>1, <3>1, GoesOnSteps DEF Stamp, RunPc, Claimed, x
  <2> QED
    BY <1>8, <2>2, <2>3 DEF Stamp
<1>9. CASE FailRow(x)
  <2>1. CASE Reject(x, {}) /\ row' = row
    BY <1>1, <1>2, <1>3, <1>9, <2>1, RejectSteps DEF FailRow, x
  <2>2. CASE SetRow(x, "failed") /\ Goto(x, "failInt") /\ UNCHANGED <<redis, seen, happened>>
    <3>1. row' = [row EXCEPT ![j] = "failed"] /\ Advances(pc[x], "failInt", row[j], "failed")
      BY <1>1, <1>9, <2>2 DEF FailRow, SetRow, Advances, Claimed, Closing, Settled
    <3> QED
      BY <1>1, <1>2, <1>3, <1>9, <2>2, <3>1, GoesOnSteps DEF FailRow, RunPc, Closing, RowStatus, Settled, x
  <2> QED
    BY <1>9, <2>1, <2>2 DEF FailRow
<1>10. CASE FailInt(x)
  <2>1. status' \in [Integrations -> IntegrationStatus] /\ row' = row
    BY <1>1, <1>3, <1>10, RunWritesStatus DEF FailInt
  <2>2. CASE Note({"overwritten"}) /\ Goto(x, "ack") /\ UNCHANGED <<redis, seen>>
    <3>1. /\ row' = [row EXCEPT ![j] = row[j]] /\ Advances(pc[x], "ack", row[j], row[j])
          /\ happened \subseteq happened' /\ happened' \in SUBSET Events
      BY <1>3, <1>10, <2>1, <2>2 DEF FailInt, Note, Events, Advances, Closing
    <3> QED
      BY <1>1, <1>2, <1>3, <1>10, <2>1, <2>2, <3>1, GoesOnSteps DEF FailInt, RunPc, Closing, x
  <2>3. CASE \E events \in SUBSET Events : Reject(x, events)
    BY <1>1, <1>2, <1>10, <2>1, <2>3, RejectSteps DEF FailInt, x
  <2> QED
    BY <1>10, <2>2, <2>3 DEF FailInt, Events
<1>11. CASE Ack(x)
  <2>1. /\ attempts' = [attempts EXCEPT ![j] = attempts[j]] /\ attempts[j] \in 0..MaxAttempts
        /\ row' = [row EXCEPT ![j] = row[j]] /\ stalls' = stalls
        /\ happened \subseteq happened' /\ happened' \in SUBSET Events
    BY <1>1, <1>3, <1>11 DEF Ack, EndsUnheard, Note, Events, tables, redis, IInv, TypeOK
  <2>2. /\ pc[x] \in Closing /\ pc' = [pc EXCEPT ![x] = "none"] /\ Advances(pc[x], "none", row[j], row[j])
        /\ seen' \in [Runs -> IntegrationStatus]
    BY <1>3, <1>11 DEF Ack, Leave, Goto, Advances, Closing, IntegrationStatus
  <2>3. PICK b \in BullState :
          /\ bull' = [bull EXCEPT ![j] = b]
          /\ l # "bull" => b = bull[j]
          /\ l = "bull" => b \in {"completed", bull[j]}
    BY <1>1, <1>11 DEF Ack, EndsUnheard, redis, IInv, TypeOK, BullState
  <2>4. l = "bull" => bull[j] = "active" /\ attempts[j] < MaxAttempts
    BY <1>2 DEF IInv, Delivered, x
  <2>5. l = "bull" => BullFollows(pc[x], "none", bull[j], b, attempts[j])
    BY <2>2, <2>3, <2>4 DEF BullFollows
  <2>6. Steps(j, l, "none", row[j], b, attempts[j])
    BY <1>2, <1>3, <1>11, <2>1, <2>2, <2>3, <2>5 DEF Steps, Ack, tables, RunPc, x
  <2> QED
    BY <2>6
<1> QED
  BY <1>4, <1>5, <1>6, <1>7, <1>8, <1>9, <1>10, <1>11 DEF Run, x

\* Nor does it disturb what is known of error statuses.
LEMMA RunKeepsNoError ==
  ASSUME IInv, NEW j \in Jobs, NEW l \in Lanes, Run(<<j, l>>)
  PROVE  NoErrorSeen'
<1> DEFINE x == <<j, l>>
<1> SUFFICES ASSUME "overwritten" \notin happened'
             PROVE  /\ \A i \in Integrations : status'[i] # "error" /\ (paused'[i] <=> status'[i] = "inactive")
                    /\ \A y \in Runs : seen'[y] # "error"
  BY DEF NoErrorSeen, Never
<1>1. x \in Runs /\ x[1] = j /\ x[2] = l
  BY DEF Runs
<1> HIDE DEF x
<1>2. \E p, s, b, a : Steps(j, l, p, s, b, a)
  BY RunSteps
<1>3. happened \subseteq happened' /\ paused' = paused
  BY <1>2 DEF Steps
<1>4. /\ \A i \in Integrations : status[i] # "error" /\ (paused[i] <=> status[i] = "inactive")
      /\ \A y \in Runs : seen[y] # "error"
  BY <1>3 DEF IInv, NoErrorSeen, Never
<1>5. CASE Claim(x)
  BY <1>1, <1>3, <1>4, <1>5 DEF Claim, Reject, Leave, IInv, TypeOK
<1>6. CASE Fetch(x)
  <2>1. pc[<<j, l>>] # "none"
    BY <1>6 DEF Fetch, x
  <2>2. config[j] \in Integrations
    BY <2>1 DEF IInv, Delivered
  <2> QED
    BY <1>1, <1>3, <1>4, <1>6, <2>2 DEF Fetch, tables, IInv, TypeOK
<1>7. CASE Contact(x)
  BY <1>3, <1>4, <1>7 DEF Contact, tables
<1>8. CASE Settle(x)
  BY <1>3, <1>4, <1>8 DEF Settle
<1>9. CASE Stamp(x)
  BY <1>1, <1>3, <1>4, <1>9 DEF Stamp, ClearError
<1>10. CASE FailRow(x)
  BY <1>1, <1>3, <1>4, <1>10 DEF FailRow, Reject, Leave, IInv, TypeOK
<1>11. CASE FailInt(x)
  BY <1>1, <1>3, <1>4, <1>11 DEF FailInt, Reject, EndsUnheard, Note, Leave, IInv, TypeOK
<1>12. CASE Ack(x)
  BY <1>1, <1>3, <1>4, <1>12 DEF Ack, tables, Leave, IInv, TypeOK
<1> QED
  BY <1>5, <1>6, <1>7, <1>8, <1>9, <1>10, <1>11, <1>12 DEF Run, x

\* So the steps of a run keep the invariant ...
LEMMA RunKeepsIInv ==
  ASSUME IInv, NEW x \in Runs, Run(x)
  PROVE  IInv'
<1>1. PICK j \in Jobs, l \in Lanes : x = <<j, l>>
  BY DEF Runs
<1>2. PICK p, s, b, a : Steps(j, l, p, s, b, a)
  BY <1>1, RunSteps
<1>3. NoErrorSeen'
  BY <1>1, RunKeepsNoError
<1> QED
  BY <1>2, <1>3, StepsKeepsIInv DEF IInv

-----------------------------------------------------------------------------
(* The invariant is inductive. *)

\* ... those of the handlers do ...
LEMMA HandlerKeepsIInv ==
  ASSUME IInv, NEW r \in Requests, Handler(r)
  PROVE  IInv'
<1>1. TypeOK
  BY DEF IInv
<1>2. CASE \E i \in Integrations : TriggerGet(r, i)
  BY <1>2, TriggerTakes, TakesKeepsIInv
<1>3. CASE StockChange(r)
  BY <1>3, StockTakes, TakesKeepsIInv
<1>4. CASE (\E i \in Integrations : UpdateGet(r, i) \/ DeleteGet(r, i) \/ TestGet(r, i)) \/ RequestEnds(r)
  BY <1>1, <1>4, PlainTakes, TakesKeepsIInv
<1>5. CASE \E j \in Jobs, i \in Integrations : AddRow(r, j, i)
  BY <1>5, AddRowKeepsIInv
<1>6. CASE HandOver(r)
  BY <1>1, <1>6, HandOverHands, HandsKeepsIInv
<1>7. CASE UpdateWrite(r) \/ DeleteWrite(r) \/ TestWrite(r)
  BY <1>7, StatusWriteKeepsIInv
<1> QED
  BY <1>2, <1>3, <1>4, <1>5, <1>6, <1>7 DEF Handler

\* ... and so does a step that changes nothing.
LEMMA StutterKeepsIInv == IInv /\ UNCHANGED vars => IInv'
<1> SUFFICES ASSUME IInv, UNCHANGED vars PROVE IInv'
  OBVIOUS
<1> USE DEF vars, tables, redis
<1>1. TypeOK'
  BY DEF IInv, TypeOK
<1>2. Reserved' /\ HandedOnce' /\ Delivered'
  BY DEF IInv, Reserved, HandedOnce, Delivered
<1>3. OneLane' /\ LocksHeld' /\ Pursued' /\ SettledFirst' /\ InStep' /\ NoErrorSeen'
  BY DEF IInv, OneLane, LocksHeld, Pursued, SettledFirst, InStep, NoErrorSeen, Never, Handing
<1> QED
  BY <1>1, <1>2, <1>3 DEF IInv

\* The invariant is inductive.
LEMMA Inductive == IInv /\ [Next]_vars => IInv'
<1> SUFFICES ASSUME IInv, [Next]_vars PROVE IInv'
  OBVIOUS
<1>1. CASE \E r \in Requests : Handler(r)
  BY <1>1, HandlerKeepsIInv
<1>2. CASE \E j \in Jobs : BullTake(j) \/ Stall(j)
  BY <1>2, BullTakeKeepsIInv, StallKeepsIInv
<1>3. CASE \E x \in Runs : Run(x)
  BY <1>3, RunKeepsIInv
<1>4. CASE RedisError
  BY <1>4, RedisErrorKeepsIInv
<1>5. CASE Crash
  BY <1>5, CrashKeepsIInv
<1>6. CASE UNCHANGED vars
  BY <1>6, StutterKeepsIInv
<1> QED
  BY <1>1, <1>2, <1>3, <1>4, <1>5, <1>6 DEF Next

\* It holds in every reachable state.
LEMMA Invariance == Spec => []IInv
BY Initial, Inductive, PTL DEF Spec

-----------------------------------------------------------------------------
(* The properties that the runs check *)

\* Every variable keeps its type; in particular no job is tried more than
\* MaxAttempts times and none is redelivered more than MaxStalls times.
THEOREM TypeCorrect == Spec => []TypeOK
BY Invariance, PTL DEF IInv

\* A row is never in the hands of BullMQ and of the in-memory listener both, and
\* while no lock was lost never in the hands of two runs.
THEOREM DeliveredOnce == Spec => []SingleDelivery
<1>1. ASSUME IInv, Never({"addStored"}), NEW j \in Jobs
      PROVE  ~(Queued(j) /\ InMemory(j)) /\ ~(Handing(j) /\ (Queued(j) \/ InMemory(j)))
  <2>1. bull[j] # "none" => pc[<<j, "memory">>] = "none"
    BY <1>1 DEF IInv, OneLane
  <2>2. Handing(j) => bull[j] = "none" /\ pc[<<j, "memory">>] = "none"
    BY <1>1 DEF IInv, HandedOnce, Handing
  <2> QED
    BY <2>1, <2>2 DEF Queued, InMemory
<1>2. ASSUME IInv, Never({"addStored", "lockLost"}), NEW j \in Jobs, NEW l \in Lanes, NEW m \in Lanes,
             pc[<<j, l>>] # "none", pc[<<j, m>>] # "none"
      PROVE  l = m
  <2>1. l \in {"bull", "memory"} /\ m \in {"bull", "memory"}
    BY <1>2 DEF IInv, LocksHeld, Never, Lanes
  <2>2. pc[<<j, "bull">>] # "none" => pc[<<j, "memory">>] = "none"
    BY <1>2 DEF IInv, OneLane, Delivered, Never
  <2> QED
    BY <1>2, <2>1, <2>2
<1>3. IInv => SingleDelivery
  BY <1>1, <1>2 DEF SingleDelivery
<1> QED
  BY <1>3, Invariance, PTL

\* No row is left behind by the hand-over, whatever Redis does.
THEOREM NothingStranded == Spec => []NoStrandedRow
<1>1. IInv => NoStrandedRow
  <2> SUFFICES ASSUME IInv, Never({"interrupted"}), NEW j \in Jobs, row[j] \in {"pending", "processing"}
               PROVE  Handing(j) \/ Queued(j) \/ Running(j)
    BY DEF NoStrandedRow
  <2>1. Handing(j) \/ bull[j] = "waiting" \/ \E l \in Lanes : pc[<<j, l>>] \in Working
    BY DEF IInv, Pursued
  <2> QED
    BY <2>1 DEF Queued, Running, Working, Claimed
<1> QED
  BY <1>1, Invariance, PTL

\* BullMQ completes a job only when its row is settled.
THEOREM CompletionIsHonest == Spec => []CompletedIsSettled
<1>1. IInv => CompletedIsSettled
  BY DEF IInv, SettledFirst, CompletedIsSettled
<1> QED
  BY <1>1, Invariance, PTL

\* The status column is what the user last chose until an error is written.
THEOREM SwitchHolds == Spec => []PauseHolds
<1>1. IInv => PauseHolds
  BY DEF IInv, NoErrorSeen, PauseHolds
<1> QED
  BY <1>1, Invariance, PTL

-----------------------------------------------------------------------------
(* Until the first fault, every step is a step of JobBoard or leaves the    *)
(* table alone.                                                             *)

\* A step of a run is a step of the job board, or none.
LEMMA RunStepOfBoard ==
  ASSUME IInv, NEW x \in Runs, Run(x), Never({"interrupted", "addStored", "lockLost"})'
  PROVE  Board!Next \/ row' = row
<1>1. PICK j \in Jobs, l \in Lanes : x = <<j, l>>
  BY DEF Runs
<1>2. PICK p, s, b, a : Steps(j, l, p, s, b, a)
  BY <1>1, RunSteps
<1>3. /\ row' = [row EXCEPT ![j] = s] /\ row \in [Jobs -> RowStatus] /\ x[1] = j
      /\ Advances(pc[x], p, row[j], s) /\ "interrupted" \notin happened'
      /\ Never({"interrupted", "addStored", "lockLost"})
  BY <1>1, <1>2 DEF Steps, IInv, TypeOK, Never
<1>4. /\ pc[x] = "claim"   => row[j] = "pending"
      /\ pc[x] \in Claimed => row[j] = "processing"
  BY <1>3 DEF IInv, InStep
<1>5. CASE s = row[j]
  BY <1>3, <1>5
<1>6. CASE row[j] = "pending" /\ s = "processing"
  <2>1. Board!Claim(j)
    BY <1>3, <1>6 DEF Board!Claim, Board!Move
  <2> QED
    BY <2>1 DEF Board!Next
<1>7. CASE row[j] = "processing" /\ s \in Settled
  <2>1. Board!Settle(j)
    BY <1>3, <1>7 DEF Board!Settle, Board!Move, Board!Settled, Settled
  <2> QED
    BY <2>1 DEF Board!Next
<1> QED
  BY <1>3, <1>4, <1>5, <1>6, <1>7 DEF Advances

\* So is every step.
LEMMA StepOfBoard ==
  IInv /\ [Next]_vars => (Never({"interrupted", "addStored", "lockLost"})' => [Board!Next]_row)
<1> SUFFICES ASSUME IInv, [Next]_vars, Never({"interrupted", "addStored", "lockLost"})'
             PROVE  Board!Next \/ row' = row
  OBVIOUS
<1>1. ASSUME NEW r \in Requests, NEW j \in Jobs, NEW i \in Integrations, AddRow(r, j, i)
      PROVE  Board!Next
  <2>1. row[j] = "absent" /\ row' = [row EXCEPT ![j] = "pending"]
    BY <1>1 DEF AddRow, IInv, Reserved
  <2>2. Board!Create(j)
    BY <2>1 DEF Board!Create, Board!Move
  <2> QED
    BY <2>2 DEF Board!Next
<1>2. ASSUME NEW r \in Requests, Handler(r)
      PROVE  Board!Next \/ row' = row
  BY <1>1, <1>2 DEF Handler, HandOver, TriggerGet, StockChange, HandToBull, HandToMemory, HandToBoth,
     UpdateGet, UpdateWrite, DeleteGet, DeleteWrite, TestGet, TestWrite, RequestEnds, tables
<1>3. ASSUME NEW x \in Runs, Run(x)
      PROVE  Board!Next \/ row' = row
  BY <1>3, RunStepOfBoard
<1>4. CASE (\E j \in Jobs : BullTake(j) \/ Stall(j)) \/ RedisError \/ Crash \/ UNCHANGED vars
  BY <1>4 DEF BullTake, Stall, RedisError, Crash, vars, tables
<1> QED
  BY <1>2, <1>3, <1>4 DEF Next

\* A row is created, claimed and settled once until the first fault.
THEOREM HandledOnce == Spec => ExactlyOnce
BY Invariance, StepOfBoard, PTL DEF Spec, ExactlyOnce

\* JobBoard's safety part is implemented: its initial states and, until the
\* first fault, its steps.
THEOREM BoardRefined ==
  Spec => /\ Board!Init
          /\ [][Never({"interrupted", "addStored", "lockLost"})' => [Board!Next]_row]_vars
<1>1. Init => Board!Init
  BY DEF Init, Board!Init
<1> QED
  BY <1>1, HandledOnce, PTL DEF Spec, ExactlyOnce
=============================================================================
