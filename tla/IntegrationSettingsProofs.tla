--------------------- MODULE IntegrationSettingsProofs ----------------------
(***************************************************************************)
(* Proofs of the safety properties of IntegrationSettings, for every       *)
(* manifest, every set of wizard steps and requests, every number of       *)
(* revisions and every set of faults.                                      *)
(***************************************************************************)
EXTENDS IntegrationSettings, TLAPS

-----------------------------------------------------------------------------
(* Types *)

\* A handler that will complete a step knows which.
StepKnown ==
  \A r \in Requests : request[r].pc \in {"findStep", "effective", "mark"} => request[r].step \in Steps

TypeInv == TypeOK /\ StepKnown

\* What a handler may turn into.
Handed(h) == h \in RequestRec /\ (h.pc \in {"findStep", "effective", "mark"} => h.step \in Steps)

\* NoRow and Idle have their types.
LEMMA Constants == NoRow \in Row /\ Handed(Idle)
BY DEF NoRow, Row, Idle, RequestRec, RequestPc, Handed

\* findSetting() returns a row.
LEMMA FoundType == TypeOK => Found \in Row
BY Constants DEF Found, TypeOK

\* The values a save writes are keys of the manifest.
LEMMA SaveResultType ==
  ASSUME NEW stored \in SUBSET Keys, NEW partial \in BOOLEAN,
         NEW set \in SUBSET Keys, NEW cleared \in SUBSET Keys
  PROVE  SaveResult(stored, partial, set, cleared) \in SUBSET Keys
BY DEF SaveResult, Prune

\* A handler becomes another one of its type.
LEMMA GotoKeepsType ==
  ASSUME TypeInv, NEW r \in Requests, NEW h, Handed(h), Goto(r, h)
  PROVE  request' \in [Requests -> RequestRec] /\ StepKnown'
BY DEF TypeInv, TypeOK, StepKnown, Handed, Goto

-----------------------------------------------------------------------------
(* The steps of the handlers, by what they change *)

\* The steps that read, give up or fail change nothing but their request, and
\* none of them is a request that still has to drop the cache entry.
Quiet(r) ==
  /\ request[r].pc \notin {"invalidate", "invalidateDropped"}
  /\ \E h : Handed(h) /\ Goto(r, h)
  /\ UNCHANGED <<deleted, setting, revisions, cache, happened>>

\* A save reads and leaves; what it will write are keys of the manifest.
LEMMA SaveQuiet == ASSUME TypeInv, NEW r \in Requests, Save(r) PROVE Quiet(r)
<1>1. PICK partial \in BOOLEAN, set \in SUBSET Keys, cleared \in SUBSET Keys, step \in Steps \cup {NONE} :
        Goto(r, Writing(Found, SaveResult(Found.values, partial, set, cleared),
                        IF partial THEN set \cup cleared ELSE Keys, step))
  BY DEF Save
<1>2. SaveResult(Found.values, partial, set, cleared) \in SUBSET Keys
  BY FoundType, SaveResultType DEF TypeInv, Row
<1> QED
  BY <1>1, <1>2, FoundType DEF Quiet, Save, Begins, Writing, Handed, RequestRec, RequestPc, TypeInv

\* So does a reset ...
LEMMA ResetQuiet == ASSUME TypeInv, NEW r \in Requests, Reset(r) PROVE Quiet(r)
<1>1. PICK section \in Sections \cup {Keys} : Goto(r, Writing(setting, setting.values \ section, section, NONE))
  BY DEF Reset
<1>2. setting \in Row /\ setting.values \in SUBSET Keys /\ section \in SUBSET Keys
  BY GateAssumption DEF TypeInv, TypeOK, Row
<1> QED
  BY <1>1, <1>2 DEF Quiet, Reset, Begins, Writing, Handed, RequestRec, RequestPc

\* ... and a restore, whose values are those of a revision.
LEMMA RestoreQuiet == ASSUME TypeInv, NEW r \in Requests, Restore(r) PROVE Quiet(r)
<1>1. PICK version \in DOMAIN revisions :
        Goto(r, Writing(setting, revisions[version], Keys, NONE))
  BY DEF Restore
<1>2. setting \in Row /\ revisions[version] \in SUBSET Keys
  BY DEF TypeInv, TypeOK
<1> QED
  BY <1>1, <1>2 DEF Quiet, Restore, Begins, Writing, Handed, RequestRec, RequestPc

\* The other steps that only read, start a handler or give one up.
LEMMA OthersQuiet ==
  ASSUME TypeInv, NEW r \in Requests,
         CompleteStep(r) \/ FindStep(r) \/ Effective(r) \/ Miss(r) \/ Delete(r) \/ Fails(r)
  PROVE  Quiet(r)
<1> USE Constants, FoundType DEF TypeInv, RequestRec, RequestPc, Handed, Idle, Answer
<1>1. request[r] \in RequestRec /\ setting \in Row /\ Found.values \in SUBSET Keys
  BY DEF TypeOK, Row
<1>2. ASSUME CompleteStep(r) PROVE Quiet(r)
  BY <1>2 DEF CompleteStep, Quiet, Begins
<1>3. ASSUME FindStep(r) PROVE Quiet(r)
  <2>1. Handed([request[r] EXCEPT !.pc = "effective", !.was = setting])
    BY <1>1, <1>3 DEF FindStep, StepKnown
  <2> QED BY <2>1, <1>3 DEF FindStep, Quiet
<1>4. ASSUME Effective(r) PROVE Quiet(r)
  <2>1. Handed([request[r] EXCEPT !.pc = "mark", !.next = Found.values])
    BY <1>1, <1>4 DEF Effective, StepKnown
  <2> QED BY <2>1, <1>4 DEF Effective, Quiet
<1>5. ASSUME Miss(r) PROVE Quiet(r)
  BY <1>1, <1>5 DEF Miss, Quiet, Begins
<1>6. ASSUME Delete(r) \/ Fails(r) PROVE Quiet(r)
  BY <1>6 DEF Delete, Fails, Quiet, Begins
<1> QED BY <1>2, <1>3, <1>4, <1>5, <1>6

\* The other steps, which write a table or the cache.
Writes(r) ==
  \/ Persist(r) \/ Invalidate(r) \/ Mark(r) \/ Put(r)
  \/ Ensure(r) \/ Drop(r) \/ InvalidateDropped(r) \/ Remove(r)

\* Every step of a handler is one or the other.
LEMMA HandlerSteps ==
  ASSUME TypeInv, NEW r \in Requests, Handler(r)
  PROVE  Quiet(r) \/ Writes(r)
BY SaveQuiet, ResetQuiet, RestoreQuiet, OthersQuiet DEF Handler, Writes

-----------------------------------------------------------------------------
(* Type correctness *)

\* TypeInv is inductive: it holds at first ...
LEMMA InitTypes == Init => TypeInv
<1> SUFFICES ASSUME Init PROVE TypeInv
  OBVIOUS
<1>1. \A r \in Requests : Handed(request[r]) /\ request[r].pc \in {"idle", "ensure"}
  BY Constants DEF Init, Idle, Handed, RequestRec, RequestPc
<1>2. request \in [Requests -> RequestRec]
  BY <1>1 DEF Init, Handed
<1>3. revisions \in Seq(SUBSET Keys) /\ Len(revisions) <= MaxVersion
  BY BoundAssumption DEF Init
<1>4. setting \in Row /\ deleted \in BOOLEAN /\ cache \in {{}} \cup {{values} : values \in SUBSET Keys}
        /\ happened \in SUBSET Races
  BY Constants DEF Init
<1>5. StepKnown
  BY <1>1 DEF StepKnown
<1> QED
  BY <1>2, <1>3, <1>4, <1>5 DEF TypeInv, TypeOK

\* ... after the transaction of persist() ...
LEMMA PersistTypes ==
  ASSUME TypeInv, NEW r \in Requests, Persist(r)
  PROVE  TypeInv'
<1> DEFINE h == request[r]
           after == [Idle EXCEPT !.pc = "invalidate", !.step = h.step]
<1>1. h \in RequestRec /\ h.next \in SUBSET Keys /\ setting \in Row
  BY DEF TypeInv, TypeOK, RequestRec
<1>2. Handed(after) /\ Goto(r, after)
  BY <1>1, Constants DEF Persist, Handed, RequestRec, RequestPc, Idle
<1>3. setting' \in Row
  BY <1>1 DEF Persist, Upserted, Row, Complete
<1>4. revisions' \in Seq(SUBSET Keys) /\ Len(revisions') <= MaxVersion
  BY <1>1, BoundAssumption DEF Persist, TypeInv, TypeOK
<1> QED
  BY <1>2, <1>3, <1>4, GotoKeepsType DEF Persist, TypeInv, TypeOK, Note, Races

\* ... after the update of completeWizardStep() ...
LEMMA MarkTypes ==
  ASSUME TypeInv, NEW r \in Requests, Mark(r)
  PROVE  TypeInv'
<1> DEFINE h == request[r]
           after == [Idle EXCEPT !.pc = "invalidate"]
<1>1. h \in RequestRec /\ h.was \in Row /\ h.step \in Steps /\ setting \in Row
  BY DEF TypeInv, TypeOK, StepKnown, RequestRec, Mark
<1>2. Handed(after) /\ Goto(r, after)
  BY Constants DEF Mark, Handed, RequestRec, RequestPc, Idle
<1>3. setting' \in Row
  BY <1>1 DEF Mark, Row, Complete
<1> QED
  BY <1>2, <1>3, GotoKeepsType DEF Mark, TypeInv, TypeOK, Note, Races

\* ... after the other writes ...
LEMMA OtherWritesTypes ==
  ASSUME TypeInv, NEW r \in Requests,
         Invalidate(r) \/ Put(r) \/ Ensure(r) \/ Drop(r) \/ InvalidateDropped(r) \/ Remove(r)
  PROVE  TypeInv'
<1> DEFINE h == request[r]
<1> USE Constants DEF TypeInv, RequestRec, RequestPc, Answer
<1>1. h \in RequestRec /\ setting \in Row
  BY DEF TypeOK
<1>2. /\ \E g : Handed(g) /\ Goto(r, g)
      /\ setting' \in Row
  <2>1. CASE Invalidate(r)
    <3>1. CASE h.step # NONE /\ ~deleted
      <4>1. Handed([h EXCEPT !.pc = "findStep"])
        BY <1>1, <3>1 DEF Handed
      <4> QED BY <4>1, <2>1, <3>1, <1>1 DEF Invalidate
    <3> QED BY <2>1, <3>1, <1>1 DEF Invalidate
  <2>2. CASE Put(r) \/ Remove(r)
    BY <2>2, <1>1 DEF Put, Remove
  <2>3. CASE Ensure(r)
    BY <2>3, <1>1 DEF Ensure, Row
  <2>4. CASE Drop(r) \/ InvalidateDropped(r)
    <3>1. Handed([h EXCEPT !.pc = "invalidateDropped"]) /\ Handed([h EXCEPT !.pc = "remove"])
      BY <1>1 DEF Handed
    <3> QED BY <2>4, <1>1, <3>1 DEF Drop, InvalidateDropped, Row
  <2> QED BY <2>1, <2>2, <2>3, <2>4
<1>3. request' \in [Requests -> RequestRec] /\ StepKnown'
  BY <1>2, GotoKeepsType
<1>4. h.next \in SUBSET Keys
  BY <1>1
<1> QED
  BY <1>2, <1>3, <1>4
  DEF TypeOK, Invalidate, Put, Ensure, Drop, InvalidateDropped, Remove, Note, Races

\* ... and after every step.
LEMMA StepTypes == TypeInv /\ [Next]_vars => TypeInv'
<1> SUFFICES ASSUME TypeInv, [Next]_vars PROVE TypeInv'
  OBVIOUS
<1>1. ASSUME NEW r \in Requests, Quiet(r) PROVE TypeInv'
  BY <1>1, GotoKeepsType DEF Quiet, TypeInv, TypeOK
<1>2. ASSUME NEW r \in Requests, Writes(r) PROVE TypeInv'
  BY <1>2, PersistTypes, MarkTypes, OtherWritesTypes DEF Writes
<1>3. CASE Crash
  BY <1>3, Constants DEF Crash, TypeInv, TypeOK, StepKnown, Handed, Idle
<1>4. CASE Expire \/ UNCHANGED vars
  BY <1>4 DEF Expire, vars, TypeInv, TypeOK, StepKnown
<1> QED
  BY <1>1, <1>2, <1>3, <1>4, HandlerSteps DEF Next

\* So it holds in every reachable state.
LEMMA TypesHold == Spec => []TypeInv
BY InitTypes, StepTypes, PTL DEF Spec

\* Rows, revisions, cache and handlers keep their types: in particular only
\* steps of the manifest are ever recorded as completed.
THEOREM TypeCorrect == Spec => []TypeOK
BY TypesHold, PTL DEF TypeInv

-----------------------------------------------------------------------------
(* Hidden values, and what a write changes *)

\* No plain value of a hidden field.
Shown(values) == \A k \in values \ Secrets : Visible(k, values)

\* A handler changes of what it has read only what it may change.
Layered(h) == Differing(h.was.values, h.next) \subseteq MayChange(h.about)

\* Nor is there one among the values a handler will write, or may restore.
ShownInv ==
  /\ NoHiddenValue
  /\ \A v \in DOMAIN revisions : Shown(revisions[v])
  /\ \A r \in Requests : request[r].pc = "persist" => Shown(request[r].next) /\ Layered(request[r])

\* What a save writes has been pruned: a gate is never pruned itself.
LEMMA SaveShows ==
  ASSUME NEW stored \in SUBSET Keys, NEW partial \in BOOLEAN,
         NEW set \in SUBSET Keys, NEW cleared \in SUBSET Keys
  PROVE  Shown(SaveResult(stored, partial, set, cleared))
BY GateAssumption DEF Shown, SaveResult, Prune, Visible

\* A PATCH of a row without hidden values drops only what it names, and what it
\* hides by blanking a gate.
LEMMA SaveLayers ==
  ASSUME NEW stored \in SUBSET Keys, Shown(stored), NEW set \in SUBSET Keys, NEW cleared \in SUBSET Keys
  PROVE  Differing(stored, SaveResult(stored, TRUE, set, cleared)) \subseteq MayChange(set \cup cleared)
<1> DEFINE plain == ((stored \ Secrets) \ cleared) \cup (set \ Secrets)
           next == SaveResult(stored, TRUE, set, cleared)
<1>1. \A k : k \in next <=> \/ k \in plain /\ Visible(k, plain)
                            \/ k \in Secrets /\ (k \in stored \/ k \in set)
  BY DEF SaveResult, Prune
<1>2. ASSUME NEW k \in Differing(stored, next), k \notin set, k \notin cleared
      PROVE  k \in DOMAIN Gate \ Secrets /\ Gate[k] \in cleared
  <2>1. k \notin Secrets
    BY <1>1, <1>2 DEF Differing
  <2>2. k \in stored /\ ~Visible(k, plain)
    BY <1>1, <1>2, <2>1 DEF Differing
  <2>3. Gate[k] \in stored /\ Gate[k] \notin plain /\ k \in DOMAIN Gate
    BY <2>1, <2>2 DEF Shown, Visible
  <2> QED
    BY <2>1, <2>3, GateAssumption
<1> QED
  BY <1>2 DEF MayChange

\* A reset of a section takes what the section's fields gate along.
LEMMA ResetShows ==
  ASSUME NEW values \in SUBSET Keys, Shown(values), NEW section \in Sections \cup {Keys}
  PROVE  Shown(values \ section)
BY GateAssumption DEF Shown, Visible

\* No other step makes a handler one that is about to write values.
LEMMA WritesKeepPersist ==
  ASSUME TypeInv, NEW r \in Requests, Writes(r), NEW q \in Requests, request'[q].pc = "persist"
  PROVE  request'[q] = request[q]
<1>1. CASE Persist(r) \/ Mark(r)
  BY <1>1 DEF Persist, Mark, Goto, Idle, TypeInv, TypeOK
<1>2. CASE ~Persist(r) /\ ~Mark(r)
  BY <1>2 DEF Writes, Invalidate, Put, Ensure, Drop, InvalidateDropped, Remove,
       Answer, Goto, Idle, TypeInv, TypeOK, RequestRec
<1> QED BY <1>1, <1>2

\* A request that goes to another place is not about to write values either.
LEMMA GotoElsewhere ==
  ASSUME TypeInv, NEW r \in Requests, NEW h, h.pc # "persist", Goto(r, h),
         NEW q \in Requests, request'[q].pc = "persist"
  PROVE  request'[q] = request[q]
BY DEF Goto, TypeInv, TypeOK

\* Nor do the quiet steps, other than those that start a write.
LEMMA OthersKeepPersist ==
  ASSUME TypeInv, NEW r \in Requests,
         CompleteStep(r) \/ FindStep(r) \/ Effective(r) \/ Miss(r) \/ Delete(r) \/ Fails(r),
         NEW q \in Requests, request'[q].pc = "persist"
  PROVE  request'[q] = request[q]
<1>1. Idle.pc = "idle"
  BY DEF Idle
<1>2. request[r] \in RequestRec
  BY DEF TypeInv, TypeOK
<1>3. CASE Answer(r)
  BY <1>1, <1>3, GotoElsewhere DEF Answer
<1>4. CASE CompleteStep(r)
  <2>1. PICK step \in Steps : Goto(r, [Idle EXCEPT !.pc = "findStep", !.step = step])
    BY <1>4 DEF CompleteStep
  <2>2. [Idle EXCEPT !.pc = "findStep", !.step = step].pc = "findStep"
    BY DEF Idle
  <2> QED BY <2>1, <2>2, GotoElsewhere
<1>5. CASE Miss(r)
  <2>1. Goto(r, [Idle EXCEPT !.pc = "put", !.next = Found.values])
    BY <1>5 DEF Miss
  <2>2. [Idle EXCEPT !.pc = "put", !.next = Found.values].pc = "put"
    BY DEF Idle
  <2> QED BY <2>1, <2>2, GotoElsewhere
<1>6. CASE Delete(r)
  <2>1. Goto(r, [Idle EXCEPT !.pc = "drop"])
    BY <1>6 DEF Delete
  <2>2. [Idle EXCEPT !.pc = "drop"].pc = "drop"
    BY DEF Idle
  <2> QED BY <2>1, <2>2, GotoElsewhere
<1>7. CASE FindStep(r)
  <2>1. Answer(r) \/ Goto(r, [request[r] EXCEPT !.pc = "effective", !.was = setting])
    BY <1>7 DEF FindStep
  <2>2. [request[r] EXCEPT !.pc = "effective", !.was = setting].pc = "effective"
    BY <1>2 DEF RequestRec
  <2> QED BY <2>1, <2>2, <1>3, GotoElsewhere
<1>8. CASE Effective(r)
  <2>1. Answer(r) \/ Goto(r, [request[r] EXCEPT !.pc = "mark", !.next = Found.values])
    BY <1>8 DEF Effective
  <2>2. [request[r] EXCEPT !.pc = "mark", !.next = Found.values].pc = "mark"
    BY <1>2 DEF RequestRec
  <2> QED BY <2>1, <2>2, <1>3, GotoElsewhere
<1>9. CASE Fails(r)
  BY <1>9, <1>3 DEF Fails
<1> QED BY <1>4, <1>5, <1>6, <1>7, <1>8, <1>9

\* Only three handlers come to write values.
LEMMA PersistFrom ==
  ASSUME TypeInv, ShownInv, NEW r \in Requests, Quiet(r), Handler(r),
         NEW q \in Requests, request'[q].pc = "persist"
  PROVE  Shown(request'[q].next) /\ Layered(request'[q])
<1>1. CASE request'[q] = request[q]
  BY <1>1 DEF ShownInv
<1>2. CASE request'[q] # request[q]
  <2>1. q = r
    BY <1>2 DEF Quiet, Goto, TypeInv, TypeOK
  <2>2. setting \in Row /\ setting.values \in SUBSET Keys /\ Found.values \in SUBSET Keys
    BY FoundType DEF TypeInv, TypeOK, Row
  <2>3. Shown(setting.values)
    BY DEF ShownInv, NoHiddenValue, Shown
  <2>4. CASE Save(r)
    <3>1. PICK partial \in BOOLEAN, set \in SUBSET Keys, cleared \in SUBSET Keys,
               step \in Steps \cup {NONE} :
            Goto(r, Writing(Found, SaveResult(Found.values, partial, set, cleared),
                            IF partial THEN set \cup cleared ELSE Keys, step))
      BY <2>4 DEF Save
    <3> DEFINE next == SaveResult(Found.values, partial, set, cleared)
               h == Writing(Found, next, IF partial THEN set \cup cleared ELSE Keys, step)
    <3>2. request'[q] = h
      BY <3>1, <2>1 DEF Goto, TypeInv, TypeOK
    <3>3. Shown(next) /\ next \in SUBSET Keys
      BY <2>2, SaveShows, SaveResultType
    <3>4. Shown(Found.values)
      BY <2>3 DEF Found, NoRow, Shown
    <3>5. Differing(Found.values, next) \subseteq MayChange(IF partial THEN set \cup cleared ELSE Keys)
      <4>1. CASE partial
        BY <2>2, <3>4, <4>1, SaveLayers
      <4>2. CASE ~partial
        BY <2>2, <3>3, <4>2 DEF Differing, MayChange
      <4> QED
        BY <4>1, <4>2
    <3> HIDE DEF next
    <3> QED
      BY <3>2, <3>3, <3>5 DEF Writing, Layered
  <2>5. CASE Reset(r)
    <3>1. PICK section \in Sections \cup {Keys} :
            Goto(r, Writing(setting, setting.values \ section, section, NONE))
      BY <2>5 DEF Reset
    <3>2. request'[q] = Writing(setting, setting.values \ section, section, NONE)
      BY <3>1, <2>1 DEF Goto, TypeInv, TypeOK
    <3>3. Shown(setting.values \ section)
      BY <2>2, <2>3, ResetShows
    <3>4. Differing(setting.values, setting.values \ section) \subseteq MayChange(section)
      BY DEF Differing, MayChange
    <3> QED BY <3>2, <3>3, <3>4 DEF Writing, Layered
  <2>6. CASE Restore(r)
    <3>1. PICK version \in DOMAIN revisions : Goto(r, Writing(setting, revisions[version], Keys, NONE))
      BY <2>6 DEF Restore
    <3>2. request'[q] = Writing(setting, revisions[version], Keys, NONE)
      BY <3>1, <2>1 DEF Goto, TypeInv, TypeOK
    <3>3. Shown(revisions[version]) /\ revisions[version] \in SUBSET Keys
      BY DEF ShownInv, TypeInv, TypeOK
    <3>4. Differing(setting.values, revisions[version]) \subseteq MayChange(Keys)
      BY <2>2, <3>3 DEF Differing, MayChange
    <3> QED BY <3>2, <3>3, <3>4 DEF Writing, Layered
  <2> QED
    BY <1>2, <2>4, <2>5, <2>6, WritesKeepPersist, OthersKeepPersist DEF Handler, Writes
<1> QED BY <1>1, <1>2

\* So the values that are stored, or about to be, are never hidden.
LEMMA ShownHolds == Spec => []ShownInv
<1>1. Init => ShownInv
  BY DEF Init, NoRow, Idle, ShownInv, NoHiddenValue
<1>2. TypeInv /\ ShownInv /\ [Next]_vars => ShownInv'
  <2> SUFFICES ASSUME TypeInv, ShownInv, [Next]_vars PROVE ShownInv'
    OBVIOUS
  <2>1. ASSUME NEW r \in Requests, Quiet(r), Handler(r) PROVE ShownInv'
    BY <2>1, PersistFrom DEF Quiet, ShownInv, NoHiddenValue, Visible
  <2>2. ASSUME NEW r \in Requests, Persist(r) PROVE ShownInv'
    <3>1. Shown(request[r].next) /\ setting'.values = request[r].next
            /\ revisions' = Append(revisions, request[r].next)
      BY <2>2 DEF Persist, Upserted, ShownInv
    <3>2. \A q \in Requests : request'[q].pc = "persist" => request'[q] = request[q]
      BY <2>2, WritesKeepPersist DEF Writes
    <3>3. \A v \in DOMAIN revisions' : Shown(revisions'[v])
      BY <3>1 DEF ShownInv, TypeInv, TypeOK
    <3> QED BY <3>1, <3>2, <3>3 DEF ShownInv, NoHiddenValue, Shown
  <2>3. ASSUME NEW r \in Requests, Writes(r), ~Persist(r) PROVE ShownInv'
    <3>1. \A q \in Requests : request'[q].pc = "persist" => request'[q] = request[q]
      BY <2>3, WritesKeepPersist
    <3>2. setting'.values = setting.values /\ revisions' = revisions
      BY <2>3 DEF Writes, Invalidate, Mark, Put, Ensure, Drop, InvalidateDropped, Remove,
           TypeInv, TypeOK, Row
    <3> QED BY <3>1, <3>2 DEF ShownInv, NoHiddenValue, Shown
  <2>4. CASE Expire \/ Crash \/ UNCHANGED vars
    BY <2>4 DEF Expire, Crash, vars, Idle, ShownInv, NoHiddenValue, Visible
  <2> QED BY <2>1, <2>2, <2>3, <2>4, HandlerSteps DEF Next
<1> QED
  BY <1>1, <1>2, TypesHold, PTL DEF Spec

\* A plain value of a hidden field never stays in storage, after any sequence of
\* saves, section resets, restores, deletions and re-creations.
THEOREM HiddenNeverStored == Spec => []NoHiddenValue
BY ShownHolds, PTL DEF ShownInv

\* Whatever handlers overlap, a save, a reset or a restore takes from the row
\* nothing it is not about, but what has changed since it read the row.
THEOREM LostOnlyToRaces == Spec => LosesOnlyRaced
<1>1. TypeInv /\ ShownInv /\ [Next]_vars =>
        [\A r \in Requests : Persist(r) =>
           Differing(Found.values, setting'.values)
             \subseteq MayChange(request[r].about) \cup Differing(request[r].was.values, Found.values)]_vars
  <2> SUFFICES ASSUME ShownInv, NEW r \in Requests, Persist(r)
               PROVE  Differing(Found.values, setting'.values)
                        \subseteq MayChange(request[r].about) \cup Differing(request[r].was.values, Found.values)
    OBVIOUS
  <2>1. setting'.values = request[r].next
    BY DEF Persist, Upserted
  <2>2. Differing(request[r].was.values, request[r].next) \subseteq MayChange(request[r].about)
    BY DEF Persist, ShownInv, Layered
  <2> QED
    BY <2>1, <2>2 DEF Differing
<1> QED
  BY <1>1, TypesHold, ShownHolds, PTL DEF Spec, LosesOnlyRaced

-----------------------------------------------------------------------------
(* What holds until two handlers overlap *)

\* An integration is configured only if every required step is done and nothing
\* required is blank, until a handler writes over a row that has changed since
\* it read it.
THEOREM ConfiguredHonestly == Spec => []ConfiguredUnlessRaced
<1> DEFINE Inv == ConfiguredUnlessRaced
<1>1. Init => Inv
  BY DEF Init, NoRow, ConfiguredUnlessRaced, ConfiguredIsComplete
<1>2. TypeInv /\ Inv /\ [Next]_vars => Inv'
  <2> SUFFICES ASSUME TypeInv, Inv, [Next]_vars, "staleWrite" \notin happened'
               PROVE  ConfiguredIsComplete'
    BY DEF ConfiguredUnlessRaced
  <2>1. setting \in Row
    BY DEF TypeInv, TypeOK
  <2>2. ASSUME NEW r \in Requests, Persist(r) PROVE ConfiguredIsComplete'
    <3>1. request[r].was = Found
      BY <2>2 DEF Persist, Note
    <3>2. request[r].was.steps \subseteq setting.steps
      BY <2>1, <3>1 DEF Found, NoRow, Row
    <3> QED
      BY <2>2, <3>2 DEF Persist, Upserted, ConfiguredIsComplete, Complete
  <2>3. ASSUME NEW r \in Requests, Mark(r) PROVE ConfiguredIsComplete'
    <3>1. request[r].next = setting.values
      BY <2>3 DEF Mark, Note
    <3> QED
      BY <2>1, <2>3, <3>1 DEF Mark, ConfiguredIsComplete, Row
  <2>4. ASSUME happened \subseteq happened',
               setting'.steps = setting.steps, setting'.values = setting.values,
               setting'.configured = setting.configured
        PROVE  ConfiguredIsComplete'
    BY <2>4 DEF ConfiguredUnlessRaced, ConfiguredIsComplete, Complete, Missing, Visible
  <2>5. ASSUME NEW r \in Requests, Writes(r), ~Persist(r), ~Mark(r) PROVE ConfiguredIsComplete'
    BY <2>1, <2>4, <2>5
    DEF Writes, Invalidate, Put, Ensure, Drop, InvalidateDropped, Remove, Note, Row
  <2> QED
    BY <2>2, <2>3, <2>4, <2>5, HandlerSteps DEF Next, Quiet, Expire, Crash, vars
<1> QED
  BY <1>1, <1>2, TypesHold, PTL DEF Spec

\* Until then no wizard step that was completed is lost.
THEOREM NoStepLost == Spec => StepsStay
<1>1. TypeInv /\ [Next]_vars =>
        [("staleWrite" \notin happened' => setting.steps \subseteq setting'.steps)]_vars
  <2> SUFFICES ASSUME TypeInv, [Next]_vars, "staleWrite" \notin happened'
               PROVE  setting.steps \subseteq setting'.steps
    OBVIOUS
  <2>1. setting \in Row
    BY DEF TypeInv, TypeOK
  <2>2. ASSUME NEW r \in Requests, Mark(r) PROVE setting.steps \subseteq setting'.steps
    BY <2>1, <2>2 DEF Mark, Note, Row
  <2>3. ASSUME NEW r \in Requests, Writes(r), ~Mark(r) PROVE setting'.steps = setting.steps
    BY <2>1, <2>3
    DEF Writes, Persist, Upserted, Invalidate, Put, Ensure, Drop, InvalidateDropped, Remove, Row
  <2> QED
    BY <2>2, <2>3, HandlerSteps DEF Next, Quiet, Expire, Crash, vars
<1> QED
  BY <1>1, TypesHold, PTL DEF Spec, StepsStay

-----------------------------------------------------------------------------
(* The cache *)

\* A row that was never inserted holds nothing, and the cache is fresh.
CacheInv ==
  /\ CacheFreshUnlessOvertaken
  /\ setting.state = "none" => setting.values = {}

\* A request that is about to drop the entry stays so while another one moves.
LEMMA StillInvalidating ==
  ASSUME TypeInv, NEW r \in Requests, NEW h, Goto(r, h),
         request[r].pc \notin {"invalidate", "invalidateDropped"}, Invalidating
  PROVE  Invalidating'
<1>1. PICK q \in Requests : request[q].pc \in {"invalidate", "invalidateDropped"}
  BY DEF Invalidating
<1>2. request'[q] = request[q]
  BY <1>1 DEF Goto, TypeInv, TypeOK
<1> QED
  BY <1>1, <1>2 DEF Invalidating

\* A handler that writes the values, or the row's state, drops the entry next.
LEMMA WritersInvalidate ==
  ASSUME TypeInv, NEW r \in Requests, Persist(r) \/ Mark(r) \/ Drop(r)
  PROVE  Invalidating'
<1>1. request[r] \in RequestRec
  BY DEF TypeInv, TypeOK
<1>2. ASSUME NEW h, Goto(r, h), h.pc \in {"invalidate", "invalidateDropped"}
      PROVE  Invalidating'
  BY <1>2 DEF Goto, Invalidating, TypeInv, TypeOK
<1>3. CASE Persist(r)
  <2>1. Goto(r, [Idle EXCEPT !.pc = "invalidate", !.step = request[r].step])
    BY <1>3 DEF Persist
  <2>2. [Idle EXCEPT !.pc = "invalidate", !.step = request[r].step].pc = "invalidate"
    BY DEF Idle
  <2> QED BY <1>2, <2>1, <2>2
<1>4. CASE Mark(r)
  <2>1. Goto(r, [Idle EXCEPT !.pc = "invalidate"])
    BY <1>4 DEF Mark
  <2>2. [Idle EXCEPT !.pc = "invalidate"].pc = "invalidate"
    BY DEF Idle
  <2> QED BY <1>2, <2>1, <2>2
<1>5. CASE Drop(r)
  <2>1. Goto(r, [request[r] EXCEPT !.pc = "invalidateDropped"])
    BY <1>5 DEF Drop
  <2>2. [request[r] EXCEPT !.pc = "invalidateDropped"].pc = "invalidateDropped"
    BY <1>1 DEF RequestRec
  <2> QED BY <1>2, <2>1, <2>2
<1> QED BY <1>3, <1>4, <1>5

\* What is cached is what the row says, except between a write and the step that
\* drops the entry, until a reader caches what it read before a write that has
\* dropped the entry already, or a deleted row is brought back.
THEOREM CacheFreshTillOvertaken == Spec => []CacheFreshUnlessOvertaken
<1>1. Init => CacheInv
  BY DEF Init, NoRow, CacheInv, CacheFreshUnlessOvertaken, CacheIsFresh
<1>2. TypeInv /\ CacheInv /\ [Next]_vars => CacheInv'
  <2> SUFFICES ASSUME TypeInv, CacheInv, [Next]_vars PROVE CacheInv'
    OBVIOUS
  <2>1. setting \in Row
    BY DEF TypeInv, TypeOK
  <2>2. ASSUME NEW r \in Requests, Persist(r) \/ Mark(r) \/ Drop(r) PROVE CacheInv'
    <3>1. setting'.state = "none" => setting'.values = {}
      <4>1. CASE Persist(r)
        BY <4>1 DEF Persist, Upserted
      <4>2. CASE Mark(r)
        BY <2>1, <4>2 DEF Mark, CacheInv, Row
      <4>3. CASE Drop(r)
        BY <2>1, <4>3 DEF Drop, CacheInv, Row
      <4> QED BY <2>2, <4>1, <4>2, <4>3
    <3> QED
      BY <3>1, <2>2, WritersInvalidate DEF CacheInv, CacheFreshUnlessOvertaken, CacheIsFresh
  <2>3. ASSUME NEW r \in Requests, Put(r) PROVE CacheInv'
    BY <2>3 DEF Put, Note, Found, CacheInv, CacheFreshUnlessOvertaken, CacheIsFresh
  <2>4. ASSUME NEW r \in Requests, Ensure(r) PROVE CacheInv'
    <3>1. Invalidating => Invalidating'
      BY <2>4, StillInvalidating DEF Ensure, Answer
    <3>2. setting.state # "deleted" => Found'.values = Found.values
      BY <2>1, <2>4 DEF Ensure, Found, NoRow, CacheInv, Row
    <3>3. setting'.state = "live"
      BY <2>1, <2>4 DEF Ensure, Row
    <3> QED
      BY <2>4, <3>1, <3>2, <3>3 DEF Ensure, Note, CacheInv, CacheFreshUnlessOvertaken, CacheIsFresh
  <2>5. ASSUME cache' = {}, setting' = setting PROVE CacheInv'
    BY <2>5 DEF CacheInv, CacheFreshUnlessOvertaken, CacheIsFresh
  <2>6. ASSUME NEW r \in Requests, Quiet(r) \/ Remove(r) PROVE CacheInv'
    <3>1. Invalidating => Invalidating'
      BY <2>6, StillInvalidating DEF Quiet, Remove, Answer
    <3>2. UNCHANGED <<setting, cache, happened>>
      BY <2>6 DEF Quiet, Remove
    <3> QED
      BY <3>1, <3>2 DEF Found, CacheInv, CacheFreshUnlessOvertaken, CacheIsFresh
  <2>7. CASE UNCHANGED vars
    BY <2>7 DEF vars, Found, Invalidating, CacheInv, CacheFreshUnlessOvertaken, CacheIsFresh
  <2> QED
    BY <2>2, <2>3, <2>4, <2>5, <2>6, <2>7, HandlerSteps
    DEF Next, Writes, Invalidate, InvalidateDropped, Expire, Crash
<1> QED
  BY <1>1, <1>2, TypesHold, PTL DEF Spec, CacheInv
=============================================================================
