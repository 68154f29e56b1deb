------------------------- MODULE IntegrationSettings -------------------------
(***************************************************************************)
(* The settings of one marketplace integration: the row that holds what    *)
(* the user set and whether the integration is configured, its revisions,  *)
(* the cache the sync worker reads it through, and the handlers that save, *)
(* reset, restore, complete a wizard step, create and delete it.           *)
(*                                                                         *)
(* A handler reads the row, computes, and writes it in a later step: the   *)
(* transaction of persist() is atomic (the upsert locks the row), what was *)
(* read before it is not protected.  Two reads in a row, of the integration *)
(* and of its settings, are one step: a deletion between them could as well *)
(* have come after them, or before.                                        *)
(***************************************************************************)
EXTENDS Naturals, Sequences, FiniteSets

CONSTANTS
  Keys,         \* the settings keys of the manifest
  Secrets,      \* those marked secret
  Required,     \* those required, and without a default
  Gate,         \* Gate[k]: the key that must be set for key k to be visible
  Sections,     \* the sections of the manifest, as sets of keys
  Steps,        \* the required wizard steps
  Requests,     \* concurrent requests and runs of the worker (a bound)
  MaxVersion,   \* how many revisions there may be (a bound)
  Faults,       \* the kinds of fault this environment can produce
  NONE          \* no wizard step

FaultKinds == {"crash", "dbWrite"}

ASSUME KeysAssumption  == Secrets \subseteq Keys /\ Required \subseteq Keys
ASSUME BoundAssumption == MaxVersion \in Nat
ASSUME FaultAssumption == Faults \subseteq FaultKinds
ASSUME NoneAssumption  == NONE \notin Steps

\* In the manifests a field is gated by a plain field that is always visible,
\* and one that is hidden by default is in the section of its gate.
ASSUME GateAssumption  ==
  /\ DOMAIN Gate \subseteq Keys
  /\ \A k \in DOMAIN Gate : Gate[k] \in Keys \ (Secrets \cup DOMAIN Gate)
  /\ \A s \in Sections : s \subseteq Keys /\ \A k \in DOMAIN Gate : Gate[k] \in s => k \in s

VARIABLES
  deleted,      \* the integration is soft-deleted
  setting,      \* the IntegrationSetting row
  revisions,    \* revisions[v]: the values of revision v
  cache,        \* runtimeCache: {} or {the values cached}
  request,      \* request[r]: the handler that serves r, and its locals
  happened      \* history: the kinds of races there have been

vars == <<deleted, setting, revisions, cache, request, happened>>

-----------------------------------------------------------------------------
(* Types.  The values of a row are the keys that hold a value of their own:  *)
(* which value it is makes no difference here.                               *)

Row == [state : {"none", "live", "deleted"}, values : SUBSET Keys, steps : SUBSET Steps,
        configured : BOOLEAN]

NoRow == [state |-> "none", values |-> {}, steps |-> {}, configured |-> FALSE]

\* was: the row as the handler has read it; next: the values it will write,
\* cache or judge; about: the keys a write of values is about; step: the wizard
\* step it will complete.
RequestPc  == {"idle", "persist", "invalidate", "findStep", "effective", "mark", "put",
               "drop", "invalidateDropped", "remove", "ensure"}
RequestRec == [pc : RequestPc, was : Row, next : SUBSET Keys, about : SUBSET Keys, step : Steps \cup {NONE}]

Idle == [pc |-> "idle", was |-> NoRow, next |-> {}, about |-> {}, step |-> NONE]

\* staleWrite: a handler wrote over a row that was no longer what it had read;
\* stalePut: values were cached that were no longer the row's;
\* revived: a late ensureForIntegration brought a deleted row back.
Races == {"staleWrite", "stalePut", "revived"}

TypeOK ==
  /\ deleted   \in BOOLEAN
  /\ setting   \in Row
  /\ revisions \in Seq(SUBSET Keys) /\ Len(revisions) <= MaxVersion
  /\ cache     \in {{}} \cup {{values} : values \in SUBSET Keys}
  /\ request   \in [Requests -> RequestRec]
  /\ happened  \in SUBSET Races

-----------------------------------------------------------------------------
(* The manifest *)

Visible(k, values) == k \in DOMAIN Gate => Gate[k] \in values

\* Mutant: what the hidden fields hold is kept.
PruneNothing(values) == values

\* pruneInvisible(): a value whose field is hidden is dropped.
Prune(values) == {k \in values : Visible(k, values)}

\* missingRequiredKeys()
Missing(values) == {k \in Required \ values : Visible(k, values)}

\* "Configured": every required step is done, and nothing required is blank.
Complete(steps, values) == Steps \subseteq steps /\ Missing(values) = {}

-----------------------------------------------------------------------------
(* Initial state: create() has inserted the integration, and its call of     *)
(* ensureForIntegration is still to come, or was lost with the process.      *)

Init ==
  /\ deleted = FALSE
  /\ setting = NoRow
  /\ revisions = <<>>
  /\ cache = {}
  /\ \E creators \in SUBSET Requests :
       /\ Cardinality(creators) <= 1
       /\ request = [r \in Requests |-> [Idle EXCEPT !.pc = IF r \in creators THEN "ensure" ELSE "idle"]]
  /\ happened = {}

-----------------------------------------------------------------------------
(* Helpers *)

\* findSetting(): the row, if it is not soft-deleted.
Found == IF setting.state = "live" THEN setting ELSE NoRow

Goto(r, handler) == request' = [request EXCEPT ![r] = handler]
Answer(r)        == Goto(r, Idle)

\* resolve(): the integration must not be soft-deleted.
Begins(r) == request[r].pc = "idle" /\ ~deleted

Note(condition, race) == happened' = IF condition THEN happened \cup {race} ELSE happened

-----------------------------------------------------------------------------
(* save(), reset() and restoreRevision(): all read the row first, and end in *)
(* persist()                                                                 *)

\* Mutant: a save replaces the values unless it is said not to, and PATCH does not say.
PatchReplaces(stored, partial, set, cleared) ==
  Prune(set \ Secrets) \cup (stored \cap Secrets) \cup (set \cap Secrets)

\* The values after a save of request body: set are the keys it gives a value,
\* cleared those it blanks.  A full save keeps no plain value; a secret is
\* replaced, never blanked, and never pruned.
SaveResult(stored, partial, set, cleared) ==
  LET plain   == ((IF partial THEN stored \ Secrets ELSE {}) \ cleared) \cup (set \ Secrets)
      secrets == (stored \cap Secrets) \cup (set \cap Secrets)
  IN Prune(plain) \cup secrets

\* The handler that will write these values over the row that was read.
Writing(was, next, about, step) == [pc |-> "persist", was |-> was, next |-> next, about |-> about, step |-> step]

\* The validation covers what the request writes: a required field it blanks is
\* refused, one that is missing for another reason is not.
Save(r) ==
  /\ Begins(r)
  /\ \E partial \in BOOLEAN, set, cleared \in SUBSET Keys, step \in Steps \cup {NONE} :
       LET next == SaveResult(Found.values, partial, set, cleared) IN
       /\ set \cap cleared = {}
       /\ step # NONE => partial /\ set \cup cleared # {}
       /\ cleared \cap Missing(next) = {}
       /\ Goto(r, Writing(Found, next, IF partial THEN set \cup cleared ELSE Keys, step))
  /\ UNCHANGED <<deleted, setting, revisions, cache, happened>>

\* Without a row there is nothing to reset.
Reset(r) ==
  /\ Begins(r)
  /\ setting.state = "live"
  /\ \E section \in Sections \cup {Keys} :
       Goto(r, Writing(setting, setting.values \ section, section, NONE))
  /\ UNCHANGED <<deleted, setting, revisions, cache, happened>>

Restore(r) ==
  /\ Begins(r)
  /\ setting.state = "live"
  /\ \E version \in DOMAIN revisions :
       Goto(r, Writing(setting, revisions[version], Keys, NONE))
  /\ UNCHANGED <<deleted, setting, revisions, cache, happened>>

\* Mutant: the update branch of the upsert resets completedSteps, as its create
\* branch does.
UpsertedFresh(values, was) ==
  [state |-> "live", values |-> values, steps |-> {}, configured |-> Complete(was.steps, values)]

\* The upsert: isConfigured is computed from the steps as they were read, the
\* column completedSteps itself is left alone; a deleted row comes back.
Upserted(values, was) ==
  [state |-> "live", values |-> values, steps |-> setting.steps, configured |-> Complete(was.steps, values)]

\* persist(): the row and the next revision, in one transaction.  "The snapshot
\* must be restorable, so secrets are included."
Persist(r) ==
  LET h == request[r] IN
  /\ h.pc = "persist"
  /\ Len(revisions) < MaxVersion
  /\ setting' = Upserted(h.next, h.was)
  /\ revisions' = Append(revisions, h.next)
  /\ Note(h.was # Found, "staleWrite")
  /\ Goto(r, [Idle EXCEPT !.pc = "invalidate", !.step = h.step])
  /\ UNCHANGED <<deleted, cache>>

\* Mutant: persist() leaves the cache to its TTL.
KeepCache(r) ==
  /\ request[r].pc = "invalidate"
  /\ IF request[r].step # NONE /\ ~deleted THEN Goto(r, [request[r] EXCEPT !.pc = "findStep"]) ELSE Answer(r)
  /\ UNCHANGED <<deleted, setting, revisions, cache, happened>>

\* Back from the transaction the cache entry is dropped.  The call of
\* getEffective() that follows throws if the integration is gone by then;
\* completeWizardStep() goes on after its save.
Invalidate(r) ==
  /\ request[r].pc = "invalidate"
  /\ cache' = {}
  /\ IF request[r].step # NONE /\ ~deleted THEN Goto(r, [request[r] EXCEPT !.pc = "findStep"]) ELSE Answer(r)
  /\ UNCHANGED <<deleted, setting, revisions, happened>>

-----------------------------------------------------------------------------
(* completeWizardStep() *)

\* Mutant: the step is not looked up in the manifest.
CompleteAnyStep(r) ==
  /\ Begins(r)
  /\ \E step \in Steps \cup {NONE} : Goto(r, [Idle EXCEPT !.pc = "findStep", !.step = step])
  /\ UNCHANGED <<deleted, setting, revisions, cache, happened>>

\* Without values it goes straight to the row.
CompleteStep(r) ==
  /\ Begins(r)
  /\ \E step \in Steps : Goto(r, [Idle EXCEPT !.pc = "findStep", !.step = step])
  /\ UNCHANGED <<deleted, setting, revisions, cache, happened>>

FindStep(r) ==
  /\ request[r].pc = "findStep"
  /\ IF setting.state = "live"
     THEN Goto(r, [request[r] EXCEPT !.pc = "effective", !.was = setting])
     ELSE Answer(r)
  /\ UNCHANGED <<deleted, setting, revisions, cache, happened>>

\* getEffective() reads the integration and the row again.
Effective(r) ==
  /\ request[r].pc = "effective"
  /\ IF deleted THEN Answer(r)
     ELSE Goto(r, [request[r] EXCEPT !.pc = "mark", !.next = Found.values])
  /\ UNCHANGED <<deleted, setting, revisions, cache, happened>>

\* Mutant: a step is judged by the row as it was first read.
MarkAlways(r) ==
  LET h == request[r]  steps == h.was.steps \cup {h.step} IN
  /\ h.pc = "mark"
  /\ setting' = [setting EXCEPT !.steps = steps, !.configured = Steps \subseteq steps]
  /\ Note(h.was # setting \/ h.next # setting.values, "staleWrite")
  /\ Goto(r, [Idle EXCEPT !.pc = "invalidate"])
  /\ UNCHANGED <<deleted, revisions, cache>>

\* The update writes both columns by the id of the row, deleted or not.
Mark(r) ==
  LET h == request[r]  steps == h.was.steps \cup {h.step} IN
  /\ h.pc = "mark"
  /\ setting' = [setting EXCEPT !.steps = steps, !.configured = Complete(steps, h.next)]
  /\ Note(h.was # setting \/ h.next # setting.values, "staleWrite")
  /\ Goto(r, [Idle EXCEPT !.pc = "invalidate"])
  /\ UNCHANGED <<deleted, revisions, cache>>

-----------------------------------------------------------------------------
(* resolveForRuntime(), which a run of the sync worker calls *)

\* A hit returns the entry and changes nothing; a miss reads the integration and
\* the row ...
Miss(r) ==
  /\ Begins(r)
  /\ cache = {}
  /\ Goto(r, [Idle EXCEPT !.pc = "put", !.next = Found.values])
  /\ UNCHANGED <<deleted, setting, revisions, cache, happened>>

\* ... and caches what it has read.
Put(r) ==
  /\ request[r].pc = "put"
  /\ cache' = {request[r].next}
  /\ Note(request[r].next # Found.values, "stalePut")
  /\ Answer(r)
  /\ UNCHANGED <<deleted, setting, revisions>>

\* RUNTIME_CACHE_TTL_MS has passed: the next read is a miss.
Expire ==
  /\ cache # {}
  /\ cache' = {}
  /\ UNCHANGED <<deleted, setting, revisions, request, happened>>

-----------------------------------------------------------------------------
(* IntegrationService.create() and delete() *)

\* ensureForIntegration(), called after the transaction that created the
\* integration: the row may be there already, or even be deleted again.
Ensure(r) ==
  /\ request[r].pc = "ensure"
  /\ setting' = [setting EXCEPT !.state = "live"]
  /\ Note(setting.state = "deleted", "revived")
  /\ Answer(r)
  /\ UNCHANGED <<deleted, revisions, cache>>

Delete(r) ==
  /\ Begins(r)
  /\ Goto(r, [Idle EXCEPT !.pc = "drop"])
  /\ UNCHANGED <<deleted, setting, revisions, cache, happened>>

\* softDeleteForIntegration() comes first, outside the transaction ...
Drop(r) ==
  /\ request[r].pc = "drop"
  /\ setting' = IF setting.state = "live" THEN [setting EXCEPT !.state = "deleted"] ELSE setting
  /\ Goto(r, [request[r] EXCEPT !.pc = "invalidateDropped"])
  /\ UNCHANGED <<deleted, revisions, cache, happened>>

InvalidateDropped(r) ==
  /\ request[r].pc = "invalidateDropped"
  /\ cache' = {}
  /\ Goto(r, [request[r] EXCEPT !.pc = "remove"])
  /\ UNCHANGED <<deleted, setting, revisions, happened>>

\* ... that deletes the integration.
Remove(r) ==
  /\ request[r].pc = "remove"
  /\ deleted' = TRUE
  /\ Answer(r)
  /\ UNCHANGED <<setting, revisions, cache, happened>>

-----------------------------------------------------------------------------
(* The environment *)

\* An awaited database call throws: the rest of the handler does not happen.
Fails(r) ==
  /\ "dbWrite" \in Faults
  /\ request[r].pc \notin {"idle", "invalidate", "invalidateDropped", "put"}
  /\ Answer(r)
  /\ UNCHANGED <<deleted, setting, revisions, cache, happened>>

\* The backend dies and starts again, with an empty cache.
Crash ==
  /\ "crash" \in Faults
  /\ cache' = {}
  /\ request' = [r \in Requests |-> Idle]
  /\ UNCHANGED <<deleted, setting, revisions, happened>>

-----------------------------------------------------------------------------
(* The specification *)

Handler(r) ==
  \/ Save(r) \/ Reset(r) \/ Restore(r) \/ Persist(r) \/ Invalidate(r)
  \/ CompleteStep(r) \/ FindStep(r) \/ Effective(r) \/ Mark(r)
  \/ Miss(r) \/ Put(r)
  \/ Ensure(r) \/ Delete(r) \/ Drop(r) \/ InvalidateDropped(r) \/ Remove(r)
  \/ Fails(r)

Next == (\E r \in Requests : Handler(r)) \/ Expire \/ Crash

Spec == Init /\ [][Next]_vars

-----------------------------------------------------------------------------
(* Properties *)

\* "'Configured' means every required step is done and nothing required is
\* still blank": what assertConfigured() lets a sync start on.  The code
\* violates it, because both writers of isConfigured judge what they read.
ConfiguredIsComplete == setting.configured => Complete(setting.steps, setting.values)

\* It holds as long as no handler writes over a row that has changed since it
\* read it: neither reset, restore, soft delete nor re-creation breaks it.
ConfiguredUnlessRaced == "staleWrite" \notin happened => ConfiguredIsComplete

\* Under the same condition no wizard step that was completed is ever lost.
StepsStay == []["staleWrite" \notin happened' => setting.steps \subseteq setting'.steps]_vars

\* "A stale read here is bounded by the TTL and cleared on every write anyway":
\* what is cached is what the row says, except between the commit of a write
\* and the continuation that drops the entry.  The code violates it.
Invalidating == \E r \in Requests : request[r].pc \in {"invalidate", "invalidateDropped"}

CacheIsFresh == cache # {} => cache = {Found.values} \/ Invalidating

\* It holds as long as no reader caches what it read before a write that has
\* dropped the entry already.
CacheFreshUnlessOvertaken == happened \cap {"stalePut", "revived"} = {} => CacheIsFresh

\* The keys that have a value in one of two sets of values only.
Differing(a, b) == (a \ b) \cup (b \ a)

\* What a write of the values may change: the keys it is about, and the plain
\* ones whose gate is among those.
MayChange(about) == about \cup {k \in DOMAIN Gate \ Secrets : Gate[k] \in about}

\* "A PATCH layers onto what is stored", a reset clears its section: what has been
\* stored until a write commits outlives it, unless the write is about it or hides
\* it, or another write has changed that very key since the handler read the row.
\* (The code layers onto what it has read, so the last case is a lost update.)
LosesOnlyRaced ==
  [][\A r \in Requests : Persist(r) =>
       Differing(Found.values, setting'.values)
         \subseteq MayChange(request[r].about) \cup Differing(request[r].was.values, Found.values)]_vars

\* "A field hidden by its visibleWhen must not linger in storage": no plain
\* value of a hidden field is stored, after any sequence of saves, section
\* resets and restores.
NoHiddenValue == \A k \in setting.values \ Secrets : Visible(k, setting.values)
=============================================================================
