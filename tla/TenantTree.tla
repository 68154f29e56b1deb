------------------------------ MODULE TenantTree ------------------------------
(***************************************************************************)
(* Agencies, their clients, the stores of both, the roles of one user in    *)
(* them and the stores assigned to that user.  Deleting an agency or a      *)
(* client marks everything below it; creating below one and assigning a     *)
(* role check that it is live first and write in a later transaction.       *)
(* TenantMiddleware admits a request to a store, client or agency, and      *)
(* AuthService.switchTenant() issues a token for one, each by its own       *)
(* reading of the same roles.                                               *)
(***************************************************************************)
EXTENDS Naturals

CONSTANTS
  Firms,           \* the ids an agency can have
  Clients,
  Stores,
  Roles,           \* names of roles: one row per user, agency and role
  Stewards,        \* concurrent requests (a bound)
  MaxTenantCalls,  \* requests in all (a bound)
  NULL

ASSUME TenantAssumption ==
  NULL \notin Firms \cup Clients \cup Stores /\ MaxTenantCalls \in Nat

VARIABLES
  firm,         \* firm[a]: the row of agency a
  client,
  store,
  grant,        \* grant[<<a, r>>]: the user's role r in agency a
  staffed,      \* the stores with a StoreUser row of the user that is not deleted
  super,        \* the user's token names the role super_admin
  steward,      \* steward[u]: what a request has checked
  tenantCalls,  \* requests begun
  rifts         \* history: what was written under something deleted meanwhile

tenantVars == <<firm, client, store, grant, staffed, super, steward, tenantCalls, rifts>>

-----------------------------------------------------------------------------
(* Types *)

State  == {"none", "live", "deleted"}
Client == [state : State, firm : Firms \cup {NULL}]
Store  == [state : State, firm : Firms \cup {NULL}, client : Clients \cup {NULL}]
Grant  == [state : State, client : Clients \cup {NULL}, store : Stores \cup {NULL}]
Steward ==
  [op : {"none", "client", "store", "role", "staff", "dropFirm", "dropClient", "dropStore"},
   firm : Firms \cup {NULL}, client : Clients \cup {NULL}, store : Stores \cup {NULL},
   role : Roles \cup {NULL}, stores : SUBSET Stores, stale : BOOLEAN]
Resting == [op |-> "none", firm |-> NULL, client |-> NULL, store |-> NULL,
            role |-> NULL, stores |-> {}, stale |-> FALSE]

TenantTypeOK ==
  /\ firm \in [Firms -> State]
  /\ client \in [Clients -> Client]
  /\ store \in [Stores -> Store]
  /\ grant \in [Firms \X Roles -> Grant]
  /\ staffed \subseteq Stores
  /\ super \in BOOLEAN
  /\ steward \in [Stewards -> Steward]
  /\ tenantCalls \in 0..MaxTenantCalls
  /\ rifts \subseteq {"overlap", "super"}

LiveFirm(a)   == a \in Firms /\ firm[a] = "live"
LiveClient(c) == c \in Clients /\ client[c].state = "live"
LiveStore(s)  == s \in Stores /\ store[s].state = "live"

\* The roles of the user in the agency that are not deleted.
Held(a) == {grant[<<a, r>>] : r \in {q \in Roles : grant[<<a, q>>].state = "live"}}

\* verifyAgencyAccess(): super_admin passes without a look at the agency.
MayManage(a) == super \/ Held(a) # {}

-----------------------------------------------------------------------------
(* Who is let in *)

\* A header x-agency-id may name a store instead of its agency.
Resolved(tenant, c, s) ==
  IF LiveStore(tenant)
  THEN [firm |-> store[tenant].firm, store |-> tenant,
        client |-> IF store[tenant].client # NULL THEN store[tenant].client ELSE c]
  ELSE [firm |-> tenant, client |-> c, store |-> s]

\* Some role in the agency of the store spans it: its own, that of its client,
\* or one of the whole agency.
StoreSpanned(s) ==
  \E g \in Held(store[s].firm) :
    \/ g.store = s
    \/ g.store = NULL /\ g.client \in {store[s].client, NULL}

\* TenantMiddleware.use() with a token for the agency: the most specific of the
\* three that the request names decides.  A store takes a role or a StoreUser row.
Admits(token, at) ==
  IF at.store # NULL
  THEN /\ LiveStore(at.store) /\ store[at.store].firm = token
       /\ super \/ at.store \in staffed \/ StoreSpanned(at.store)
  ELSE IF at.client # NULL
  THEN /\ LiveClient(at.client) /\ client[at.client].firm = token
       /\ super \/ \E g \in Held(token) : g.client \in {at.client, NULL}
  ELSE LiveFirm(at.firm) /\ at.firm = token /\ (super \/ Held(token) # {})

\* Mutant: the fields the request carries must be those of the role, the others are not looked at.
GrantsLoosely(a, c, s) ==
  /\ s # NULL => LiveStore(s) /\ store[s].firm = a
  /\ s = NULL /\ c # NULL => LiveClient(c) /\ client[c].firm = a
  /\ \E g \in Held(a) : (s # NULL => g.store = s) /\ (c # NULL => g.client = c)

\* switchTenant(): the client of a store is the store's; a role of the whole
\* agency, of the client or of the store covers what is asked for.
Grants(a, c, s) ==
  LET of == IF LiveStore(s) THEN store[s].client ELSE c IN
  /\ s # NULL => LiveStore(s) /\ store[s].firm = a
  /\ s = NULL /\ c # NULL => LiveClient(c) /\ client[c].firm = a
  /\ \E g \in Held(a) :
       \/ g.client = NULL /\ g.store = NULL
       \/ of # NULL /\ g.client = of /\ g.store = NULL
       \/ s # NULL /\ g.store = s

-----------------------------------------------------------------------------
(* Requests: the checks, read as one, and the write *)

Enter(u, request) ==
  /\ steward[u] = Resting /\ tenantCalls < MaxTenantCalls
  /\ tenantCalls' = tenantCalls + 1
  /\ steward' = [steward EXCEPT ![u] = request]
  /\ UNCHANGED <<firm, client, store, grant, staffed, super, rifts>>

\* Nothing else that is under way is about to use the id.
Fresh(id) == \A u \in Stewards : id \notin {steward[u].client, steward[u].store}

EnterClient(u, c, a) ==
  /\ client[c].state = "none" /\ Fresh(c) /\ firm[a] # "none" /\ MayManage(a)
  /\ Enter(u, [Resting EXCEPT !.op = "client", !.firm = a, !.client = c])

\* With a client, the store's client must be live and of the agency.
EnterStore(u, s, c, a) ==
  /\ store[s].state = "none" /\ Fresh(s) /\ firm[a] # "none" /\ MayManage(a)
  /\ c # NULL => LiveClient(c) /\ client[c].firm = a
  /\ Enter(u, [Resting EXCEPT !.op = "store", !.firm = a, !.client = c, !.store = s])

\* assignRole(): the agency, the client and the store are live and belong together.
EnterRole(u, r, a, c, s) ==
  /\ LiveFirm(a)
  /\ c # NULL => LiveClient(c) /\ client[c].firm = a
  /\ s # NULL => LiveStore(s) /\ store[s].firm = a /\ (c # NULL => store[s].client = c)
  /\ Enter(u, [Resting EXCEPT !.op = "role", !.firm = a, !.client = c, !.store = s, !.role = r])

\* verifyStoreAccess(): a StoreUser row, a role for the store, or one in its agency
\* that names no store, whatever client it is for.
MayManageStore(s) ==
  \/ super \/ s \in staffed
  \/ \E k \in Firms \X Roles :
       grant[k].state = "live" /\ (grant[k].store = s \/ (grant[k].store = NULL /\ k[1] = store[s].firm))

EnterDrop(u, request) ==
  /\ \/ request.op = "dropFirm"   /\ LiveFirm(request.firm) /\ MayManage(request.firm)
     \/ request.op = "dropClient" /\ LiveClient(request.client)
                                  /\ MayManage(client[request.client].firm)
     \/ request.op = "dropStore"  /\ LiveStore(request.store)
                                  /\ MayManageStore(request.store)
  /\ Enter(u, request)

\* u is done; if it has deleted something, what the others have checked is stale.
Leaves(u, deleted) ==
  /\ steward' = [v \in Stewards |->
       IF v = u THEN Resting
       ELSE [steward[v] EXCEPT !.stale = @ \/ (deleted /\ steward[v].op # "none")]]
  /\ UNCHANGED <<super, tenantCalls>>

\* What is created on a stale check, or by super_admin, who is not checked.
Rift(u) == (IF steward[u].stale THEN {"overlap"} ELSE {}) \cup (IF super THEN {"super"} ELSE {})

SaveClient(u) ==
  LET e == steward[u] IN
  /\ e.op = "client"
  /\ client' = [client EXCEPT ![e.client] = [state |-> "live", firm |-> e.firm]]
  /\ rifts' = rifts \cup Rift(u)
  /\ Leaves(u, FALSE)
  /\ UNCHANGED <<firm, store, grant, staffed>>

SaveStore(u) ==
  LET e == steward[u] IN
  /\ e.op = "store"
  /\ store' = [store EXCEPT ![e.store] = [state |-> "live", firm |-> e.firm, client |-> e.client]]
  /\ rifts' = rifts \cup Rift(u)
  /\ Leaves(u, FALSE)
  /\ UNCHANGED <<firm, client, grant, staffed>>

\* A role that was revoked is restored, one that is held gets the new scope.
SaveRole(u) ==
  LET e == steward[u] IN
  /\ e.op = "role"
  /\ grant' = [grant EXCEPT ![<<e.firm, e.role>>] =
                 [state |-> "live", client |-> e.client, store |-> e.store]]
  /\ rifts' = rifts \cup (Rift(u) \ {"super"})
  /\ Leaves(u, FALSE)
  /\ UNCHANGED <<firm, client, store, staffed>>

\* Mutant: the agency and its clients only.
DropFirmAndClients(u) ==
  LET e == steward[u] IN
  /\ e.op = "dropFirm"
  /\ firm' = [firm EXCEPT ![e.firm] = "deleted"]
  /\ client' = [c \in Clients |->
       IF LiveClient(c) /\ client[c].firm = e.firm THEN [client[c] EXCEPT !.state = "deleted"]
       ELSE client[c]]
  /\ Leaves(u, TRUE)
  /\ UNCHANGED <<store, grant, staffed, rifts>>

\* AgencyService.delete(): the agency, its clients, stores and roles, in one transaction.
DropFirm(u) ==
  LET e == steward[u] IN
  /\ e.op = "dropFirm"
  /\ firm' = [firm EXCEPT ![e.firm] = "deleted"]
  /\ client' = [c \in Clients |->
       IF LiveClient(c) /\ client[c].firm = e.firm THEN [client[c] EXCEPT !.state = "deleted"]
       ELSE client[c]]
  /\ store' = [s \in Stores |->
       IF LiveStore(s) /\ store[s].firm = e.firm THEN [store[s] EXCEPT !.state = "deleted"]
       ELSE store[s]]
  /\ grant' = [k \in Firms \X Roles |->
       IF k[1] = e.firm /\ grant[k].state = "live" THEN [grant[k] EXCEPT !.state = "deleted"]
       ELSE grant[k]]
  /\ Leaves(u, TRUE)
  /\ UNCHANGED <<staffed, rifts>>

\* ClientService.delete(): the client and its stores.
DropClient(u) ==
  LET e == steward[u] IN
  /\ e.op = "dropClient"
  /\ client' = [client EXCEPT ![e.client].state = "deleted"]
  /\ store' = [s \in Stores |->
       IF LiveStore(s) /\ store[s].client = e.client THEN [store[s] EXCEPT !.state = "deleted"]
       ELSE store[s]]
  /\ Leaves(u, TRUE)
  /\ UNCHANGED <<firm, grant, staffed, rifts>>

DropStore(u) ==
  LET e == steward[u] IN
  /\ e.op = "dropStore"
  /\ store' = [store EXCEPT ![e.store].state = "deleted"]
  /\ Leaves(u, TRUE)
  /\ UNCHANGED <<firm, client, grant, staffed, rifts>>

\* updateUserStores(): all of the user's assignments are deleted ...  An agency's
\* administrator names live stores of the agency, super_admin any there are.
ClearStaff(u, stores) ==
  /\ steward[u] = Resting /\ tenantCalls < MaxTenantCalls
  /\ \A s \in stores : store[s].state # "none"
  /\ tenantCalls' = tenantCalls + 1
  /\ staffed' = {}
  /\ steward' = [steward EXCEPT ![u] = [Resting EXCEPT !.op = "staff", !.stores = stores]]
  /\ UNCHANGED <<firm, client, store, grant, super, rifts>>

\* ... and the named ones restored or created, one write each.
AddStaff(u, s) ==
  /\ s \in steward[u].stores
  /\ staffed' = staffed \cup {s}
  /\ steward' = [steward EXCEPT ![u].stores = @ \ {s}]
  /\ UNCHANGED <<firm, client, store, grant, super, tenantCalls, rifts>>

\* A check refuses the request, or a database call fails; or all assignments are made.
GivesUp(u) ==
  /\ steward[u] # Resting
  /\ Leaves(u, FALSE)
  /\ UNCHANGED <<firm, client, store, grant, staffed, rifts>>

\* AgencyService.create() and AuthService.register(): an agency, and a role in it.
CreateFirm(a, r) ==
  /\ firm[a] = "none" /\ tenantCalls < MaxTenantCalls
  /\ tenantCalls' = tenantCalls + 1
  /\ firm' = [firm EXCEPT ![a] = "live"]
  /\ grant' = [grant EXCEPT ![<<a, r>>] = [state |-> "live", client |-> NULL, store |-> NULL]]
  /\ UNCHANGED <<client, store, staffed, super, steward, rifts>>

RevokeRole(a, r) ==
  /\ grant[<<a, r>>].state = "live" /\ tenantCalls < MaxTenantCalls
  /\ tenantCalls' = tenantCalls + 1
  /\ grant' = [grant EXCEPT ![<<a, r>>].state = "deleted"]
  /\ UNCHANGED <<firm, client, store, staffed, super, steward, rifts>>

TenantInit ==
  /\ firm = [a \in Firms |-> "none"]
  /\ client = [c \in Clients |-> [state |-> "none", firm |-> NULL]]
  /\ store = [s \in Stores |-> [state |-> "none", firm |-> NULL, client |-> NULL]]
  /\ grant = [k \in Firms \X Roles |-> [state |-> "none", client |-> NULL, store |-> NULL]]
  /\ staffed = {}
  /\ super \in BOOLEAN
  /\ steward = [u \in Stewards |-> Resting]
  /\ tenantCalls = 0
  /\ rifts = {}

Drops == {[Resting EXCEPT !.op = "dropFirm", !.firm = a] : a \in Firms}
    \cup {[Resting EXCEPT !.op = "dropClient", !.client = c] : c \in Clients}
    \cup {[Resting EXCEPT !.op = "dropStore", !.store = s] : s \in Stores}

TenantNext ==
  \/ \E u \in Stewards :
       \/ \E a \in Firms, c \in Clients : EnterClient(u, c, a)
       \/ \E a \in Firms, c \in Clients \cup {NULL} :
            \/ \E s \in Stores : EnterStore(u, s, c, a)
            \/ \E r \in Roles, s \in Stores \cup {NULL} : EnterRole(u, r, a, c, s)
       \/ \E request \in Drops : EnterDrop(u, request)
       \/ \E stores \in SUBSET Stores : ClearStaff(u, stores)
       \/ \E s \in Stores : AddStaff(u, s)
       \/ SaveClient(u) \/ SaveStore(u) \/ SaveRole(u)
       \/ DropFirm(u) \/ DropClient(u) \/ DropStore(u) \/ GivesUp(u)
  \/ \E a \in Firms, r \in Roles : CreateFirm(a, r) \/ RevokeRole(a, r)

TenantSpec == TenantInit /\ [][TenantNext]_tenantVars

-----------------------------------------------------------------------------
(* Properties *)

\* What is live has live owners: a store its client and agency, a client its
\* agency, a role its agency; until something is created while a deletion
\* overlaps, or by super_admin under an agency nobody checks.
LiveUnderLive ==
  rifts = {} =>
    /\ \A s \in Stores : LiveStore(s) =>
         /\ LiveFirm(store[s].firm)
         /\ store[s].client # NULL =>
              LiveClient(store[s].client) /\ client[store[s].client].firm = store[s].firm
    /\ \A c \in Clients : LiveClient(c) => LiveFirm(client[c].firm)
    /\ \A k \in Firms \X Roles : grant[k].state = "live" => LiveFirm(k[1])

\* switchTenant() reads a role as the middleware does: what it issues a token
\* for is admitted with that token, also when the header names the store; and for
\* a store the middleware asks for no less, but for a StoreUser row, by which it
\* admits to a store that switchTenant() refuses.  "super_admin" is left out: it
\* passes the middleware whatever its roles.
SwitchAgrees ==
  rifts = {} /\ ~super =>
    \A a \in Firms :
      /\ \A c \in Clients \cup {NULL}, s \in Stores \cup {NULL} :
           Grants(a, c, s) => Admits(a, [firm |-> a, client |-> c, store |-> s])
      /\ \A s \in Stores : LiveStore(s) =>
           LET admitted == Admits(a, Resolved(s, NULL, NULL)) IN
             /\ Grants(a, NULL, s) => admitted
             /\ admitted => Grants(a, NULL, s) \/ s \in staffed

=============================================================================
