------------------------------- MODULE Sessions -------------------------------
(***************************************************************************)
(* The sessions of one user.  AuthService registers the user and opens a    *)
(* session per sign-in and per switch of tenant, rotates it with each       *)
(* refresh and ends it at logout; ProfileService ends all the others and    *)
(* closes the account.  A refresh finds the session, finds a role, ends the *)
(* session and stores its successor: four queries without a transaction.    *)
(***************************************************************************)
EXTENDS FiniteSets, Integers

CONSTANTS
  Tokens,          \* refresh tokens, each the key of a session
  Devices,         \* what a session and its successors belong to
  Callers,         \* concurrent requests (a bound)
  MaxSessionCalls, \* requests in all (a bound)
  NOTOKEN

ASSUME SessionAssumption == NOTOKEN \notin Tokens \cup Devices /\ MaxSessionCalls \in Nat

VARIABLES
  account,       \* the user's row
  hasRole,       \* the user has a role that is not deleted
  session,       \* session[t]: the row of token t
  caller,        \* caller[u]: what a request is about to do
  sessionCalls,  \* requests begun
  fate           \* history: fate[d], what has become of the device

sessionVars == <<account, hasRole, session, caller, sessionCalls, fate>>

-----------------------------------------------------------------------------
(* Types *)

\* live: isActive and not expired.
Session == [state : {"none", "live", "ended", "expired"}, device : Devices \cup {NOTOKEN}]
NoSession == [state |-> "none", device |-> NOTOKEN]
Caller  == [stage : {"idle", "register", "find", "role", "end", "store"},
            token : Tokens \cup {NOTOKEN}, device : Devices \cup {NOTOKEN}]
Quiet   == [stage |-> "idle", token |-> NOTOKEN, device |-> NOTOKEN]

\* in: signed in; out: logged out; lapsed: its session expired; torn: a refresh
\* failed half-way; overlap: a refresh overlapped another one or a logout.
Fates == {"in", "out", "lapsed", "torn", "overlap"}

SessionTypeOK ==
  /\ account \in {"none", "open", "closed"}
  /\ hasRole \in BOOLEAN
  /\ session \in [Tokens -> Session]
  /\ caller \in [Callers -> Caller]
  /\ sessionCalls \in 0..MaxSessionCalls
  /\ fate \in [Devices -> SUBSET Fates]

SessionsOf(d) == {t \in Tokens : session[t].state = "live" /\ session[t].device = d}

\* A refresh of the device is under way.
Refreshing(d) == \E u \in Callers : caller[u].token # NOTOKEN /\ caller[u].device = d

Proceed(u, stage) == caller' = [caller EXCEPT ![u].stage = stage]

-----------------------------------------------------------------------------
(* Requests *)

Ask(u, stage, t, d) ==
  /\ caller[u] = Quiet /\ sessionCalls < MaxSessionCalls
  /\ sessionCalls' = sessionCalls + 1
  /\ caller' = [caller EXCEPT ![u] = [stage |-> stage, token |-> t, device |-> d]]
  /\ UNCHANGED <<account, hasRole, session>>

\* register(), login() and switchTenant() are to open a session on a new device.
AskToSignIn(u, stage, d) ==
  /\ fate[d] = {} /\ \A v \in Callers : caller[v].device # d
  /\ stage = "register" => account = "none"
  /\ stage = "find" => account = "open"
  /\ stage = "role" => account # "none"
  /\ Ask(u, stage, NOTOKEN, d)
  /\ UNCHANGED fate

\* refreshTokens(): the token is a valid JWT, its session may be anything.
AskToRefresh(u, t) ==
  LET d == session[t].device IN
  /\ session[t].state # "none"
  /\ Ask(u, "find", t, d)
  /\ fate' = [fate EXCEPT ![d] = IF Refreshing(d) THEN @ \cup {"overlap"} ELSE @]

\* The transaction of register(): the user, an agency and the role; the email
\* is unique.
Register(u) ==
  /\ caller[u].stage = "register" /\ account = "none"
  /\ account' = "open" /\ hasRole' = TRUE
  /\ Proceed(u, "store")
  /\ UNCHANGED <<session, sessionCalls, fate>>

\* login() has found an active user with this password; a refresh finds a live session.
Find(u) ==
  LET t == caller[u].token IN
  /\ caller[u].stage = "find"
  /\ IF t = NOTOKEN THEN account = "open" ELSE session[t].state = "live"
  /\ Proceed(u, "role")
  /\ UNCHANGED <<account, hasRole, session, sessionCalls, fate>>

\* The user has a role: switchTenant() begins with this check.
FindRole(u) ==
  /\ caller[u].stage = "role" /\ hasRole
  /\ Proceed(u, IF caller[u].token = NOTOKEN THEN "store" ELSE "end")
  /\ UNCHANGED <<account, hasRole, session, sessionCalls, fate>>

\* Mutant: the old session stays active.
KeepOld(u) ==
  /\ caller[u].stage = "end"
  /\ Proceed(u, "store")
  /\ UNCHANGED <<account, hasRole, session, sessionCalls, fate>>

\* A refresh ends the session by its id, whatever has become of it.
EndOld(u) ==
  /\ caller[u].stage = "end"
  /\ session' = [session EXCEPT ![caller[u].token].state = IF @ = "live" THEN "ended" ELSE @]
  /\ Proceed(u, "store")
  /\ UNCHANGED <<account, hasRole, sessionCalls, fate>>

\* The new session is stored.
StoreNew(u, t) ==
  LET d == caller[u].device IN
  /\ caller[u].stage = "store" /\ session[t] = NoSession
  /\ session' = [session EXCEPT ![t] = [state |-> "live", device |-> d]]
  /\ fate' = [fate EXCEPT ![d] = @ \cup {"in"}]
  /\ caller' = [caller EXCEPT ![u] = Quiet]
  /\ UNCHANGED <<account, hasRole, sessionCalls>>

\* A check refuses the request, or a query fails: what was written stays written.
AskInVain(u) ==
  LET d == caller[u].device IN
  /\ caller[u] # Quiet
  /\ fate' = IF caller[u].token # NOTOKEN /\ caller[u].stage = "store"
             THEN [fate EXCEPT ![d] = @ \cup {"torn"}] ELSE fate
  /\ caller' = [caller EXCEPT ![u] = Quiet]
  /\ UNCHANGED <<account, hasRole, session, sessionCalls>>

\* The live sessions among closing end, in one statement.
EndSessions(closing) ==
  LET ended == {t \in closing : session[t].state = "live"} IN
  /\ sessionCalls < MaxSessionCalls /\ sessionCalls' = sessionCalls + 1
  /\ session' = [t \in Tokens |->
       IF t \in ended THEN [session[t] EXCEPT !.state = "ended"] ELSE session[t]]
  /\ fate' = [d \in Devices |->
       fate[d] \cup (IF ended \cap SessionsOf(d) # {} THEN {"out"} ELSE {})
               \cup (IF closing \cap {t \in Tokens : session[t].device = d} # {} /\ Refreshing(d)
                     THEN {"overlap"} ELSE {})]
  /\ UNCHANGED <<account, hasRole, caller>>

\* Mutant: the sessions of the user, not the one with this token.
LogoutEverywhere(t) ==
  /\ session[t].state # "none" /\ sessionCalls < MaxSessionCalls
  /\ sessionCalls' = sessionCalls + 1
  /\ session' = [s \in Tokens |->
       IF session[s].state = "live" THEN [session[s] EXCEPT !.state = "ended"] ELSE session[s]]
  /\ fate' = [fate EXCEPT ![session[t].device] = @ \cup {"out"}]
  /\ UNCHANGED <<account, hasRole, caller>>

Logout(t) == session[t].state # "none" /\ EndSessions({t})

\* logoutAllDevices(): all sessions but the one whose token is passed, if any.
LogoutAllDevices(t) ==
  /\ account # "none"
  /\ t \in Tokens => session[t].state # "none"
  /\ EndSessions(Tokens \ {t})

\* A session is older than its seven days.
Expires(t) ==
  /\ session[t].state = "live"
  /\ session' = [session EXCEPT ![t].state = "expired"]
  /\ fate' = [fate EXCEPT ![session[t].device] = @ \cup {"lapsed"}]
  /\ UNCHANGED <<account, hasRole, caller, sessionCalls>>

\* deleteAccount() closes the account; RbacService revokes and assigns roles.
\* Neither touches the sessions.
ChangeAccount ==
  /\ account # "none"
  /\ \/ account = "open" /\ account' = "closed" /\ UNCHANGED hasRole
     \/ hasRole' = ~hasRole /\ UNCHANGED account
  /\ sessionCalls < MaxSessionCalls /\ sessionCalls' = sessionCalls + 1
  /\ UNCHANGED <<session, caller, fate>>

SessionInit ==
  /\ account = "none" /\ hasRole = FALSE
  /\ session = [t \in Tokens |-> NoSession]
  /\ caller = [u \in Callers |-> Quiet]
  /\ sessionCalls = 0
  /\ fate = [d \in Devices |-> {}]

SessionNext ==
  \/ \E u \in Callers :
       \/ \E d \in Devices, stage \in {"register", "find", "role"} : AskToSignIn(u, stage, d)
       \/ \E t \in Tokens : AskToRefresh(u, t) \/ StoreNew(u, t)
       \/ Register(u) \/ Find(u) \/ FindRole(u) \/ EndOld(u) \/ AskInVain(u)
  \/ \E t \in Tokens : Logout(t) \/ Expires(t)
  \/ \E t \in Tokens \cup {NOTOKEN} : LogoutAllDevices(t)
  \/ ChangeAccount

SessionSpec == SessionInit /\ [][SessionNext]_sessionVars

-----------------------------------------------------------------------------
(* Properties *)

\* Rotation leaves a device with one live session at most, and with none once it
\* is logged out, until a refresh overlaps another refresh of it or a logout.
OneSessionPerDevice ==
  \A d \in Devices : "overlap" \notin fate[d] =>
    /\ Cardinality(SessionsOf(d)) <= 1
    /\ "out" \in fate[d] => SessionsOf(d) = {}

\* A device that has signed in stays signed in: only its own logout, the expiry
\* of its session, a refresh that fails half-way or an overlap takes that away.
DeviceStaysSignedIn ==
  \A d \in Devices : fate[d] = {"in"} /\ ~Refreshing(d) => SessionsOf(d) # {}

=============================================================================
