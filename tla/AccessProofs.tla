------------------------------ MODULE AccessProofs ------------------------------
(***************************************************************************)
(* Who is signed in and who may do what: the sessions of a user, and the    *)
(* agencies, clients, stores and roles, for every set of requests.          *)
(***************************************************************************)
EXTENDS Sessions, TenantTree, FiniteSetTheorems, TLAPS

-----------------------------------------------------------------------------
(* Part 1.  Sessions.                                                         *)

LiveOn(t, d)    == session[t].state = "live" /\ session[t].device = d
Refresher(u, d) == caller[u].token # NOTOKEN /\ caller[u].device = d
InStages(u, stages) == caller[u].stage \in stages

\* What a request carries fits what it is about to do.
CallersSound ==
  \A u \in Callers :
    /\ InStages(u, {"idle"}) => caller[u] = Quiet
    /\ ~InStages(u, {"idle"}) => caller[u].device \in Devices
    /\ InStages(u, {"end"}) => caller[u].token # NOTOKEN
    /\ InStages(u, {"register"}) => caller[u].token = NOTOKEN
    /\ caller[u].token # NOTOKEN => /\ session[caller[u].token].state # "none"
                                    /\ session[caller[u].token].device = caller[u].device

\* A session is of a device that has signed in.
SessionsSound ==
  \A t \in Tokens : session[t].state # "none" =>
    session[t].device \in Devices /\ fate[session[t].device] # {}

\* A request that signs a device in is the first of that device, and its only one.
SignInAlone ==
  \A u \in Callers : ~InStages(u, {"idle"}) /\ caller[u].token = NOTOKEN =>
    /\ fate[caller[u].device] = {}
    /\ \A v \in Callers \ {u} : caller[v].device # caller[u].device

\* Of a device that no refresh and logout, or two refreshes, overlapped on.
OneRefresh(d) == \A u, v \in Callers : Refresher(u, d) /\ Refresher(v, d) => u = v
OneLive(d)    == \A s, t \in Tokens : LiveOn(s, d) /\ LiveOn(t, d) => s = t
OutMeansOut(d) == "out" \in fate[d] => \A t \in Tokens : ~LiveOn(t, d)
\* From the check of the session on it is the only one, and from its end on there is none.
Rotating(d) ==
  \A u \in Callers : Refresher(u, d) /\ InStages(u, {"role", "end", "store"}) =>
    /\ "out" \notin fate[d]
    /\ \A t \in Tokens : LiveOn(t, d) => t = caller[u].token /\ ~InStages(u, {"store"})
OneByOne(d) == OneRefresh(d) /\ OneLive(d) /\ OutMeansOut(d) /\ Rotating(d)
OneByOneUnlessOverlap == \A d \in Devices : "overlap" \notin fate[d] => OneByOne(d)

\* Between the end of the old session and the new one there is none.
StaysOn ==
  \A d \in Devices :
    fate[d] = {"in"} /\ (\A u \in Callers : Refresher(u, d) => ~InStages(u, {"store"})) =>
      \E t \in Tokens : LiveOn(t, d)

SessionInv ==
  /\ SessionTypeOK /\ CallersSound /\ SessionsSound /\ SignInAlone
  /\ OneByOneUnlessOverlap /\ StaysOn

-----------------------------------------------------------------------------
LEMMA SessionInitEstablishesInv == SessionInit => SessionInv
<1> SUFFICES ASSUME SessionInit PROVE SessionInv
  OBVIOUS
<1>1. NoSession \in Session /\ Quiet \in Caller
  BY DEF NoSession, Session, Quiet, Caller
<1>2. SessionTypeOK
  <2>1. session \in [Tokens -> Session] /\ caller \in [Callers -> Caller]
    BY <1>1 DEF SessionInit
  <2>2. fate \in [Devices -> SUBSET Fates] /\ sessionCalls \in 0..MaxSessionCalls
    BY SessionAssumption DEF SessionInit
  <2> QED
    BY <2>1, <2>2 DEF SessionInit, SessionTypeOK
<1>3. CallersSound /\ SessionsSound /\ SignInAlone
  BY DEF SessionInit, CallersSound, SessionsSound, SignInAlone, InStages, Quiet, NoSession
<1>4. OneByOneUnlessOverlap /\ StaysOn
  BY DEF SessionInit, OneByOneUnlessOverlap, OneByOne, OneRefresh, OneLive, OutMeansOut, Rotating, StaysOn, LiveOn,
         Refresher, InStages, Quiet, NoSession
<1> QED
  BY <1>2, <1>3, <1>4 DEF SessionInv

LEMMA AskToSignInKeepsInv ==
  ASSUME NEW u \in Callers, NEW d \in Devices, NEW stage \in {"register", "find", "role"},
         SessionInv, AskToSignIn(u, stage, d)
  PROVE  SessionInv'
<1>1. /\ caller'[u] = [stage |-> stage, token |-> NOTOKEN, device |-> d]
      /\ \A v \in Callers \ {u} : caller'[v] = caller[v]
      /\ caller' \in [Callers -> Caller]
  BY DEF AskToSignIn, Ask, SessionInv, SessionTypeOK, Caller
<1>2. UNCHANGED <<account, hasRole, session, fate>> /\ caller[u] = Quiet /\ fate[d] = {}
      /\ (\A v \in Callers : caller[v].device # d)
  BY DEF AskToSignIn, Ask
<1>3. SessionTypeOK'
  BY <1>1, <1>2, SessionAssumption DEF AskToSignIn, Ask, SessionInv, SessionTypeOK
<1>4. CallersSound' /\ SessionsSound' /\ SignInAlone'
  BY <1>1, <1>2 DEF SessionInv, CallersSound, SessionsSound, SignInAlone, InStages, Quiet
<1>5. \A v \in Callers, x \in Devices : Refresher(v, x)' <=> Refresher(v, x)
  BY <1>1, <1>2 DEF Refresher, Quiet
<1>6. OneByOneUnlessOverlap' /\ StaysOn'
  BY <1>1, <1>2, <1>5 DEF SessionInv, OneByOneUnlessOverlap, OneByOne, OneRefresh, OneLive, OutMeansOut, Rotating,
       StaysOn, LiveOn, Refresher, InStages
<1> QED
  BY <1>3, <1>4, <1>6 DEF SessionInv

LEMMA AskToRefreshKeepsInv ==
  ASSUME NEW u \in Callers, NEW t \in Tokens, SessionInv, AskToRefresh(u, t)
  PROVE  SessionInv'
<1> DEFINE d == session[t].device
<1>0. session[t].state # "none" /\ d \in Devices /\ fate[d] # {} /\ t # NOTOKEN
  BY SessionAssumption DEF AskToRefresh, SessionInv, SessionsSound
<1>1. /\ caller'[u] = [stage |-> "find", token |-> t, device |-> d]
      /\ \A v \in Callers \ {u} : caller'[v] = caller[v]
      /\ caller' \in [Callers -> Caller]
  BY <1>0 DEF AskToRefresh, Ask, SessionInv, SessionTypeOK, Caller
<1>2. /\ UNCHANGED <<account, hasRole, session>> /\ caller[u] = Quiet
      /\ \A x \in Devices : /\ fate[x] \subseteq fate'[x]
                            /\ "overlap" \notin fate'[x] => fate'[x] = fate[x]
                            /\ x # d => fate'[x] = fate[x]
      /\ Refreshing(d) => "overlap" \in fate'[d]
      /\ fate' \in [Devices -> SUBSET Fates]
  BY <1>0 DEF AskToRefresh, Ask, SessionInv, SessionTypeOK, Fates
<1>3. SessionTypeOK'
  BY <1>1, <1>2, SessionAssumption DEF AskToRefresh, Ask, SessionInv, SessionTypeOK
<1>4. CallersSound' /\ SessionsSound'
  BY <1>0, <1>1, <1>2 DEF SessionInv, CallersSound, SessionsSound, InStages, Quiet
<1>5. SignInAlone'
  <2> SUFFICES ASSUME NEW v \in Callers, ~InStages(v, {"idle"})', caller'[v].token = NOTOKEN
               PROVE  /\ fate'[caller'[v].device] = {}
                      /\ \A w \in Callers \ {v} : caller'[w].device # caller'[v].device
    BY DEF SignInAlone
  <2>1. v # u /\ caller'[v] = caller[v] /\ ~InStages(v, {"idle"})
    BY <1>0, <1>1 DEF InStages
  <2>2. caller[v].device \in Devices /\ fate[caller[v].device] = {}
    BY <1>1, <2>1 DEF SessionInv, CallersSound, SignInAlone
  <2>3. caller[v].device # d
    BY <1>0, <2>2
  <2> QED
    BY <1>1, <1>2, <2>1, <2>2, <2>3 DEF SessionInv, SignInAlone
<1>6. OneByOneUnlessOverlap'
  BY <1>0, <1>1, <1>2 DEF SessionInv, OneByOneUnlessOverlap, OneByOne, OneRefresh, OneLive, OutMeansOut, Rotating,
       LiveOn, Refresher, Refreshing, InStages
<1>7. StaysOn'
  <2> SUFFICES ASSUME NEW x \in Devices, fate'[x] = {"in"},
                      \A v \in Callers : Refresher(v, x)' => ~InStages(v, {"store"})'
               PROVE  \E s \in Tokens : LiveOn(s, x)'
    BY DEF StaysOn
  <2>1. fate[x] = {"in"}
    BY <1>2
  <2>2. \A v \in Callers : Refresher(v, x) => ~InStages(v, {"store"})
    BY <1>1, <1>2 DEF Refresher, InStages, Quiet
  <2> QED
    BY <2>1, <2>2, <1>2 DEF SessionInv, StaysOn, LiveOn
<1> QED
  BY <1>3, <1>4, <1>5, <1>6, <1>7 DEF SessionInv

LEMMA EarlyStepKeepsInv ==
  ASSUME NEW u \in Callers, SessionInv, Register(u) \/ Find(u) \/ FindRole(u)
  PROVE  SessionInv'
<1>1. PICK stage \in {"role", "end", "store"} :
        /\ caller' = [caller EXCEPT ![u].stage = stage]
        /\ caller[u].token # NOTOKEN => stage # "store"
        /\ stage = "end" => caller[u].token # NOTOKEN
        /\ stage = "end" => InStages(u, {"role"})
  BY DEF Register, Find, FindRole, Proceed, SessionInv, CallersSound, InStages
<1>2. /\ UNCHANGED <<session, fate, sessionCalls>> /\ ~InStages(u, {"idle", "store"})
      /\ account' \in {"none", "open", "closed"} /\ hasRole' \in BOOLEAN
      /\ caller[u].token # NOTOKEN =>
           InStages(u, {"role"}) \/ session[caller[u].token].state = "live"
  BY DEF Register, Find, FindRole, SessionInv, SessionTypeOK, CallersSound, InStages
<1>3. /\ caller'[u] = [caller[u] EXCEPT !.stage = stage]
      /\ \A v \in Callers \ {u} : caller'[v] = caller[v]
      /\ caller' \in [Callers -> Caller]
  BY <1>1 DEF SessionInv, SessionTypeOK, Caller
<1>4. /\ caller'[u].stage = stage /\ caller'[u].token = caller[u].token
      /\ caller'[u].device = caller[u].device
  BY <1>3 DEF SessionInv, SessionTypeOK, Caller
<1>5. SessionTypeOK'
  BY <1>2, <1>3 DEF SessionInv, SessionTypeOK
<1>6. CallersSound' /\ SessionsSound' /\ SignInAlone'
  BY <1>1, <1>2, <1>3, <1>4 DEF SessionInv, CallersSound, SessionsSound, SignInAlone, InStages
<1>7. \A v \in Callers, x \in Devices : Refresher(v, x)' <=> Refresher(v, x)
  BY <1>3, <1>4 DEF Refresher
<1>8. OneByOneUnlessOverlap'
  <2> SUFFICES ASSUME NEW d \in Devices, "overlap" \notin fate[d]
               PROVE  OneByOne(d)'
    BY <1>2 DEF OneByOneUnlessOverlap
  <2>1. OneByOne(d)
    BY DEF SessionInv, OneByOneUnlessOverlap
  <2>2. OneRefresh(d)' /\ OneLive(d)' /\ OutMeansOut(d)'
    BY <2>1, <1>2, <1>7 DEF OneByOne, OneRefresh, OneLive, OutMeansOut, LiveOn
  <2>3. Rotating(d)'
    <3> SUFFICES ASSUME NEW v \in Callers, Refresher(v, d), InStages(v, {"role", "end", "store"})'
                 PROVE  /\ "out" \notin fate[d]
                        /\ \A t \in Tokens : LiveOn(t, d) => t = caller'[v].token /\ ~InStages(v, {"store"})'
      BY <1>2, <1>7 DEF Rotating, LiveOn
    <3>1. CASE v # u
      BY <3>1, <2>1, <1>3 DEF OneByOne, Rotating, InStages
    <3>2. CASE v = u /\ InStages(u, {"role"})
      BY <3>2, <2>1, <1>1, <1>4 DEF OneByOne, Rotating, InStages, Refresher
    <3>3. CASE v = u /\ session[caller[u].token].state = "live"
      <4>1. LiveOn(caller[u].token, d) /\ caller[u].token \in Tokens
        BY <3>3 DEF SessionInv, CallersSound, SessionTypeOK, Caller, Refresher, LiveOn
      <4> QED
        BY <3>3, <4>1, <2>1, <1>1, <1>4 DEF OneByOne, OneLive, OutMeansOut, InStages, Refresher
    <3> QED
      BY <3>1, <3>2, <3>3, <1>2 DEF Refresher
  <2> QED
    BY <2>2, <2>3 DEF OneByOne
<1>9. StaysOn'
  <2> SUFFICES ASSUME NEW d \in Devices, fate[d] = {"in"},
                      \A v \in Callers : Refresher(v, d)' => ~InStages(v, {"store"})'
               PROVE  \E t \in Tokens : LiveOn(t, d)
    BY <1>2 DEF StaysOn, LiveOn
  <2>1. \A v \in Callers : Refresher(v, d) => ~InStages(v, {"store"})
    BY <1>2, <1>3, <1>7 DEF InStages
  <2> QED
    BY <2>1 DEF SessionInv, StaysOn
<1> QED
  BY <1>5, <1>6, <1>8, <1>9 DEF SessionInv

LEMMA EndOldKeepsInv ==
  ASSUME NEW u \in Callers, SessionInv, EndOld(u)
  PROVE  SessionInv'
<1> DEFINE t == caller[u].token
           d == caller[u].device
<1>1. InStages(u, {"end"}) /\ t \in Tokens /\ d \in Devices /\ session[t].device = d /\ Refresher(u, d)
  BY DEF EndOld, SessionInv, CallersSound, SessionTypeOK, Caller, InStages, Refresher
<1>2. /\ caller' \in [Callers -> Caller] /\ caller'[u].stage = "store"
      /\ caller'[u].token = t /\ caller'[u].device = d
      /\ \A v \in Callers \ {u} : caller'[v] = caller[v]
  BY DEF EndOld, Proceed, SessionInv, SessionTypeOK, Caller
<1>3. /\ session' \in [Tokens -> Session]
      /\ \A s \in Tokens : session'[s].device = session[s].device
      /\ \A s \in Tokens : session'[s].state = "none" <=> session[s].state = "none"
      /\ \A s \in Tokens : session'[s].state = "live" <=> session[s].state = "live" /\ s # t
  BY <1>1 DEF EndOld, SessionInv, SessionTypeOK, Session
<1>4. UNCHANGED <<account, hasRole, sessionCalls, fate>>
  BY DEF EndOld
<1>5. SessionTypeOK'
  BY <1>2, <1>3, <1>4 DEF SessionInv, SessionTypeOK
<1>6. CallersSound'
  BY <1>1, <1>2, <1>3 DEF SessionInv, CallersSound, InStages, Refresher, SessionTypeOK, Caller
<1>7. SessionsSound' /\ SignInAlone'
  <2>1. SessionsSound'
    BY <1>3, <1>4 DEF SessionInv, SessionsSound
  <2>2. \A v \in Callers : /\ caller'[v].device = caller[v].device /\ caller'[v].token = caller[v].token
                           /\ InStages(v, {"idle"})' <=> InStages(v, {"idle"})
    BY <1>1, <1>2 DEF InStages
  <2> QED
    BY <1>4, <2>1, <2>2 DEF SessionInv, SignInAlone
<1>8. \A v \in Callers, x \in Devices : Refresher(v, x)' <=> Refresher(v, x)
  BY <1>2 DEF Refresher
<1>9. \A s \in Tokens, x \in Devices : LiveOn(s, x)' <=> LiveOn(s, x) /\ s # t
  BY <1>3 DEF LiveOn
<1>10. OneByOneUnlessOverlap'
  <2> SUFFICES ASSUME NEW x \in Devices, "overlap" \notin fate[x]
               PROVE  OneByOne(x)'
    BY <1>4 DEF OneByOneUnlessOverlap
  <2>1. OneByOne(x)
    BY DEF SessionInv, OneByOneUnlessOverlap
  <2>2. OneRefresh(x)' /\ OneLive(x)' /\ OutMeansOut(x)'
    BY <2>1, <1>4, <1>8, <1>9 DEF OneByOne, OneRefresh, OneLive, OutMeansOut
  <2>3. Rotating(x)'
    <3> SUFFICES ASSUME NEW v \in Callers, Refresher(v, x), InStages(v, {"role", "end", "store"})'
                 PROVE  /\ "out" \notin fate[x]
                        /\ \A s \in Tokens : LiveOn(s, x)' => s = caller'[v].token /\ ~InStages(v, {"store"})'
      BY <1>4, <1>8 DEF Rotating
    <3>1. CASE v # u
      BY <3>1, <2>1, <1>2, <1>9 DEF OneByOne, Rotating, InStages
    <3>2. CASE v = u
      BY <3>2, <2>1, <1>1, <1>2, <1>9 DEF OneByOne, Rotating, InStages
    <3> QED
      BY <3>1, <3>2
  <2> QED
    BY <2>2, <2>3 DEF OneByOne
<1>11. StaysOn'
  <2> SUFFICES ASSUME NEW x \in Devices, fate[x] = {"in"},
                      \A v \in Callers : Refresher(v, x) => ~InStages(v, {"store"})'
               PROVE  \E s \in Tokens : LiveOn(s, x)'
    BY <1>4, <1>8 DEF StaysOn
  <2>1. x # d
    BY <1>1, <1>2 DEF InStages
  <2>2. \A v \in Callers : Refresher(v, x) => ~InStages(v, {"store"})
    BY <1>1, <1>2 DEF InStages
  <2>3. PICK s \in Tokens : LiveOn(s, x)
    BY <2>2 DEF SessionInv, StaysOn
  <2> QED
    BY <2>1, <2>3, <1>1, <1>9 DEF LiveOn
<1> QED
  BY <1>5, <1>6, <1>7, <1>10, <1>11 DEF SessionInv

LEMMA StoreNewKeepsInv ==
  ASSUME NEW u \in Callers, NEW t \in Tokens, SessionInv, StoreNew(u, t)
  PROVE  SessionInv'
<1> DEFINE d == caller[u].device
<1>1. InStages(u, {"store"}) /\ session[t].state = "none" /\ d \in Devices
  BY DEF StoreNew, SessionInv, CallersSound, InStages, NoSession
<1>2. caller' \in [Callers -> Caller] /\ caller'[u] = Quiet /\ \A v \in Callers \ {u} : caller'[v] = caller[v]
  BY DEF StoreNew, SessionInv, SessionTypeOK, Caller, Quiet
<1>3. /\ session' \in [Tokens -> Session] /\ session'[t] = [state |-> "live", device |-> d]
      /\ \A s \in Tokens \ {t} : session'[s] = session[s]
  BY <1>1 DEF StoreNew, SessionInv, SessionTypeOK, Session
<1>4. /\ fate' \in [Devices -> SUBSET Fates] /\ fate'[d] = fate[d] \cup {"in"}
      /\ (\A x \in Devices \ {d} : fate'[x] = fate[x]) /\ UNCHANGED <<account, hasRole, sessionCalls>>
  BY <1>1 DEF StoreNew, SessionInv, SessionTypeOK, Fates
<1>5. SessionTypeOK'
  BY <1>2, <1>3, <1>4 DEF SessionInv, SessionTypeOK
<1>6. CallersSound'
  BY <1>1, <1>2, <1>3 DEF SessionInv, CallersSound, InStages, Quiet, SessionTypeOK, Caller
<1>7. SessionsSound'
  BY <1>1, <1>3, <1>4 DEF SessionInv, SessionsSound
<1>8. SignInAlone'
  <2> SUFFICES ASSUME NEW v \in Callers, ~InStages(v, {"idle"})', caller'[v].token = NOTOKEN
               PROVE  /\ fate'[caller'[v].device] = {}
                      /\ \A w \in Callers \ {v} : caller'[w].device # caller'[v].device
    BY DEF SignInAlone
  <2>1. v # u /\ caller'[v] = caller[v] /\ ~InStages(v, {"idle"})
    BY <1>2 DEF InStages, Quiet
  <2>2. /\ caller[v].device \in Devices /\ fate[caller[v].device] = {}
        /\ \A w \in Callers \ {v} : caller[w].device # caller[v].device
    BY <1>2, <2>1 DEF SessionInv, CallersSound, SignInAlone
  <2>3. caller[v].device # d /\ caller[v].device # NOTOKEN
    BY <2>1, <2>2, SessionAssumption
  <2> QED
    BY <1>2, <1>4, <2>1, <2>2, <2>3 DEF Quiet
<1>9. \A v \in Callers, x \in Devices : Refresher(v, x)' <=> Refresher(v, x) /\ v # u
  BY <1>2 DEF Refresher, Quiet
<1>10. \A s \in Tokens, x \in Devices : LiveOn(s, x)' <=> IF s = t THEN x = d ELSE LiveOn(s, x)
  BY <1>3 DEF LiveOn
<1>11. ASSUME "overlap" \notin fate[d]
       PROVE  /\ "out" \notin fate[d] /\ \A s \in Tokens : ~LiveOn(s, d)
              /\ \A v \in Callers \ {u} : ~Refresher(v, d)
  <2>1. CASE caller[u].token = NOTOKEN
    BY <1>1, <2>1 DEF SessionInv, SignInAlone, SessionsSound, InStages, LiveOn, Refresher
  <2>2. CASE caller[u].token # NOTOKEN
    <3>1. OneByOne(d) /\ Refresher(u, d)
      BY <1>1, <1>11, <2>2 DEF SessionInv, OneByOneUnlessOverlap, Refresher
    <3> QED
      BY <3>1, <1>1 DEF OneByOne, OneRefresh, Rotating, InStages
  <2> QED
    BY <2>1, <2>2
<1>12. OneByOneUnlessOverlap'
  <2> SUFFICES ASSUME NEW x \in Devices, "overlap" \notin fate'[x]
               PROVE  OneByOne(x)'
    BY DEF OneByOneUnlessOverlap
  <2>1. OneByOne(x) /\ "overlap" \notin fate[x]
    BY <1>4 DEF SessionInv, OneByOneUnlessOverlap
  <2>2. CASE x # d
    <3>1. /\ \A v \in Callers : Refresher(v, x)' => Refresher(v, x) /\ v # u
          /\ \A s \in Tokens : LiveOn(s, x)' => LiveOn(s, x)
          /\ \A v \in Callers \ {u} : caller'[v] = caller[v]
          /\ fate'[x] = fate[x]
      BY <1>2, <1>4, <1>9, <1>10, <2>2
    <3> QED
      BY <2>1, <3>1 DEF OneByOne, OneRefresh, OneLive, OutMeansOut, Rotating, InStages
  <2>3. CASE x = d
    <3>1. /\ \A v \in Callers : ~Refresher(v, x)'
          /\ \A s \in Tokens : LiveOn(s, x)' => s = t
          /\ "out" \notin fate'[x]
      BY <1>4, <1>9, <1>10, <1>11, <2>1, <2>3
    <3> QED
      BY <3>1 DEF OneByOne, OneRefresh, OneLive, OutMeansOut, Rotating
  <2> QED
    BY <2>2, <2>3
<1>13. StaysOn'
  <2> SUFFICES ASSUME NEW x \in Devices, fate'[x] = {"in"},
                      \A v \in Callers : Refresher(v, x)' => ~InStages(v, {"store"})'
               PROVE  \E s \in Tokens : LiveOn(s, x)'
    BY DEF StaysOn
  <2>1. CASE x = d
    BY <1>10, <2>1
  <2>2. CASE x # d
    <3>1. fate[x] = {"in"} /\ \A v \in Callers : Refresher(v, x) => ~InStages(v, {"store"})
      BY <1>2, <1>4, <1>9, <2>2 DEF InStages, Refresher
    <3>2. PICK s \in Tokens : LiveOn(s, x)
      BY <3>1 DEF SessionInv, StaysOn
    <3> QED
      BY <3>2, <1>1, <1>10 DEF LiveOn
  <2> QED
    BY <2>1, <2>2
<1> QED
  BY <1>5, <1>6, <1>7, <1>8, <1>12, <1>13 DEF SessionInv

LEMMA AskInVainKeepsInv ==
  ASSUME NEW u \in Callers, SessionInv, AskInVain(u)
  PROVE  SessionInv'
<1> DEFINE d == caller[u].device
<1>1. /\ caller[u] # Quiet /\ ~InStages(u, {"idle"}) /\ d \in Devices
      /\ UNCHANGED <<account, hasRole, session, sessionCalls>>
  BY DEF AskInVain, SessionInv, CallersSound
<1>2. caller' \in [Callers -> Caller] /\ caller'[u] = Quiet /\ \A v \in Callers \ {u} : caller'[v] = caller[v]
  BY DEF AskInVain, SessionInv, SessionTypeOK, Caller, Quiet
<1>3. /\ fate' \in [Devices -> SUBSET Fates] /\ \A x \in Devices \ {d} : fate'[x] = fate[x]
      /\ fate'[d] = fate[d] \/ fate'[d] = fate[d] \cup {"torn"}
      /\ caller[u].token # NOTOKEN /\ InStages(u, {"store"}) => "torn" \in fate'[d]
      /\ caller[u].token = NOTOKEN => fate'[d] = fate[d]
  BY <1>1 DEF AskInVain, SessionInv, SessionTypeOK, Fates, InStages
<1>4. SessionTypeOK'
  BY <1>1, <1>2, <1>3 DEF SessionInv, SessionTypeOK
<1>5. CallersSound'
  BY <1>1, <1>2 DEF SessionInv, CallersSound, InStages, Quiet
<1>6. SessionsSound'
  BY <1>1, <1>3 DEF SessionInv, SessionsSound
<1>7. SignInAlone'
  <2> SUFFICES ASSUME NEW v \in Callers, ~InStages(v, {"idle"})', caller'[v].token = NOTOKEN
               PROVE  /\ fate'[caller'[v].device] = {}
                      /\ \A w \in Callers \ {v} : caller'[w].device # caller'[v].device
    BY DEF SignInAlone
  <2>1. v # u /\ caller'[v] = caller[v] /\ ~InStages(v, {"idle"})
    BY <1>2 DEF InStages, Quiet
  <2>2. /\ caller[v].device \in Devices /\ fate[caller[v].device] = {}
        /\ \A w \in Callers \ {v} : caller[w].device # caller[v].device
    BY <1>2, <2>1 DEF SessionInv, CallersSound, SignInAlone
  <2>3. caller[v].device # d /\ caller[v].device # NOTOKEN
    BY <2>1, <2>2, SessionAssumption
  <2> QED
    BY <1>2, <1>3, <2>1, <2>2, <2>3 DEF Quiet
<1>8. \A v \in Callers, x \in Devices : Refresher(v, x)' <=> Refresher(v, x) /\ v # u
  BY <1>2 DEF Refresher, Quiet
<1>9. OneByOneUnlessOverlap'
  <2> SUFFICES ASSUME NEW x \in Devices, "overlap" \notin fate'[x]
               PROVE  OneByOne(x)'
    BY DEF OneByOneUnlessOverlap
  <2>1. OneByOne(x) /\ ("out" \in fate'[x] <=> "out" \in fate[x])
    BY <1>3 DEF SessionInv, OneByOneUnlessOverlap
  <2>2. /\ \A v \in Callers : Refresher(v, x)' => Refresher(v, x) /\ v # u
        /\ \A s \in Tokens : LiveOn(s, x)' <=> LiveOn(s, x)
    BY <1>1, <1>8 DEF LiveOn
  <2> QED
    BY <1>2, <2>1, <2>2 DEF OneByOne, OneRefresh, OneLive, OutMeansOut, Rotating, InStages
<1>10. StaysOn'
  <2> SUFFICES ASSUME NEW x \in Devices, fate'[x] = {"in"},
                      \A v \in Callers : Refresher(v, x)' => ~InStages(v, {"store"})'
               PROVE  \E s \in Tokens : LiveOn(s, x)
    BY <1>1 DEF StaysOn, LiveOn
  <2>1. fate[x] = {"in"}
    <3>1. CASE x # d
      BY <3>1, <1>3
    <3>2. CASE x = d
      <4>1. caller[u].token # NOTOKEN
        BY <3>2, <1>1, <1>3 DEF SessionInv, SignInAlone
      <4>2. fate'[x] # fate[x] \cup {"torn"}
        OBVIOUS
      <4> QED
        BY <3>2, <4>2, <1>3
    <3> QED
      BY <3>1, <3>2
  <2>2. \A v \in Callers \ {u} : Refresher(v, x) => ~InStages(v, {"store"})
    BY <1>2, <1>8 DEF InStages
  <2>3. Refresher(u, x) => ~InStages(u, {"store"})
    BY <1>3 DEF Refresher
  <2> QED
    BY <2>1, <2>2, <2>3 DEF SessionInv, StaysOn
<1> QED
  BY <1>4, <1>5, <1>6, <1>7, <1>9, <1>10 DEF SessionInv

\* Sessions end, and the devices they are of know why.
LEMMA SessionsEndKeepInv ==
  ASSUME SessionInv, SessionTypeOK', UNCHANGED caller,
         \A t \in Tokens : /\ session'[t].device = session[t].device
                           /\ session'[t].state = "none" <=> session[t].state = "none"
                           /\ session'[t].state = "live" => session[t].state = "live",
         \A x \in Devices : /\ fate[x] \subseteq fate'[x]
                            /\ (\A t \in Tokens : session[t].state # "none" => session[t].device # x)
                                 => fate'[x] = fate[x]
                            /\ (\E t \in Tokens : LiveOn(t, x) /\ ~LiveOn(t, x)') => fate'[x] # {"in"}
                            /\ "overlap" \in fate'[x] \/ OutMeansOut(x)'
                            /\ \/ "overlap" \in fate'[x] \/ ("out" \in fate'[x] => "out" \in fate[x])
                               \/ \A u \in Callers : ~Refresher(u, x)
  PROVE  SessionInv'
<1>1. CallersSound' /\ SessionsSound'
  BY DEF SessionInv, CallersSound, SessionsSound, InStages, SessionTypeOK, Caller
<1>2. SignInAlone'
  <2> SUFFICES ASSUME NEW v \in Callers, ~InStages(v, {"idle"}), caller[v].token = NOTOKEN
               PROVE  fate'[caller[v].device] = {}
    BY DEF SessionInv, SignInAlone, InStages
  <2>1. caller[v].device \in Devices /\ fate[caller[v].device] = {}
    BY DEF SessionInv, CallersSound, SignInAlone
  <2>2. \A t \in Tokens : session[t].state # "none" => session[t].device # caller[v].device
    BY <2>1 DEF SessionInv, SessionsSound
  <2> QED
    BY <2>1, <2>2
<1>3. \A t \in Tokens, x \in Devices : LiveOn(t, x)' => LiveOn(t, x)
  BY DEF LiveOn
<1>4. OneByOneUnlessOverlap'
  <2> SUFFICES ASSUME NEW x \in Devices, "overlap" \notin fate'[x]
               PROVE  OneByOne(x)'
    BY DEF OneByOneUnlessOverlap
  <2>1. OneByOne(x)
    BY DEF SessionInv, OneByOneUnlessOverlap
  <2>2. OneRefresh(x)' /\ OneLive(x)' /\ OutMeansOut(x)'
    BY <1>3, <2>1 DEF OneByOne, OneRefresh, OneLive, Refresher
  <2>3. Rotating(x)'
    BY <1>3, <2>1 DEF OneByOne, Rotating, Refresher, InStages
  <2> QED
    BY <2>2, <2>3 DEF OneByOne
<1>5. StaysOn'
  <2> SUFFICES ASSUME NEW x \in Devices, fate'[x] = {"in"},
                      \A v \in Callers : Refresher(v, x) => ~InStages(v, {"store"})
               PROVE  \E s \in Tokens : LiveOn(s, x)'
    BY DEF StaysOn, Refresher, InStages
  <2>1. CASE fate[x] = {"in"}
    BY <2>1 DEF SessionInv, StaysOn
  <2>2. CASE fate[x] # {"in"}
    <3>1. fate[x] = {}
      BY <2>2
    <3>2. \A t \in Tokens : session[t].state # "none" => session[t].device # x
      BY <3>1 DEF SessionInv, SessionsSound
    <3> QED
      BY <3>1, <3>2
  <2> QED
    BY <2>1, <2>2
<1> QED
  BY <1>1, <1>2, <1>4, <1>5 DEF SessionInv

LEMMA EndSessionsKeepsInv ==
  ASSUME NEW closing \in SUBSET Tokens, SessionInv, EndSessions(closing)
  PROVE  SessionInv'
<1> DEFINE ended == {t \in closing : session[t].state = "live"}
<1>1. /\ session' \in [Tokens -> Session] /\ UNCHANGED <<account, hasRole, caller>>
      /\ fate' \in [Devices -> SUBSET Fates] /\ sessionCalls' \in 0..MaxSessionCalls
  BY SessionAssumption DEF EndSessions, SessionInv, SessionTypeOK, Session, Fates
<1>2. SessionTypeOK'
  BY <1>1 DEF SessionInv, SessionTypeOK
<1>3. \A t \in Tokens : /\ session'[t].device = session[t].device
                        /\ session'[t].state = "none" <=> session[t].state = "none"
                        /\ session'[t].state = "live" <=> session[t].state = "live" /\ t \notin closing
  BY DEF EndSessions, SessionInv, SessionTypeOK, Session
<1>4. \A t \in Tokens, x \in Devices : LiveOn(t, x)' <=> LiveOn(t, x) /\ t \notin closing
  BY <1>3 DEF LiveOn
<1>5. ASSUME NEW x \in Devices
      PROVE  /\ fate[x] \subseteq fate'[x]
             /\ (\A t \in Tokens : session[t].state # "none" => session[t].device # x) => fate'[x] = fate[x]
             /\ (\E t \in Tokens : LiveOn(t, x) /\ ~LiveOn(t, x)') => fate'[x] # {"in"}
             /\ "overlap" \in fate'[x] \/ OutMeansOut(x)'
             /\ \/ "overlap" \in fate'[x] \/ ("out" \in fate'[x] => "out" \in fate[x])
                \/ \A u \in Callers : ~Refresher(u, x)
  <2>1. ended \cap SessionsOf(x) # {} <=> \E t \in closing : LiveOn(t, x)
    BY DEF SessionsOf, LiveOn
  <2>2. Refreshing(x) <=> \E u \in Callers : Refresher(u, x)
    BY DEF Refreshing, Refresher
  <2>3. closing \cap {t \in Tokens : session[t].device = x} # {} <=> \E t \in closing : session[t].device = x
    OBVIOUS
  <2>4. fate'[x] = fate[x] \cup (IF \E t \in closing : LiveOn(t, x) THEN {"out"} ELSE {})
                          \cup (IF (\E t \in closing : session[t].device = x) /\ (\E u \in Callers : Refresher(u, x))
                                THEN {"overlap"} ELSE {})
    BY <2>1, <2>2, <2>3 DEF EndSessions
  <2>5. fate[x] \subseteq fate'[x]
    BY <2>4
  <2>6. (\A t \in Tokens : session[t].state # "none" => session[t].device # x) => fate'[x] = fate[x]
    <3> SUFFICES ASSUME \A t \in Tokens : session[t].state # "none" => session[t].device # x
                 PROVE  fate'[x] = fate[x]
      OBVIOUS
    <3>1. \A t \in closing : ~LiveOn(t, x)
      BY DEF LiveOn
    <3>2. \A u \in Callers : ~Refresher(u, x)
      BY DEF Refresher, SessionInv, CallersSound, SessionTypeOK, Caller
    <3> QED
      BY <2>4, <3>1, <3>2
  <2>7. (\E t \in Tokens : LiveOn(t, x) /\ ~LiveOn(t, x)') => "out" \in fate'[x]
    BY <1>4, <2>4
  <2>8. \/ "overlap" \in fate'[x] \/ ("out" \in fate'[x] => "out" \in fate[x])
        \/ \A u \in Callers : ~Refresher(u, x)
    BY <2>4 DEF LiveOn
  <2>9. "overlap" \notin fate'[x] => OutMeansOut(x)'
    <3>1. "overlap" \notin fate'[x] => OneLive(x) /\ OutMeansOut(x)
      BY <2>5 DEF SessionInv, OneByOneUnlessOverlap, OneByOne
    <3>2. "out" \in fate'[x] => "out" \in fate[x] \/ \E t \in closing : LiveOn(t, x)
      BY <2>4
    <3> QED
      BY <1>4, <3>1, <3>2 DEF OneLive, OutMeansOut
  <2> QED
    BY <2>5, <2>6, <2>7, <2>8, <2>9
<1> QED
  BY <1>1, <1>2, <1>3, <1>5, SessionsEndKeepInv

LEMMA ExpiresKeepsInv ==
  ASSUME NEW t \in Tokens, SessionInv, Expires(t)
  PROVE  SessionInv'
<1> DEFINE d == session[t].device
<1>1. d \in Devices /\ session[t].state = "live"
  BY DEF Expires, SessionInv, SessionsSound
<1>0. /\ session' = [session EXCEPT ![t].state = "expired"] /\ UNCHANGED <<account, hasRole, caller, sessionCalls>>
      /\ session \in [Tokens -> Session]
  BY DEF Expires, SessionInv, SessionTypeOK
<1> HIDE DEF d
<1>2. /\ session' \in [Tokens -> Session]
      /\ \A s \in Tokens : /\ session'[s].device = session[s].device
                           /\ session'[s].state = "none" <=> session[s].state = "none"
                           /\ session'[s].state = "live" <=> session[s].state = "live" /\ s # t
  BY <1>0, <1>1 DEF Session
<1> USE DEF d
<1>3. /\ fate' \in [Devices -> SUBSET Fates] /\ fate'[d] = fate[d] \cup {"lapsed"}
      /\ \A x \in Devices \ {d} : fate'[x] = fate[x]
  BY <1>1 DEF Expires, SessionInv, SessionTypeOK, Fates
<1>4. SessionTypeOK'
  BY <1>0, <1>2, <1>3 DEF SessionInv, SessionTypeOK
<1>5. ASSUME NEW s \in Tokens, NEW x \in Devices
      PROVE  LiveOn(s, x)' <=> LiveOn(s, x) /\ s # t
  BY <1>2 DEF LiveOn
<1>6. ASSUME NEW x \in Devices
      PROVE  /\ fate[x] \subseteq fate'[x]
             /\ (\A s \in Tokens : session[s].state # "none" => session[s].device # x) => fate'[x] = fate[x]
             /\ (\E s \in Tokens : LiveOn(s, x) /\ ~LiveOn(s, x)') => fate'[x] # {"in"}
             /\ "overlap" \in fate'[x] \/ OutMeansOut(x)'
             /\ \/ "overlap" \in fate'[x] \/ ("out" \in fate'[x] => "out" \in fate[x])
                \/ \A u \in Callers : ~Refresher(u, x)
  <2>1. /\ fate[x] \subseteq fate'[x] /\ ("out" \in fate'[x] => "out" \in fate[x])
        /\ x = d => fate'[x] # {"in"}
    BY <1>3
  <2>2. (\A s \in Tokens : session[s].state # "none" => session[s].device # x) => fate'[x] = fate[x]
    BY <1>1, <1>3
  <2>3. (\E s \in Tokens : LiveOn(s, x) /\ ~LiveOn(s, x)') => x = d
    BY <1>5 DEF LiveOn
  <2>4. "overlap" \in fate'[x] \/ OutMeansOut(x)'
    BY <1>5, <2>1 DEF SessionInv, OneByOneUnlessOverlap, OneByOne, OutMeansOut
  <2> QED
    BY <2>1, <2>2, <2>3, <2>4
<1> QED
  BY <1>0, <1>2, <1>4, <1>6, SessionsEndKeepInv

LEMMA OutsideKeepsInv ==
  ASSUME SessionInv, ChangeAccount \/ UNCHANGED sessionVars
  PROVE  SessionInv'
<1>0. UNCHANGED <<session, caller, fate>> /\ account' \in {"none", "open", "closed"} /\ hasRole' \in BOOLEAN
  BY Zenon DEF ChangeAccount, sessionVars, SessionInv, SessionTypeOK
<1>1. UNCHANGED <<session, caller, fate>> /\ SessionTypeOK'
  <2>1. sessionCalls' \in 0..MaxSessionCalls
    BY SessionAssumption DEF ChangeAccount, sessionVars, SessionInv, SessionTypeOK
  <2> QED
    BY <1>0, <2>1 DEF SessionInv, SessionTypeOK
<1> QED
  BY <1>1
  DEF SessionInv, CallersSound, SessionsSound, SignInAlone, OneByOneUnlessOverlap, OneByOne, OneRefresh, OneLive,
       OutMeansOut, Rotating, StaysOn, LiveOn, Refresher, InStages

LEMMA SessionNextKeepsInv == SessionInv /\ [SessionNext]_sessionVars => SessionInv'
<1> SUFFICES ASSUME SessionInv, [SessionNext]_sessionVars
             PROVE  SessionInv'
  OBVIOUS
<1>1. ASSUME NEW u \in Callers, NEW d \in Devices, NEW stage \in {"register", "find", "role"},
             AskToSignIn(u, stage, d)
      PROVE  SessionInv'
  BY <1>1, AskToSignInKeepsInv
<1>2. ASSUME NEW u \in Callers, NEW t \in Tokens, AskToRefresh(u, t) \/ StoreNew(u, t)
      PROVE  SessionInv'
  BY <1>2, AskToRefreshKeepsInv, StoreNewKeepsInv
<1>3. ASSUME NEW u \in Callers, Register(u) \/ Find(u) \/ FindRole(u) \/ EndOld(u) \/ AskInVain(u)
      PROVE  SessionInv'
  BY <1>3, EarlyStepKeepsInv, EndOldKeepsInv, AskInVainKeepsInv
<1>4. ASSUME NEW t \in Tokens, Logout(t) \/ Expires(t)
      PROVE  SessionInv'
  BY <1>4, EndSessionsKeepsInv, ExpiresKeepsInv DEF Logout
<1>5. ASSUME NEW t \in Tokens \cup {NOTOKEN}, LogoutAllDevices(t)
      PROVE  SessionInv'
  BY <1>5, EndSessionsKeepsInv DEF LogoutAllDevices
<1>6. ASSUME ChangeAccount \/ UNCHANGED sessionVars
      PROVE  SessionInv'
  BY <1>6, OutsideKeepsInv
<1> QED
  BY <1>1, <1>2, <1>3, <1>4, <1>5, <1>6 DEF SessionNext

\* The inductive invariant: while nothing overlaps, the stage of a device's refresh
\* tells which of its sessions is live.
THEOREM SessionInvariant == SessionSpec => []SessionInv
BY SessionInitEstablishesInv, SessionNextKeepsInv, PTL DEF SessionSpec

\* Every state is of the declared types, for every set of tokens, devices and requests.
THEOREM SessionTypeCorrect == SessionSpec => []SessionTypeOK
<1>1. SessionInv => SessionTypeOK
  BY DEF SessionInv
<1> QED
  BY <1>1, SessionInvariant, PTL

\* refreshTokens() and logout() leave a device one live session at most, and none
\* after a logout, unless a refresh overlaps another one or a logout.
THEOREM RotationLeavesOne == SessionSpec => []OneSessionPerDevice
<1>1. SessionInv => OneSessionPerDevice
  <2> SUFFICES ASSUME SessionInv, NEW d \in Devices, "overlap" \notin fate[d]
               PROVE  /\ Cardinality(SessionsOf(d)) <= 1
                      /\ "out" \in fate[d] => SessionsOf(d) = {}
    BY DEF OneSessionPerDevice
  <2>1. OneLive(d) /\ OutMeansOut(d)
    BY DEF SessionInv, OneByOneUnlessOverlap, OneByOne
  <2>2. "out" \in fate[d] => SessionsOf(d) = {}
    BY <2>1 DEF OutMeansOut, SessionsOf, LiveOn
  <2>3. SessionsOf(d) = {} \/ \E t \in Tokens : SessionsOf(d) = {t}
    BY <2>1 DEF OneLive, SessionsOf, LiveOn
  <2>4. Cardinality(SessionsOf(d)) <= 1
    BY <2>3, FS_EmptySet, FS_Singleton
  <2> QED
    BY <2>2, <2>4
<1> QED
  BY <1>1, SessionInvariant, PTL

\* A device that has signed in keeps a live session, unless it is logged out, its
\* session expires, or a refresh fails half-way or overlaps.
THEOREM SignedInStaysSignedIn == SessionSpec => []DeviceStaysSignedIn
<1>1. SessionInv => DeviceStaysSignedIn
  BY DEF SessionInv, StaysOn, DeviceStaysSignedIn, Refreshing, Refresher, SessionsOf, LiveOn
<1> QED
  BY <1>1, SessionInvariant, PTL

-----------------------------------------------------------------------------
(* Part 2.  Agencies, clients, stores and roles.                              *)

\* A request carries what its write needs.
StewardsSound ==
  \A u \in Stewards : LET e == steward[u] IN
    /\ e.op \in {"client", "store", "role", "dropFirm"} => e.firm \in Firms
    /\ e.op \in {"client", "dropClient"} => e.client \in Clients
    /\ e.op \in {"store", "dropStore"} => e.store \in Stores
    /\ e.op = "role" => e.role \in Roles

\* The id of a client or a store that is being created is free, and promised once.
Promised ==
  \A u \in Stewards :
    /\ steward[u].op = "client" =>
         /\ client[steward[u].client].state = "none"
         /\ \A v \in Stewards \ {u} : steward[v].op = "client" => steward[v].client # steward[u].client
    /\ steward[u].op = "store" =>
         /\ store[steward[u].store].state = "none"
         /\ \A v \in Stewards \ {u} : steward[v].op = "store" => steward[v].store # steward[u].store

\* What a request is to delete was there when it was looked up.
DroppedWasThere ==
  \A u \in Stewards :
    /\ steward[u].op = "dropClient" => client[steward[u].client].state # "none"
    /\ steward[u].op = "dropStore" => store[steward[u].store].state # "none"

\* What a request has checked still holds unless something was deleted since.
ChecksHold ==
  \A u \in Stewards : LET e == steward[u] IN ~e.stale =>
    /\ e.op \in {"client", "store"} => super \/ LiveFirm(e.firm)
    /\ e.op = "role" => LiveFirm(e.firm)
    /\ e.op = "store" /\ e.client # NULL => LiveClient(e.client) /\ client[e.client].firm = e.firm

StoreStands(s) ==
  /\ LiveFirm(store[s].firm)
  /\ store[s].client # NULL => LiveClient(store[s].client) /\ client[store[s].client].firm = store[s].firm
Standing ==
  /\ \A s \in Stores : LiveStore(s) => StoreStands(s)
  /\ \A c \in Clients : LiveClient(c) => LiveFirm(client[c].firm)
  /\ \A k \in Firms \X Roles : grant[k].state = "live" => LiveFirm(k[1])

TenantInv == TenantTypeOK /\ StewardsSound /\ Promised /\ DroppedWasThere /\ (rifts = {} => ChecksHold /\ Standing)

-----------------------------------------------------------------------------
LEMMA TenantInitEstablishesInv == TenantInit => TenantInv
<1> SUFFICES ASSUME TenantInit PROVE TenantInv
  OBVIOUS
<1>1. /\ Resting \in Steward /\ Resting.op = "none"
      /\ [state |-> "none", firm |-> NULL] \in Client
      /\ [state |-> "none", firm |-> NULL, client |-> NULL] \in Store
      /\ [state |-> "none", client |-> NULL, store |-> NULL] \in Grant
  BY DEF Resting, Steward, Client, Store, Grant, State
<1>2. /\ firm \in [Firms -> State] /\ client \in [Clients -> Client] /\ store \in [Stores -> Store]
      /\ grant \in [Firms \X Roles -> Grant] /\ steward \in [Stewards -> Steward]
      /\ tenantCalls \in 0..MaxTenantCalls /\ rifts = {} /\ super \in BOOLEAN /\ staffed = {}
  BY <1>1, TenantAssumption DEF TenantInit, State
<1>3. TenantTypeOK
  BY <1>2 DEF TenantTypeOK
<1>4. StewardsSound /\ Promised /\ DroppedWasThere /\ ChecksHold
  BY <1>1 DEF TenantInit, StewardsSound, Promised, DroppedWasThere, ChecksHold
<1>5. Standing
  BY DEF TenantInit, Standing, LiveStore, LiveClient
<1> QED
  BY <1>3, <1>4, <1>5 DEF TenantInv

\* Requests are entered and over.
LEMMA EnterEffect ==
  ASSUME TenantTypeOK, NEW u \in Stewards, NEW request \in Steward, Enter(u, request)
  PROVE  /\ TenantTypeOK' /\ steward'[u] = request /\ \A v \in Stewards \ {u} : steward'[v] = steward[v]
         /\ UNCHANGED <<firm, client, store, grant, staffed, super, rifts>>
<1>1. /\ steward' \in [Stewards -> Steward] /\ steward'[u] = request
      /\ \A v \in Stewards \ {u} : steward'[v] = steward[v]
  BY DEF TenantTypeOK, Enter
<1>2. tenantCalls' \in 0..MaxTenantCalls
  BY TenantAssumption DEF TenantTypeOK, Enter
<1> QED
  BY <1>1, <1>2 DEF TenantTypeOK, Enter

SeenKept(v) ==
  /\ steward'[v].op = steward[v].op /\ steward'[v].firm = steward[v].firm
  /\ steward'[v].client = steward[v].client /\ steward'[v].store = steward[v].store
  /\ steward'[v].role = steward[v].role

LEMMA LeavesEffect ==
  ASSUME TenantTypeOK, NEW u \in Stewards, NEW deleted \in BOOLEAN, Leaves(u, deleted)
  PROVE  /\ steward' \in [Stewards -> Steward] /\ steward'[u].op = "none"
         /\ \A v \in Stewards \ {u} : SeenKept(v)
         /\ \A v \in Stewards \ {u} : steward'[v].stale <=> steward[v].stale \/ (deleted /\ steward[v].op # "none")
         /\ UNCHANGED <<super, tenantCalls>>
<1>1. Resting \in Steward /\ Resting.op = "none"
  BY DEF Resting, Steward
<1>2. ASSUME NEW v \in Stewards \ {u}
      PROVE  /\ steward'[v] = [steward[v] EXCEPT !.stale = steward[v].stale \/ (deleted /\ steward[v].op # "none")]
             /\ steward[v] \in Steward
  BY DEF Leaves, TenantTypeOK
<1>3. ASSUME NEW v \in Stewards \ {u}, NEW b \in BOOLEAN, steward'[v] = [steward[v] EXCEPT !.stale = b]
      PROVE  steward'[v] \in Steward /\ SeenKept(v) /\ (steward'[v].stale <=> b)
  BY <1>2, <1>3 DEF Steward, SeenKept
<1>4. ASSUME NEW v \in Stewards \ {u}
      PROVE  (steward[v].stale \/ (deleted /\ steward[v].op # "none")) \in BOOLEAN
  OBVIOUS
<1>5. ASSUME NEW v \in Stewards \ {u}
      PROVE  /\ steward'[v] \in Steward /\ SeenKept(v)
             /\ steward'[v].stale <=> steward[v].stale \/ (deleted /\ steward[v].op # "none")
  BY <1>2, <1>3, <1>4, Zenon
<1>6. steward'[u] = Resting
  BY DEF Leaves
<1>7. steward' = [v \in Stewards |-> steward'[v]]
  BY DEF Leaves
<1>8. steward' \in [Stewards -> Steward]
  BY <1>1, <1>5, <1>6, <1>7
<1> QED
  BY <1>1, <1>5, <1>6, <1>8 DEF Leaves

\* Nobody but the agency's live roles, or super_admin, lets a request in.
LEMMA ManagedIsLive ==
  ASSUME Standing, NEW a \in Firms, MayManage(a), ~super
  PROVE  LiveFirm(a)
<1>1. PICK r \in Roles : grant[<<a, r>>].state = "live"
  BY DEF MayManage, Held
<1> QED
  BY <1>1 DEF Standing

LEMMA EnterKeepsInv ==
  ASSUME NEW u \in Stewards, NEW request \in Steward, TenantInv, Enter(u, request),
         request.op \in {"client", "store", "role", "dropFirm"} => request.firm \in Firms,
         request.op \in {"client", "dropClient"} => request.client \in Clients,
         request.op \in {"store", "dropStore"} => request.store \in Stores,
         request.op = "role" => request.role \in Roles,
         request.op = "client" => client[request.client].state = "none" /\ Fresh(request.client),
         request.op = "store" => store[request.store].state = "none" /\ Fresh(request.store),
         request.op \in {"client", "store"} => MayManage(request.firm),
         request.op = "role" => LiveFirm(request.firm),
         request.op = "store" /\ request.client # NULL =>
           LiveClient(request.client) /\ client[request.client].firm = request.firm,
         request.op = "dropClient" => client[request.client].state # "none",
         request.op = "dropStore" => store[request.store].state # "none"
  PROVE  TenantInv'
<1>1. /\ TenantTypeOK' /\ steward'[u] = request /\ \A v \in Stewards \ {u} : steward'[v] = steward[v]
      /\ UNCHANGED <<firm, client, store, grant, staffed, super, rifts>>
  BY EnterEffect DEF TenantInv
<1>2. StewardsSound'
  BY <1>1 DEF TenantInv, StewardsSound
<1>3. Promised' /\ DroppedWasThere'
  BY <1>1 DEF TenantInv, Promised, DroppedWasThere, Fresh
<1>4. ASSUME rifts' = {}
      PROVE  ChecksHold' /\ Standing'
  <2>1. Standing /\ ChecksHold /\ rifts = {}
    BY <1>1, <1>4 DEF TenantInv
  <2>2. Standing'
    BY <1>1, <2>1 DEF Standing, LiveStore, LiveClient, LiveFirm, StoreStands
  <2>3. request.op \in {"client", "store"} => super \/ LiveFirm(request.firm)
    BY <2>1, ManagedIsLive
  <2>4. ChecksHold'
    BY <1>1, <2>1, <2>3 DEF ChecksHold, LiveClient, LiveFirm
  <2> QED
    BY <2>2, <2>4
<1> QED
  BY <1>1, <1>2, <1>3, <1>4 DEF TenantInv

\* Requests: what they have checked as they are entered.
LEMMA EnterClientKeepsInv ==
  ASSUME NEW u \in Stewards, NEW a \in Firms, NEW c \in Clients, TenantInv, EnterClient(u, c, a)
  PROVE  TenantInv'
<1> DEFINE request == [Resting EXCEPT !.op = "client", !.firm = a, !.client = c]
<1>1. /\ request \in Steward /\ request.op = "client" /\ request.firm = a /\ request.client = c
  BY DEF Resting, Steward
<1>2. Enter(u, request)
  BY DEF EnterClient
<1>3. client[c].state = "none" /\ Fresh(c) /\ MayManage(a)
  BY DEF EnterClient
<1> HIDE DEF request
<1> QED
  BY <1>1, <1>2, <1>3, EnterKeepsInv

LEMMA EnterStoreKeepsInv ==
  ASSUME NEW u \in Stewards, NEW a \in Firms, NEW c \in Clients \cup {NULL}, NEW s \in Stores,
         TenantInv, EnterStore(u, s, c, a)
  PROVE  TenantInv'
<1> DEFINE request == [Resting EXCEPT !.op = "store", !.firm = a, !.client = c, !.store = s]
<1>1. /\ request \in Steward /\ request.op = "store" /\ request.firm = a /\ request.client = c /\ request.store = s
  BY DEF Resting, Steward
<1>2. Enter(u, request)
  BY DEF EnterStore
<1>3. /\ store[s].state = "none" /\ Fresh(s) /\ MayManage(a)
      /\ c # NULL => LiveClient(c) /\ client[c].firm = a
  BY DEF EnterStore
<1> HIDE DEF request
<1> QED
  BY <1>1, <1>2, <1>3, EnterKeepsInv

LEMMA EnterRoleKeepsInv ==
  ASSUME NEW u \in Stewards, NEW a \in Firms, NEW r \in Roles, NEW c \in Clients \cup {NULL},
         NEW s \in Stores \cup {NULL}, TenantInv, EnterRole(u, r, a, c, s)
  PROVE  TenantInv'
<1> DEFINE request == [Resting EXCEPT !.op = "role", !.firm = a, !.client = c, !.store = s, !.role = r]
<1>1. /\ request \in Steward /\ request.op = "role" /\ request.firm = a /\ request.role = r
  BY DEF Resting, Steward
<1>2. Enter(u, request) /\ LiveFirm(a)
  BY DEF EnterRole
<1> HIDE DEF request
<1> QED
  BY <1>1, <1>2, EnterKeepsInv

LEMMA EnterDropKeepsInv ==
  ASSUME NEW u \in Stewards, NEW request \in Drops, TenantInv, EnterDrop(u, request)
  PROVE  TenantInv'
<1>1. CASE \E a \in Firms : request = [Resting EXCEPT !.op = "dropFirm", !.firm = a]
  <2>1. request \in Steward /\ request.op = "dropFirm" /\ request.firm \in Firms
    BY <1>1 DEF Resting, Steward
  <2> QED
    BY <2>1, EnterKeepsInv DEF EnterDrop, LiveClient, LiveStore
<1>2. CASE \E c \in Clients : request = [Resting EXCEPT !.op = "dropClient", !.client = c]
  <2>1. request \in Steward /\ request.op = "dropClient" /\ request.client \in Clients
    BY <1>2 DEF Resting, Steward
  <2> QED
    BY <2>1, EnterKeepsInv DEF EnterDrop, LiveClient, LiveStore
<1>3. CASE \E s \in Stores : request = [Resting EXCEPT !.op = "dropStore", !.store = s]
  <2>1. request \in Steward /\ request.op = "dropStore" /\ request.store \in Stores
    BY <1>3 DEF Resting, Steward
  <2> QED
    BY <2>1, EnterKeepsInv DEF EnterDrop, LiveClient, LiveStore
<1> QED
  BY <1>1, <1>2, <1>3 DEF Drops

\* Writes: what is promised comes true, and the checks of the others hold on.
LEMMA SaveClientKeepsInv ==
  ASSUME NEW u \in Stewards, TenantInv, SaveClient(u)
  PROVE  TenantInv'
<1> DEFINE c == steward[u].client
           a == steward[u].firm
<1>1. /\ steward[u].op = "client" /\ c \in Clients /\ a \in Firms /\ client[c].state = "none"
      /\ rifts' = rifts \cup Rift(u) /\ UNCHANGED <<firm, store, grant, staffed>> /\ Leaves(u, FALSE)
      /\ client' = [client EXCEPT ![c] = [state |-> "live", firm |-> a]]
  BY DEF SaveClient, TenantInv, StewardsSound, Promised
<1>2. /\ steward' \in [Stewards -> Steward] /\ steward'[u].op = "none"
      /\ \A v \in Stewards \ {u} : SeenKept(v) /\ (steward'[v].stale <=> steward[v].stale)
      /\ UNCHANGED <<super, tenantCalls>>
  BY <1>1, LeavesEffect DEF TenantInv
<1>3. /\ client' \in [Clients -> Client] /\ client'[c].state = "live" /\ client'[c].firm = a
      /\ \A x \in Clients \ {c} : client'[x] = client[x]
  BY <1>1 DEF TenantInv, TenantTypeOK, Client, State
<1> HIDE DEF c, a
<1>4. TenantTypeOK'
  BY <1>1, <1>2, <1>3 DEF TenantInv, TenantTypeOK, Rift
<1>5. StewardsSound'
  BY <1>2 DEF TenantInv, StewardsSound, SeenKept
<1>6. Promised' /\ DroppedWasThere'
  BY <1>1, <1>2, <1>3 DEF TenantInv, Promised, DroppedWasThere, StewardsSound, SeenKept, c
<1>7. ASSUME rifts' = {}
      PROVE  ChecksHold' /\ Standing'
  <2>1. rifts = {} /\ Standing /\ ChecksHold /\ ~super /\ LiveFirm(a)
    BY <1>1, <1>7 DEF TenantInv, Rift, ChecksHold, a
  <2>2. \A x \in Clients : LiveClient(x) => x # c
    BY <1>1 DEF LiveClient
  <2>3. ChecksHold'
    BY <1>1, <1>2, <1>3, <2>1, <2>2 DEF ChecksHold, SeenKept, LiveClient, LiveFirm
  <2>4. \A x \in Clients : LiveClient(x)' => LiveFirm(client[x].firm)'
    BY <1>1, <1>3, <2>1 DEF Standing, LiveClient, LiveFirm
  <2>5. \A s \in Stores : LiveStore(s)' => StoreStands(s)'
    BY <1>1, <1>3, <2>1, <2>2 DEF Standing, StoreStands, LiveStore, LiveClient, LiveFirm
  <2> QED
    BY <1>1, <2>1, <2>3, <2>4, <2>5 DEF Standing, LiveFirm
<1> QED
  BY <1>4, <1>5, <1>6, <1>7 DEF TenantInv

LEMMA SaveStoreKeepsInv ==
  ASSUME NEW u \in Stewards, TenantInv, SaveStore(u)
  PROVE  TenantInv'
<1> DEFINE s == steward[u].store
           c == steward[u].client
           a == steward[u].firm
<1>1. /\ steward[u].op = "store" /\ s \in Stores /\ c \in Clients \cup {NULL} /\ a \in Firms
      /\ store[s].state = "none"
      /\ rifts' = rifts \cup Rift(u) /\ UNCHANGED <<firm, client, grant, staffed>> /\ Leaves(u, FALSE)
      /\ store' = [store EXCEPT ![s] = [state |-> "live", firm |-> a, client |-> c]]
  BY DEF SaveStore, TenantInv, StewardsSound, Promised, TenantTypeOK, Steward
<1>2. /\ steward' \in [Stewards -> Steward] /\ steward'[u].op = "none"
      /\ \A v \in Stewards \ {u} : SeenKept(v) /\ (steward'[v].stale <=> steward[v].stale)
      /\ UNCHANGED <<super, tenantCalls>>
  BY <1>1, LeavesEffect DEF TenantInv
<1>3. /\ store' \in [Stores -> Store] /\ store'[s] = [state |-> "live", firm |-> a, client |-> c]
      /\ \A x \in Stores \ {s} : store'[x] = store[x]
  BY <1>1 DEF TenantInv, TenantTypeOK, Store, State
<1> HIDE DEF s, c, a
<1>4. TenantTypeOK'
  BY <1>1, <1>2, <1>3 DEF TenantInv, TenantTypeOK, Rift
<1>5. StewardsSound'
  BY <1>2 DEF TenantInv, StewardsSound, SeenKept
<1>6. Promised' /\ DroppedWasThere'
  BY <1>1, <1>2, <1>3 DEF TenantInv, Promised, DroppedWasThere, StewardsSound, SeenKept, s
<1>7. ASSUME rifts' = {}
      PROVE  ChecksHold' /\ Standing'
  <2>1. /\ rifts = {} /\ Standing /\ ChecksHold /\ ~super /\ LiveFirm(a)
        /\ c # NULL => LiveClient(c) /\ client[c].firm = a
    BY <1>1, <1>7 DEF TenantInv, Rift, ChecksHold, a, c
  <2>2. ChecksHold'
    BY <1>1, <1>2, <2>1 DEF ChecksHold, SeenKept, LiveClient, LiveFirm
  <2>3. ASSUME NEW x \in Stores, LiveStore(x)'
        PROVE  StoreStands(x)'
    BY <1>1, <1>3, <2>1, <2>3 DEF Standing, StoreStands, LiveStore, LiveClient, LiveFirm
  <2> QED
    BY <1>1, <2>1, <2>2, <2>3 DEF Standing, LiveFirm, LiveClient
<1> QED
  BY <1>4, <1>5, <1>6, <1>7 DEF TenantInv

LEMMA SaveRoleKeepsInv ==
  ASSUME NEW u \in Stewards, TenantInv, SaveRole(u)
  PROVE  TenantInv'
<1> DEFINE e == steward[u]
<1>1. /\ e.op = "role" /\ e \in Steward /\ e.firm \in Firms /\ e.role \in Roles
      /\ rifts' = rifts \cup (Rift(u) \ {"super"}) /\ UNCHANGED <<firm, client, store, staffed>> /\ Leaves(u, FALSE)
      /\ grant' = [grant EXCEPT ![<<e.firm, e.role>>] = [state |-> "live", client |-> e.client, store |-> e.store]]
  BY DEF SaveRole, TenantInv, StewardsSound, TenantTypeOK
<1>2. /\ steward' \in [Stewards -> Steward] /\ steward'[u].op = "none"
      /\ \A v \in Stewards \ {u} : SeenKept(v) /\ (steward'[v].stale <=> steward[v].stale)
      /\ UNCHANGED <<super, tenantCalls>>
  BY <1>1, LeavesEffect DEF TenantInv
<1>3. [state |-> "live", client |-> e.client, store |-> e.store] \in Grant
  BY <1>1 DEF Grant, State, Steward
<1>4. grant' \in [Firms \X Roles -> Grant] /\ \A k \in Firms \X Roles : k # <<e.firm, e.role>> => grant'[k] = grant[k]
  BY <1>1, <1>3 DEF TenantInv, TenantTypeOK
<1>5. TenantTypeOK'
  BY <1>1, <1>2, <1>4 DEF TenantInv, TenantTypeOK, Rift
<1>6. StewardsSound' /\ Promised' /\ DroppedWasThere'
  BY <1>1, <1>2 DEF TenantInv, StewardsSound, Promised, DroppedWasThere, SeenKept
<1>7. ASSUME rifts' = {}
      PROVE  ChecksHold' /\ Standing'
  <2>1. rifts = {} /\ Standing /\ ChecksHold /\ LiveFirm(e.firm)
    BY <1>1, <1>7 DEF TenantInv, Rift, ChecksHold
  <2>2. ChecksHold'
    BY <1>1, <1>2, <2>1 DEF ChecksHold, SeenKept, LiveClient, LiveFirm
  <2>3. ASSUME NEW k \in Firms \X Roles, grant'[k].state = "live"
        PROVE  LiveFirm(k[1])
    <3>1. CASE k = <<e.firm, e.role>>
      BY <2>1, <3>1
    <3>2. CASE k # <<e.firm, e.role>>
      BY <1>4, <2>1, <2>3, <3>2 DEF Standing
    <3> QED
      BY <3>1, <3>2
  <2> QED
    BY <1>1, <2>1, <2>2, <2>3 DEF Standing, StoreStands, LiveStore, LiveClient, LiveFirm
<1> QED
  BY <1>5, <1>6, <1>7 DEF TenantInv


\* Deletions: whatever the others have checked counts no more.
LEMMA DeletionKeepsInv ==
  ASSUME NEW u \in Stewards, TenantInv, Leaves(u, TRUE), UNCHANGED <<staffed, rifts>>,
         firm' \in [Firms -> State], client' \in [Clients -> Client],
         store' \in [Stores -> Store], grant' \in [Firms \X Roles -> Grant],
         \A c \in Clients : client[c].state = "none" <=> client'[c].state = "none",
         \A s \in Stores : store[s].state = "none" <=> store'[s].state = "none",
         Standing => Standing'
  PROVE  TenantInv'
<1>1. /\ steward' \in [Stewards -> Steward] /\ steward'[u].op = "none"
      /\ \A v \in Stewards \ {u} : SeenKept(v)
      /\ \A v \in Stewards \ {u} : steward'[v].stale <=> steward[v].stale \/ (TRUE /\ steward[v].op # "none")
      /\ UNCHANGED <<super, tenantCalls>>
  BY LeavesEffect DEF TenantInv
<1>2. TenantTypeOK'
  BY <1>1 DEF TenantInv, TenantTypeOK
<1>3. StewardsSound'
  BY <1>1 DEF TenantInv, StewardsSound, SeenKept
<1>4. Promised' /\ DroppedWasThere'
  <2>1. \A v \in Stewards : steward'[v].op # "none" => v # u /\ SeenKept(v)
    BY <1>1
  <2>2. DroppedWasThere'
    BY <2>1 DEF TenantInv, DroppedWasThere, StewardsSound, SeenKept
  <2>3. Promised'
    BY <2>1 DEF TenantInv, Promised, StewardsSound, SeenKept
  <2> QED
    BY <2>2, <2>3
<1>5. ChecksHold'
  BY <1>1 DEF ChecksHold, SeenKept
<1> QED
  BY <1>2, <1>3, <1>4, <1>5 DEF TenantInv

LEMMA DropFirmKeepsInv ==
  ASSUME NEW u \in Stewards, TenantInv, DropFirm(u)
  PROVE  TenantInv'
<1> DEFINE a == steward[u].firm
<1>1. a \in Firms /\ Leaves(u, TRUE) /\ UNCHANGED <<staffed, rifts>>
  BY DEF DropFirm, TenantInv, StewardsSound
<1>2. firm' \in [Firms -> State] /\ \A x \in Firms \ {a} : firm'[x] = firm[x]
  BY <1>1 DEF DropFirm, TenantInv, TenantTypeOK, State
<1>3. ASSUME NEW c \in Clients
      PROVE  /\ client'[c] \in Client /\ client'[c].firm = client[c].firm
             /\ client[c].state = "none" <=> client'[c].state = "none"
             /\ client'[c].state = "live" <=> client[c].state = "live" /\ client[c].firm # a
  BY DEF DropFirm, TenantInv, TenantTypeOK, Client, State, LiveClient
<1>4. ASSUME NEW s \in Stores
      PROVE  /\ store'[s] \in Store /\ store'[s].firm = store[s].firm /\ store'[s].client = store[s].client
             /\ store[s].state = "none" <=> store'[s].state = "none"
             /\ store'[s].state = "live" <=> store[s].state = "live" /\ store[s].firm # a
  BY DEF DropFirm, TenantInv, TenantTypeOK, Store, State, LiveStore
<1>5. ASSUME NEW k \in Firms \X Roles
      PROVE  /\ grant'[k] \in Grant
             /\ grant'[k].state = "live" <=> grant[k].state = "live" /\ k[1] # a
  BY DEF DropFirm, TenantInv, TenantTypeOK, Grant, State
<1>6. client' \in [Clients -> Client] /\ store' \in [Stores -> Store] /\ grant' \in [Firms \X Roles -> Grant]
  BY <1>3, <1>4, <1>5 DEF DropFirm
<1>7. ASSUME Standing
      PROVE  Standing'
  <2>1. ASSUME NEW s \in Stores, LiveStore(s)'
        PROVE  StoreStands(s)'
    BY <1>2, <1>3, <1>4, <1>7, <2>1 DEF Standing, StoreStands, LiveStore, LiveClient, LiveFirm
  <2>2. ASSUME NEW c \in Clients, LiveClient(c)'
        PROVE  LiveFirm(client[c].firm)'
    BY <1>2, <1>3, <1>7, <2>2 DEF Standing, LiveClient, LiveFirm
  <2>3. ASSUME NEW k \in Firms \X Roles, grant'[k].state = "live"
        PROVE  LiveFirm(k[1])'
    BY <1>2, <1>5, <1>7, <2>3 DEF Standing, LiveFirm
  <2> QED
    BY <2>1, <2>2, <2>3 DEF Standing
<1> QED
  BY <1>1, <1>2, <1>3, <1>4, <1>6, <1>7, DeletionKeepsInv

LEMMA DropClientKeepsInv ==
  ASSUME NEW u \in Stewards, TenantInv, DropClient(u)
  PROVE  TenantInv'
<1> DEFINE d == steward[u].client
<1>1. d \in Clients /\ Leaves(u, TRUE) /\ UNCHANGED <<firm, grant, staffed, rifts>>
  BY DEF DropClient, TenantInv, StewardsSound
<1>2. ASSUME NEW c \in Clients
      PROVE  /\ client'[c] \in Client /\ client'[c].firm = client[c].firm
             /\ c # d => (client[c].state = "none" <=> client'[c].state = "none")
             /\ client'[c].state = "live" <=> client[c].state = "live" /\ c # d
  BY <1>1 DEF DropClient, TenantInv, TenantTypeOK, Client, State
<1>3. ASSUME NEW s \in Stores
      PROVE  /\ store'[s] \in Store /\ store'[s].firm = store[s].firm /\ store'[s].client = store[s].client
             /\ store[s].state = "none" <=> store'[s].state = "none"
             /\ store'[s].state = "live" <=> store[s].state = "live" /\ store[s].client # d
  BY DEF DropClient, TenantInv, TenantTypeOK, Store, State, LiveStore
<1>4. client[d].state # "none" /\ client'[d].state # "none"
  BY <1>1 DEF DropClient, TenantInv, TenantTypeOK, DroppedWasThere
<1>5. client' \in [Clients -> Client] /\ store' \in [Stores -> Store]
  BY <1>1, <1>2, <1>3 DEF DropClient, TenantInv, TenantTypeOK
<1>6. ASSUME Standing
      PROVE  Standing'
  <2>1. ASSUME NEW s \in Stores, LiveStore(s)'
        PROVE  StoreStands(s)'
    BY <1>1, <1>2, <1>3, <1>6, <2>1 DEF Standing, StoreStands, LiveStore, LiveClient, LiveFirm
  <2>2. ASSUME NEW c \in Clients, LiveClient(c)'
        PROVE  LiveFirm(client[c].firm)'
    BY <1>1, <1>2, <1>6, <2>2 DEF Standing, LiveClient, LiveFirm
  <2> QED
    BY <1>1, <1>6, <2>1, <2>2 DEF Standing, LiveFirm
<1> QED
  BY <1>1, <1>2, <1>3, <1>4, <1>5, <1>6, DeletionKeepsInv DEF TenantInv, TenantTypeOK

LEMMA DropStoreKeepsInv ==
  ASSUME NEW u \in Stewards, TenantInv, DropStore(u)
  PROVE  TenantInv'
<1> DEFINE d == steward[u].store
<1>1. d \in Stores /\ Leaves(u, TRUE) /\ UNCHANGED <<firm, client, grant, staffed, rifts>>
  BY DEF DropStore, TenantInv, StewardsSound
<1>2. ASSUME NEW s \in Stores
      PROVE  /\ store'[s] \in Store /\ store'[s].firm = store[s].firm /\ store'[s].client = store[s].client
             /\ s # d => (store[s].state = "none" <=> store'[s].state = "none")
             /\ store'[s].state = "live" => store[s].state = "live"
  BY <1>1 DEF DropStore, TenantInv, TenantTypeOK, Store, State
<1>3. store[d].state # "none" /\ store'[d].state # "none"
  BY <1>1 DEF DropStore, TenantInv, TenantTypeOK, DroppedWasThere
<1>4. store' \in [Stores -> Store]
  BY <1>1, <1>2 DEF DropStore, TenantInv, TenantTypeOK
<1>5. ASSUME Standing
      PROVE  Standing'
  BY <1>1, <1>2, <1>5 DEF Standing, StoreStands, LiveStore, LiveClient, LiveFirm
<1> QED
  BY <1>1, <1>2, <1>3, <1>4, <1>5, DeletionKeepsInv DEF TenantInv, TenantTypeOK

LEMMA GivesUpKeepsInv ==
  ASSUME NEW u \in Stewards, TenantInv, GivesUp(u)
  PROVE  TenantInv'
<1>1. /\ steward' \in [Stewards -> Steward] /\ steward'[u].op = "none"
      /\ \A v \in Stewards \ {u} : SeenKept(v) /\ (steward'[v].stale <=> steward[v].stale)
      /\ UNCHANGED <<super, tenantCalls>> /\ UNCHANGED <<firm, client, store, grant, staffed, rifts>>
  BY LeavesEffect DEF GivesUp, TenantInv
<1>2. TenantTypeOK' /\ StewardsSound' /\ Promised' /\ DroppedWasThere'
  BY <1>1 DEF TenantInv, TenantTypeOK, StewardsSound, Promised, DroppedWasThere, SeenKept
<1>3. ASSUME rifts = {}
      PROVE  ChecksHold' /\ Standing'
  BY <1>1, <1>3 DEF TenantInv, ChecksHold, SeenKept, Standing, StoreStands, LiveStore, LiveClient, LiveFirm
<1> QED
  BY <1>1, <1>2, <1>3 DEF TenantInv

\* Assignments say nothing of what is live.
LEMMA StaffKeepsInv ==
  ASSUME NEW u \in Stewards, TenantInv,
         (\E stores \in SUBSET Stores : ClearStaff(u, stores)) \/ \E s \in Stores : AddStaff(u, s)
  PROVE  TenantInv'
<1>1. /\ UNCHANGED <<firm, client, store, grant, super, rifts>>
      /\ staffed' \subseteq Stores /\ tenantCalls' \in 0..MaxTenantCalls
  <2>1. staffed \subseteq Stores /\ tenantCalls \in 0..MaxTenantCalls /\ MaxTenantCalls \in Nat
    BY TenantAssumption DEF TenantInv, TenantTypeOK
  <2>2. ASSUME NEW stores \in SUBSET Stores, ClearStaff(u, stores)
        PROVE  /\ UNCHANGED <<firm, client, store, grant, super, rifts>>
               /\ staffed' \subseteq Stores /\ tenantCalls' \in 0..MaxTenantCalls
    <3>1. tenantCalls < MaxTenantCalls /\ tenantCalls' = tenantCalls + 1 /\ staffed' = {}
      BY <2>2 DEF ClearStaff
    <3>2. tenantCalls' \in 0..MaxTenantCalls
      BY <2>1, <3>1
    <3> QED
      BY <2>2, <3>1, <3>2 DEF ClearStaff
  <2>3. ASSUME NEW s \in Stores, AddStaff(u, s)
        PROVE  /\ UNCHANGED <<firm, client, store, grant, super, rifts>>
               /\ staffed' \subseteq Stores /\ tenantCalls' \in 0..MaxTenantCalls
    BY <2>1, <2>3 DEF AddStaff
  <2> QED
    BY <2>2, <2>3
<1>2. \A v \in Stewards \ {u} : steward'[v] = steward[v]
  BY DEF ClearStaff, AddStaff, TenantInv, TenantTypeOK
<1>3. /\ steward' \in [Stewards -> Steward]
      /\ (SeenKept(u) /\ steward'[u].stale = steward[u].stale) \/ steward'[u].op = "staff"
  <2>1. CASE \E stores \in SUBSET Stores : ClearStaff(u, stores)
    <3>1. PICK stores \in SUBSET Stores : ClearStaff(u, stores)
      BY <2>1
    <3>2. [Resting EXCEPT !.op = "staff", !.stores = stores] \in Steward
      BY DEF Resting, Steward
    <3> QED
      BY <3>1, <3>2 DEF ClearStaff, TenantInv, TenantTypeOK, Resting
  <2>2. CASE \E s \in Stores : AddStaff(u, s)
    BY <2>2 DEF AddStaff, TenantInv, TenantTypeOK, Steward, SeenKept
  <2> QED
    BY <2>1, <2>2
<1>4. TenantTypeOK' /\ StewardsSound' /\ Promised' /\ DroppedWasThere'
  <2>1. TenantTypeOK'
    BY <1>1, <1>3 DEF TenantInv, TenantTypeOK
  <2>2. StewardsSound'
    BY <1>1, <1>2, <1>3 DEF TenantInv, StewardsSound, SeenKept
  <2>3. Promised' /\ DroppedWasThere'
    BY <1>1, <1>2, <1>3 DEF TenantInv, Promised, DroppedWasThere, SeenKept
  <2> QED
    BY <2>1, <2>2, <2>3
<1>5. ASSUME rifts = {}
      PROVE  ChecksHold' /\ Standing'
  <2>1. Standing'
    BY <1>1, <1>5 DEF TenantInv, Standing, StoreStands, LiveStore, LiveClient, LiveFirm
  <2>2. ChecksHold'
    BY <1>1, <1>2, <1>3, <1>5 DEF TenantInv, ChecksHold, SeenKept, LiveClient, LiveFirm
  <2> QED
    BY <2>1, <2>2
<1> QED
  BY <1>1, <1>4, <1>5 DEF TenantInv

LEMMA CreateFirmKeepsInv ==
  ASSUME NEW a \in Firms, NEW r \in Roles, TenantInv, CreateFirm(a, r)
  PROVE  TenantInv'
<1>1. /\ firm' \in [Firms -> State] /\ firm'[a] = "live" /\ \A x \in Firms \ {a} : firm'[x] = firm[x]
      /\ UNCHANGED <<client, store, staffed, super, steward, rifts>> /\ tenantCalls' \in 0..MaxTenantCalls
  BY TenantAssumption DEF CreateFirm, TenantInv, TenantTypeOK, State
<1>2. [state |-> "live", client |-> NULL, store |-> NULL] \in Grant
  BY DEF Grant, State
<1>3. grant' \in [Firms \X Roles -> Grant] /\ \A k \in Firms \X Roles : k # <<a, r>> => grant'[k] = grant[k]
  BY <1>2 DEF CreateFirm, TenantInv, TenantTypeOK
<1>4. TenantTypeOK' /\ StewardsSound' /\ Promised' /\ DroppedWasThere'
  BY <1>1, <1>3 DEF TenantInv, TenantTypeOK, StewardsSound, Promised, DroppedWasThere
<1>5. \A x : LiveFirm(x) => LiveFirm(x)'
  BY <1>1 DEF LiveFirm
<1>6. ASSUME rifts = {}
      PROVE  ChecksHold' /\ Standing'
  <2>1. Standing /\ ChecksHold
    BY <1>6 DEF TenantInv
  <2>2. ChecksHold'
    BY <1>1, <1>5, <2>1 DEF ChecksHold, LiveClient
  <2>3. ASSUME NEW k \in Firms \X Roles, grant'[k].state = "live"
        PROVE  LiveFirm(k[1])'
    <3>1. CASE k = <<a, r>>
      BY <1>1, <3>1 DEF LiveFirm
    <3>2. CASE k # <<a, r>>
      BY <1>3, <1>5, <2>1, <2>3, <3>2 DEF Standing
    <3> QED
      BY <3>1, <3>2
  <2> QED
    BY <1>1, <1>5, <2>1, <2>2, <2>3 DEF Standing, StoreStands, LiveStore, LiveClient
<1> QED
  BY <1>1, <1>4, <1>6 DEF TenantInv

LEMMA RevokeRoleKeepsInv ==
  ASSUME NEW a \in Firms, NEW r \in Roles, TenantInv, RevokeRole(a, r)
  PROVE  TenantInv'
<1>1. UNCHANGED <<firm, client, store, staffed, super, steward, rifts>> /\ tenantCalls' \in 0..MaxTenantCalls
  BY TenantAssumption DEF RevokeRole, TenantInv, TenantTypeOK
<1>2. ASSUME NEW k \in Firms \X Roles
      PROVE  grant'[k] \in Grant /\ (grant'[k].state = "live" => grant[k].state = "live")
  BY DEF RevokeRole, TenantInv, TenantTypeOK, Grant, State
<1>3. grant' \in [Firms \X Roles -> Grant]
  BY <1>2 DEF RevokeRole, TenantInv, TenantTypeOK
<1>4. TenantTypeOK' /\ StewardsSound' /\ Promised' /\ DroppedWasThere'
  BY <1>1, <1>3 DEF TenantInv, TenantTypeOK, StewardsSound, Promised, DroppedWasThere
<1>5. ASSUME rifts = {}
      PROVE  ChecksHold' /\ Standing'
  BY <1>1, <1>2, <1>5 DEF TenantInv, ChecksHold, Standing, StoreStands, LiveStore, LiveClient, LiveFirm
<1> QED
  BY <1>1, <1>4, <1>5 DEF TenantInv

LEMMA TenantNextKeepsInv == TenantInv /\ [TenantNext]_tenantVars => TenantInv'
<1> SUFFICES ASSUME TenantInv, [TenantNext]_tenantVars
             PROVE  TenantInv'
  OBVIOUS
<1>1. ASSUME NEW u \in Stewards, NEW a \in Firms, NEW c \in Clients, EnterClient(u, c, a)
      PROVE  TenantInv'
  BY <1>1, EnterClientKeepsInv
<1>2. ASSUME NEW u \in Stewards, NEW a \in Firms, NEW c \in Clients \cup {NULL}, NEW s \in Stores,
             EnterStore(u, s, c, a)
      PROVE  TenantInv'
  BY <1>2, EnterStoreKeepsInv
<1>3. ASSUME NEW u \in Stewards, NEW a \in Firms, NEW c \in Clients \cup {NULL}, NEW r \in Roles,
             NEW s \in Stores \cup {NULL}, EnterRole(u, r, a, c, s)
      PROVE  TenantInv'
  BY <1>3, EnterRoleKeepsInv
<1>4. ASSUME NEW u \in Stewards, NEW request \in Drops, EnterDrop(u, request)
      PROVE  TenantInv'
  BY <1>4, EnterDropKeepsInv
<1>5. ASSUME NEW u \in Stewards, SaveClient(u) \/ SaveStore(u) \/ SaveRole(u)
      PROVE  TenantInv'
  BY <1>5, SaveClientKeepsInv, SaveStoreKeepsInv, SaveRoleKeepsInv
<1>6. ASSUME NEW u \in Stewards, DropFirm(u) \/ DropClient(u) \/ DropStore(u) \/ GivesUp(u)
      PROVE  TenantInv'
  BY <1>6, DropFirmKeepsInv, DropClientKeepsInv, DropStoreKeepsInv, GivesUpKeepsInv
<1>7. ASSUME NEW a \in Firms, NEW r \in Roles, CreateFirm(a, r) \/ RevokeRole(a, r)
      PROVE  TenantInv'
  BY <1>7, CreateFirmKeepsInv, RevokeRoleKeepsInv
<1>9. ASSUME NEW u \in Stewards,
             (\E stores \in SUBSET Stores : ClearStaff(u, stores)) \/ \E s \in Stores : AddStaff(u, s)
      PROVE  TenantInv'
  BY <1>9, StaffKeepsInv
<1>8. CASE UNCHANGED tenantVars
  BY <1>8 DEF tenantVars, TenantInv, TenantTypeOK, StewardsSound, Promised, DroppedWasThere, ChecksHold, Standing,
              StoreStands, LiveStore, LiveClient, LiveFirm
<1> QED
  BY <1>1, <1>2, <1>3, <1>4, <1>5, <1>6, <1>7, <1>8, <1>9 DEF TenantNext

\* The inductive invariant: with no deletion in between, what a request has checked
\* holds when it writes.
THEOREM TenantInvariant == TenantSpec => []TenantInv
BY TenantInitEstablishesInv, TenantNextKeepsInv, PTL DEF TenantSpec

\* Every state is of the declared types, for every set of ids, roles and requests.
THEOREM TenantTypeCorrect == TenantSpec => []TenantTypeOK
<1>1. TenantInv => TenantTypeOK
  BY DEF TenantInv
<1> QED
  BY <1>1, TenantInvariant, PTL

\* delete() of an agency, client or store leaves nothing live below it, unless
\* something is created while it runs, or by super_admin.
THEOREM NothingLiveUnderDeleted == TenantSpec => []LiveUnderLive
<1>1. TenantInv => LiveUnderLive
  BY DEF TenantInv, Standing, StoreStands, LiveUnderLive
<1> QED
  BY <1>1, TenantInvariant, PTL

\* AuthService.switchTenant() and TenantMiddleware.use() read the roles of a user
\* alike, for every agency, client and store; a store assigned to the user is all
\* that the latter admits to beyond them.
THEOREM SwitchIsAdmitted == TenantSpec => []SwitchAgrees
<1>1. TenantInv => SwitchAgrees
  <2> SUFFICES ASSUME TenantInv, rifts = {}, ~super, NEW a \in Firms
               PROVE  /\ \A c \in Clients \cup {NULL}, s \in Stores \cup {NULL} :
                           Grants(a, c, s) => Admits(a, [firm |-> a, client |-> c, store |-> s])
                      /\ \A s \in Stores : LiveStore(s) =>
                           /\ Grants(a, NULL, s) => Admits(a, Resolved(s, NULL, NULL))
                           /\ Admits(a, Resolved(s, NULL, NULL)) => Grants(a, NULL, s) \/ s \in staffed
    BY DEF SwitchAgrees
  <2>1. Held(a) # {} => LiveFirm(a)
    <3>1. Standing /\ (Held(a) # {} => MayManage(a))
      BY DEF TenantInv, MayManage
    <3> QED
      BY <3>1, ManagedIsLive
  <2>2. ASSUME NEW c \in Clients \cup {NULL}, NEW s \in Stores \cup {NULL}, Grants(a, c, s)
        PROVE  Admits(a, [firm |-> a, client |-> c, store |-> s])
    <3>1. CASE s # NULL
      BY <2>2, <3>1 DEF Grants, Admits, StoreSpanned
    <3>2. CASE s = NULL /\ c # NULL
      <4>1. ~LiveStore(s)
        BY <3>2, TenantAssumption DEF LiveStore
      <4> QED
        BY <2>2, <3>2, <4>1 DEF Grants, Admits
    <3>3. CASE s = NULL /\ c = NULL
      BY <2>1, <2>2, <3>3 DEF Grants, Admits
    <3> QED
      BY <3>1, <3>2, <3>3
  <2>3. ASSUME NEW s \in Stores, LiveStore(s)
        PROVE  /\ Grants(a, NULL, s) => Admits(a, Resolved(s, NULL, NULL))
               /\ Admits(a, Resolved(s, NULL, NULL)) => Grants(a, NULL, s) \/ s \in staffed
    <3>1. s # NULL /\ Resolved(s, NULL, NULL).store = s
      BY <2>3, TenantAssumption DEF Resolved
    <3>2. Admits(a, Resolved(s, NULL, NULL)) <=> store[s].firm = a /\ (s \in staffed \/ StoreSpanned(s))
      BY <2>3, <3>1 DEF Admits
    <3>3. Grants(a, NULL, s) <=>
            store[s].firm = a /\ \E g \in Held(a) :
              \/ g.client = NULL /\ g.store = NULL
              \/ store[s].client # NULL /\ g.client = store[s].client /\ g.store = NULL
              \/ g.store = s
      BY <2>3, <3>1 DEF Grants
    <3> QED
      BY <3>2, <3>3 DEF StoreSpanned
  <2> QED
    BY <2>2, <2>3
<1> QED
  BY <1>1, TenantInvariant, PTL

=============================================================================
