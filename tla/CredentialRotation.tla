-------------------------- MODULE CredentialRotation --------------------------
(***************************************************************************)
(* The stored credentials of one OAuth integration: a refresh token, which  *)
(* the marketplace replaces with each exchange, and the application keys it *)
(* was issued for.  Sync runs, connection tests and category look-ups each  *)
(* build a connector from the stored credentials; what a connector rotated  *)
(* is merged back when the run is over.  Sellers edit the credentials.      *)
(***************************************************************************)
EXTENDS Integers

CONSTANTS
  Runners,        \* concurrent runs and requests (a bound)
  MaxIssues,      \* tokens the marketplace may issue (a bound)
  MaxVaultCalls,  \* runs and requests in all (a bound)
  MASK, KEEPS     \* a masked value; a value the request does not carry

ASSUME IssueAssumption == MaxIssues \in Nat /\ MaxVaultCalls \in Nat
ASSUME MaskAssumption  == MASK # KEEPS /\ MASK \notin Nat /\ KEEPS \notin Nat

VARIABLES
  vault,       \* the stored credentials
  keysInUse,   \* the application keys the seller last stored
  issuedFor,   \* issuedFor[n]: the application keys token n was issued for
  newest,      \* the number of tokens issued
  spent,       \* tokens exchanged: they stop working about a minute later
  runner,      \* runner[u]: a run and its connector, or an edit
  vaultCalls,  \* runs and requests begun
  mishaps      \* history: what has gone wrong since the seller stored a token

vaultVars == <<vault, keysInUse, issuedFor, newest, spent, runner, vaultCalls, mishaps>>

-----------------------------------------------------------------------------
(* Types *)

TokenNos == 0..MaxIssues
KeyNos   == 0..MaxVaultCalls
Vault    == [token : TokenNos \cup {MASK}, keys : KeyNos \cup {MASK}]
Works    == {"none", "run", "test", "look", "edit"}

\* seen: the credentials read; inUse: the connector's token; rotated: what it
\* reports, or the token an edit carries; keys: the keys an edit carries.
Runner == [stage : {"idle", "calling", "collect", "persist", "save"}, work : Works,
           seen : Vault, inUse : TokenNos \cup {MASK}, rotated : TokenNos \cup {MASK, KEEPS},
           keys : KeyNos \cup {MASK, KEEPS}]

\* lost: a rotation was not stored; overwritten: an edit wrote back a token that
\* had been replaced; crossed: the seller stored keys or a token during a run;
\* halved: the seller stored keys without a token issued for them.
Mishaps == {"lost", "overwritten", "crossed", "halved"}

RotationTypeOK ==
  /\ vault \in Vault
  /\ keysInUse \in KeyNos
  /\ issuedFor \in [TokenNos -> KeyNos]
  /\ newest \in TokenNos
  /\ spent \subseteq TokenNos
  /\ runner \in [Runners -> Runner]
  /\ vaultCalls \in 0..MaxVaultCalls
  /\ mishaps \subseteq Mishaps

FirstVault == [token |-> 0, keys |-> 0]
AtRest == [stage |-> "idle", work |-> "none", seen |-> FirstVault, inUse |-> 0,
           rotated |-> KEEPS, keys |-> KEEPS]

Resume(u, stage) == runner' = [runner EXCEPT ![u].stage = stage]
Retire(u)        == runner' = [runner EXCEPT ![u] = AtRest]
Busy(u)          == runner[u].stage # "idle"

\* Mutant: the patch replaces the application keys, also when it has none.
Overwrite(stored, token, keys) ==
  [token |-> IF token = KEEPS THEN stored.token ELSE token, keys |-> keys]

\* The patch over what is stored: a value that the patch lacks stays.
Merge(stored, token, keys) ==
  [token |-> IF token = KEEPS THEN stored.token ELSE token,
   keys  |-> IF keys = KEEPS THEN stored.keys ELSE keys]

\* A value that came back masked carries nothing.
Unmasked(v) == IF v = MASK THEN KEEPS ELSE v

-----------------------------------------------------------------------------
(* Runs *)

\* A run reads the stored credentials and builds a connector.
Connect(u, work) ==
  /\ ~Busy(u) /\ vaultCalls < MaxVaultCalls /\ vaultCalls' = vaultCalls + 1
  /\ runner' = [runner EXCEPT ![u] = [AtRest EXCEPT
       !.stage = "calling", !.work = work, !.seen = vault, !.inUse = vault.token]]
  /\ UNCHANGED <<vault, keysInUse, issuedFor, newest, spent, mishaps>>

\* The marketplace may take a token with the keys it belongs to, a spent one for
\* another minute, and issues the next.
Issue(token, keys) ==
  /\ token \in TokenNos /\ issuedFor[token] = keys /\ newest < MaxIssues
  /\ newest' = newest + 1
  /\ issuedFor' = [issuedFor EXCEPT ![newest + 1] = keys]
  /\ spent' = spent \cup {token}

\* Mutant: only the first replacement is recorded.
RecordFirst(u) ==
  /\ runner[u].stage = "calling"
  /\ Issue(runner[u].inUse, runner[u].seen.keys)
  /\ runner' = [runner EXCEPT ![u].inUse = newest + 1,
                             ![u].rotated = IF @ = KEEPS THEN newest + 1 ELSE @]
  /\ UNCHANGED <<vault, keysInUse, vaultCalls, mishaps>>

\* The connector has no access token, or an expired one: it exchanges the
\* latest refresh token it knows and records the replacement.
Exchange(u) ==
  /\ runner[u].stage = "calling"
  /\ Issue(runner[u].inUse, runner[u].seen.keys)
  /\ runner' = [runner EXCEPT ![u] = [@ EXCEPT !.inUse = newest + 1, !.rotated = newest + 1]]
  /\ UNCHANGED <<vault, keysInUse, vaultCalls, mishaps>>

\* The answer is lost; the HTTP client repeats the request with the same token.
\* The connector knows nothing of the replacement.
AnswerLost(u) ==
  /\ runner[u].stage = "calling"
  /\ Issue(runner[u].inUse, runner[u].seen.keys)
  /\ mishaps' = mishaps \cup {"lost"}
  /\ UNCHANGED <<vault, keysInUse, runner, vaultCalls>>

\* The calls are over.  A connection test reports a failed call and goes on.
EndCalls(u) ==
  /\ runner[u].stage = "calling" /\ runner[u].work \in {"run", "test"}
  /\ Resume(u, "collect")
  /\ UNCHANGED <<vault, keysInUse, issuedFor, newest, spent, vaultCalls, mishaps>>

\* A run ends without storing what the connector rotated: a look-up never
\* collects it, a sync that throws does not come to it, the process may stop and
\* the query may fail, which is swallowed.  A failed edit changes nothing.
GiveUp(u) ==
  /\ Busy(u)
  /\ mishaps' = mishaps \cup
       (IF runner[u].work # "edit" /\ runner[u].rotated # KEEPS THEN {"lost"} ELSE {})
  /\ Retire(u)
  /\ UNCHANGED <<vault, keysInUse, issuedFor, newest, spent, vaultCalls>>

\* The run collects the rotation, if any, and reads the stored credentials again.
Collect(u) ==
  /\ runner[u].stage = "collect"
  /\ IF runner[u].rotated = KEEPS THEN Retire(u)
     ELSE runner' = [runner EXCEPT ![u] = [@ EXCEPT !.stage = "persist", !.seen = vault]]
  /\ UNCHANGED <<vault, keysInUse, issuedFor, newest, spent, vaultCalls, mishaps>>

Persist(u) ==
  /\ runner[u].stage = "persist"
  /\ vault' = Merge(runner[u].seen, runner[u].rotated, KEEPS)
  /\ Retire(u)
  /\ UNCHANGED <<keysInUse, issuedFor, newest, spent, vaultCalls, mishaps>>

-----------------------------------------------------------------------------
(* Edits *)

\* update() reads the integration.  The request carries no new token: it has no
\* credentials, masked ones, or other keys beside a token that is masked.
OpenEdit(u, token, keys) ==
  /\ ~Busy(u) /\ vaultCalls < MaxVaultCalls /\ vaultCalls' = vaultCalls + 1
  /\ runner' = [runner EXCEPT ![u] = [AtRest EXCEPT
       !.stage = "save", !.work = "edit", !.seen = vault, !.rotated = token, !.keys = keys]]
  /\ UNCHANGED <<vault, keysInUse, issuedFor, newest, spent, mishaps>>

\* The seller authorised an application and pastes the token it was given; the
\* keys that are sent are its own, or masked when it is the stored application.
PasteToken(u, keys, sent) ==
  /\ sent = keys \/ (sent = MASK /\ keys = vault.keys)
  /\ ~Busy(u) /\ vaultCalls < MaxVaultCalls /\ vaultCalls' = vaultCalls + 1
  /\ newest < MaxIssues /\ newest' = newest + 1
  /\ issuedFor' = [issuedFor EXCEPT ![newest + 1] = keys]
  /\ runner' = [runner EXCEPT ![u] = [AtRest EXCEPT
       !.stage = "save", !.work = "edit", !.seen = vault, !.rotated = newest + 1, !.keys = sent]]
  /\ UNCHANGED <<vault, keysInUse, spent, mishaps>>

\* What is forgiven of the past once a request has stored what it carries.
Remaining(token, keys) ==
  IF token = KEEPS THEN mishaps ELSE IF keys = KEEPS THEN mishaps \cap {"crossed"} ELSE {}

\* The credentials are always written, those read when the request has none.
SaveEdit(u) ==
  LET token  == Unmasked(runner[u].rotated)
      keys   == Unmasked(runner[u].keys)
      others == \E v \in Runners \ {u} : Busy(v)
      stale  == token = KEEPS /\ runner[u].seen.token # vault.token
      fresh  == token # KEEPS \/ keys # KEEPS
  IN
  /\ runner[u].stage = "save"
  /\ vault' = Merge(runner[u].seen, token, keys)
  /\ keysInUse' = IF keys = KEEPS THEN keysInUse ELSE keys
  /\ mishaps' = Remaining(token, keys)
                  \cup (IF stale THEN {"overwritten"} ELSE {})
                  \cup (IF fresh /\ others THEN {"crossed"} ELSE {})
                  \cup (IF fresh /\ token = KEEPS THEN {"halved"} ELSE {})
  /\ Retire(u)
  /\ UNCHANGED <<issuedFor, newest, spent, vaultCalls>>

RotationInit ==
  /\ vault = FirstVault
  /\ keysInUse = 0
  /\ issuedFor = [n \in TokenNos |-> 0]
  /\ newest = 0
  /\ spent = {}
  /\ runner = [u \in Runners |-> AtRest]
  /\ vaultCalls = 0
  /\ mishaps = {}

RotationNext ==
  \E u \in Runners :
       \/ \E work \in {"run", "test", "look"} : Connect(u, work)
       \/ \E v \in {MASK, KEEPS} : \E keys \in {v, vaultCalls + 1} : OpenEdit(u, v, keys)
       \/ \E keys \in {keysInUse, vault.keys, vaultCalls + 1} :
            \E sent \in {keys, MASK} : PasteToken(u, keys, sent)
       \/ Exchange(u) \/ AnswerLost(u) \/ EndCalls(u) \/ GiveUp(u)
       \/ Collect(u) \/ Persist(u) \/ SaveEdit(u)

RotationSpec == RotationInit /\ [][RotationNext]_vaultVars

-----------------------------------------------------------------------------
(* Properties *)

\* A connector that has rotated the token has not stored it yet.
Unstored == \E u \in Runners : runner[u].work # "edit" /\ runner[u].rotated # KEEPS

\* persistRotatedCredentials() and update() leave a token that the marketplace
\* will take for the stored keys, though every run replaces it: unless a rotation
\* was lost, an edit wrote back what it had read, the seller stored credentials in
\* a run, or keys alone.
StoredTokenWorks ==
  mishaps = {} /\ ~Unstored =>
    vault.token \in TokenNos \ spent /\ issuedFor[vault.token] = vault.keys

\* Storing a rotation or saving an edit without application keys, or with masked
\* ones, leaves the keys the seller stored last, unless that was during a run.
SellerKeysKept == "crossed" \notin mishaps => vault.keys = keysInUse

=============================================================================
