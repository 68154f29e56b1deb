----------------------------- MODULE ConnectorProofs -----------------------------
(***************************************************************************)
(* What one connection keeps beside its synchronisation: the stored         *)
(* credentials whose marketplace replaces the refresh token with each       *)
(* exchange, the pace of the calls, the walk through the marketplace's list *)
(* of orders, and the settings form.  For every number of runs, requests,   *)
(* calls and orders, every limit and page size, and every request.          *)
(***************************************************************************)
EXTENDS CredentialRotation, RateLimiter, OrderFeed, SettingsForm, FiniteSetTheorems, SequenceTheorems,
        WellFoundedInduction, TLAPS

\* A run or request e fits its stage; it knows none but the n tokens issued.
Fits(e, n) ==
  /\ e.stage = "idle" => e.work = "none" /\ e.rotated = KEEPS /\ e.inUse = 0
  /\ e.stage = "save" <=> e.work = "edit"
  /\ e.stage = "persist" => e.rotated # KEEPS
  /\ e.work = "edit" => e.inUse = 0
  /\ e.work # "edit" => e.rotated \in {KEEPS, e.inUse}
  /\ e.seen.token \in 0..n /\ e.seen.keys \in KeyNos /\ e.inUse \in 0..n
  /\ e.rotated \in (1..n) \cup {MASK, KEEPS}

Issued ==
  /\ vault.token \in 0..newest /\ vault.keys \in KeyNos
  /\ spent \subseteq 0..newest
  /\ \A u \in Runners : Fits(runner[u], newest)

\* The application keys that an edit e stores.
KeysOf(e) == IF Unmasked(e.keys) = KEEPS THEN e.seen.keys ELSE e.keys

\* A token that u carries has not been stored, and nobody else knows it.
Private(u) ==
  runner[u].rotated \in Nat =>
    /\ vault.token # runner[u].rotated
    /\ \A v \in Runners : runner[v].seen.token # runner[u].rotated
    /\ \A v \in Runners \ {u} :
         runner[v].inUse # runner[u].rotated /\ runner[v].rotated # runner[u].rotated
    /\ runner[u].work = "edit" =>
         runner[u].rotated \notin spent /\ issuedFor[runner[u].rotated] = KeysOf(runner[u])

\* Nobody has read other application keys than the seller stored last.
KeysRead == "crossed" \notin mishaps => \A u \in Runners : Busy(u) => runner[u].seen.keys = keysInUse

\* The tokens of the runs belong to the keys they have read; a spent token stays
\* in the vault only while a run carries its replacement.
TokensFit ==
  mishaps = {} =>
    /\ issuedFor[vault.token] = vault.keys
    /\ vault.token \in spent => Unstored
    /\ \A u \in Runners :
         Busy(u) /\ runner[u].work # "edit" =>
           /\ issuedFor[runner[u].inUse] = runner[u].seen.keys
           /\ runner[u].rotated # KEEPS => runner[u].rotated \notin spent

RotationInv ==
  /\ RotationTypeOK /\ Issued /\ (\A u \in Runners : Private(u))
  /\ SellerKeysKept /\ KeysRead /\ TokensFit

-----------------------------------------------------------------------------
LEMMA AtRestFields ==
  /\ AtRest \in Runner /\ AtRest.stage = "idle" /\ AtRest.work = "none" /\ AtRest.seen = FirstVault
  /\ AtRest.inUse = 0 /\ AtRest.rotated = KEEPS /\ AtRest.keys = KEEPS
  /\ FirstVault \in Vault /\ FirstVault.token = 0 /\ FirstVault.keys = 0
<1>1. 0 \in TokenNos /\ 0 \in KeyNos
  BY IssueAssumption DEF TokenNos, KeyNos
<1>2. FirstVault \in Vault /\ FirstVault.token = 0 /\ FirstVault.keys = 0
  BY <1>1 DEF FirstVault, Vault
<1>3. AtRest \in Runner
  BY <1>1, <1>2 DEF AtRest, Runner, Works
<1> QED
  BY <1>2, <1>3 DEF AtRest

LEMMA AtRestFits == newest \in Nat => Fits(AtRest, newest)
<1>1. 0 \in KeyNos
  BY IssueAssumption DEF KeyNos
<1> QED
  BY <1>1, AtRestFields DEF Fits

LEMMA RotationInitEstablishesInv == RotationInit => RotationInv
<1> SUFFICES ASSUME RotationInit PROVE RotationInv
  OBVIOUS
<1>1. newest = 0 /\ spent = {} /\ mishaps = {} /\ vault = FirstVault /\ keysInUse = 0 /\ vaultCalls = 0
      /\ \A u \in Runners : runner[u] = AtRest
  BY DEF RotationInit
<1>2. 0 \in TokenNos /\ 0 \in KeyNos /\ 0 \in 0..0
  BY IssueAssumption DEF TokenNos, KeyNos
<1>3. RotationTypeOK
  BY <1>2, AtRestFields, IssueAssumption DEF RotationInit, RotationTypeOK, TokenNos, KeyNos
<1>4. Issued
  BY <1>1, <1>2, AtRestFields DEF Issued, Fits
<1>5. (\A u \in Runners : Private(u)) /\ SellerKeysKept /\ KeysRead
  BY <1>1, AtRestFields, MaskAssumption DEF Private, SellerKeysKept, KeysRead, Busy
<1>6. TokensFit
  BY <1>1, <1>2, AtRestFields DEF TokensFit, RotationInit, Busy
<1> QED
  BY <1>3, <1>4, <1>5, <1>6 DEF RotationInv

\* What follows from the invariant about one runner.
LEMMA RunnerFacts ==
  ASSUME NEW u \in Runners, RotationInv
  PROVE  /\ runner[u] \in Runner /\ Fits(runner[u], newest) /\ Private(u)
         /\ newest \in Nat /\ newest <= MaxIssues /\ MaxIssues \in Nat
         /\ runner[u].seen \in Vault /\ vault \in Vault
         /\ runner[u].seen.token \in TokenNos /\ vault.token \in TokenNos
         /\ spent \subseteq 0..newest /\ mishaps \subseteq Mishaps
<1>1. runner[u] \in Runner /\ Fits(runner[u], newest) /\ Private(u) /\ vault \in Vault /\ vault.token \in 0..newest
      /\ spent \subseteq 0..newest /\ newest \in 0..MaxIssues /\ mishaps \subseteq Mishaps
  BY DEF RotationInv, RotationTypeOK, Issued, TokenNos
<1>2. runner[u].seen \in Vault
  BY <1>1 DEF Runner
<1>3. runner[u].seen.token \in 0..newest
  BY <1>1 DEF Fits
<1> QED
  BY <1>1, <1>2, <1>3, IssueAssumption DEF TokenNos

LEMMA RunnerEffect ==
  ASSUME NEW u \in Runners, NEW f \in Runner, RotationTypeOK, runner' = [runner EXCEPT ![u] = f]
  PROVE  /\ runner' \in [Runners -> Runner] /\ runner'[u] = f
         /\ \A v \in Runners \ {u} : runner'[v] = runner[v]
BY DEF RotationTypeOK

\* A step of u that leaves the vault and the marketplace alone, and gives u
\* nothing to carry that it has not carried before.
LEMMA QuietStepKeepsInv ==
  ASSUME NEW u \in Runners, NEW f \in Runner, RotationInv, runner' = [runner EXCEPT ![u] = f],
         UNCHANGED <<vault, keysInUse, issuedFor, newest, spent>>, vaultCalls' \in 0..MaxVaultCalls,
         mishaps \subseteq mishaps', mishaps' \subseteq Mishaps, "crossed" \in mishaps' => "crossed" \in mishaps,
         Fits(f, newest),
         f.rotated = KEEPS \/ f.rotated = MASK \/ (f.rotated = runner[u].rotated /\ f.work = runner[u].work
                                                   /\ f.work # "edit"),
         f.inUse \in {0, vault.token, runner[u].inUse}, f.seen = vault \/ f.seen.token \in {0, runner[u].seen.token},
         f.stage # "idle" => f.seen.keys = vault.keys \/ (f.seen = runner[u].seen /\ Busy(u)),
         mishaps' = {} => /\ runner[u].work # "edit" /\ runner[u].rotated # KEEPS => f.rotated = runner[u].rotated
                          /\ f.stage # "idle" /\ f.work # "edit" =>
                               issuedFor[f.inUse] = f.seen.keys
                               /\ (f.rotated # KEEPS => runner[u].work # "edit" /\ Busy(u))
  PROVE  RotationInv'
<1>1. /\ runner' \in [Runners -> Runner] /\ runner'[u] = f
      /\ \A v \in Runners \ {u} : runner'[v] = runner[v]
  BY RunnerEffect DEF RotationInv
<1>2. RotationTypeOK'
  BY <1>1 DEF RotationInv, RotationTypeOK
<1>3. Issued'
  <2>1. \A v \in Runners : Fits(runner'[v], newest')
    BY <1>1 DEF RotationInv, Issued, Fits
  <2> QED
    BY <2>1 DEF RotationInv, Issued
<1>4. \A v \in Runners : Private(v)'
  <2> SUFFICES ASSUME NEW v \in Runners, runner'[v].rotated \in Nat
               PROVE  /\ vault.token # runner'[v].rotated
                      /\ \A w \in Runners : runner'[w].seen.token # runner'[v].rotated
                      /\ \A w \in Runners \ {v} :
                           runner'[w].inUse # runner'[v].rotated /\ runner'[w].rotated # runner'[v].rotated
                      /\ runner'[v].work = "edit" =>
                           runner'[v].rotated \notin spent /\ issuedFor[runner'[v].rotated] = KeysOf(runner'[v])
    BY DEF Private
  <2>1. /\ runner'[v].rotated = runner[v].rotated /\ runner'[v].work = runner[v].work
        /\ runner[v].work = "edit" => runner'[v] = runner[v]
        /\ runner[v].rotated \in Nat
    BY <1>1, MaskAssumption
  <2>2. Private(v) /\ Private(u) /\ Fits(runner[v], newest)
    BY DEF RotationInv, Issued
  <2>3. runner[v].rotated # 0
    BY <2>1, <2>2, MaskAssumption, IssueAssumption DEF Fits
  <2>4. vault.token # runner[v].rotated
    BY <2>1, <2>2 DEF Private
  <2>5. \A w \in Runners : runner'[w].seen.token # runner[v].rotated
    BY <1>1, <2>1, <2>2, <2>3, <2>4 DEF Private
  <2>6. \A w \in Runners \ {v} : runner'[w].inUse # runner[v].rotated
    BY <1>1, <2>1, <2>2, <2>3, <2>4 DEF Private
  <2>7. \A w \in Runners \ {v} : runner'[w].rotated # runner[v].rotated
    BY <1>1, <2>1, <2>2, MaskAssumption DEF Private
  <2> QED
    BY <2>1, <2>2, <2>4, <2>5, <2>6, <2>7 DEF Private
<1>5. SellerKeysKept' /\ KeysRead'
  BY <1>1 DEF RotationInv, SellerKeysKept, KeysRead, Busy
<1>6. TokensFit'
  <2> SUFFICES ASSUME mishaps' = {}
               PROVE  /\ issuedFor[vault.token] = vault.keys
                      /\ vault.token \in spent => Unstored'
                      /\ \A v \in Runners :
                           runner'[v].stage # "idle" /\ runner'[v].work # "edit" =>
                             /\ issuedFor[runner'[v].inUse] = runner'[v].seen.keys
                             /\ runner'[v].rotated # KEEPS => runner'[v].rotated \notin spent
    BY DEF TokensFit, Busy
  <2>1. mishaps = {} /\ TokensFit
    BY DEF RotationInv
  <2>2. vault.token \in spent => Unstored'
    <3> SUFFICES ASSUME vault.token \in spent PROVE Unstored'
      OBVIOUS
    <3>1. PICK v \in Runners : runner[v].work # "edit" /\ runner[v].rotated # KEEPS
      BY <2>1 DEF TokensFit, Unstored
    <3>2. CASE v # u
      BY <1>1, <3>1, <3>2 DEF Unstored
    <3>3. CASE v = u
      <4>1. f.rotated = runner[u].rotated
        BY <3>1, <3>3
      <4>2. f.rotated \notin {MASK, KEEPS}
        BY <3>1, <3>3, <4>1, MaskAssumption DEF RotationInv, Issued, Fits
      <4> QED
        BY <1>1, <3>1, <3>3, <4>1, <4>2 DEF Unstored
    <3> QED
      BY <3>2, <3>3
  <2>3. ASSUME NEW v \in Runners, runner'[v].stage # "idle", runner'[v].work # "edit"
        PROVE  /\ issuedFor[runner'[v].inUse] = runner'[v].seen.keys
               /\ runner'[v].rotated # KEEPS => runner'[v].rotated \notin spent
    <3>1. CASE v # u
      BY <1>1, <2>1, <2>3, <3>1 DEF TokensFit, Busy
    <3>2. CASE v = u
      <4>1. f.rotated = MASK => FALSE
        BY <1>1, <2>3, <3>2, MaskAssumption DEF Fits
      <4> QED
        BY <1>1, <2>1, <2>3, <3>2, <4>1 DEF TokensFit
    <3> QED
      BY <3>1, <3>2
  <2> QED
    BY <2>1, <2>2, <2>3 DEF TokensFit
<1> QED
  BY <1>2, <1>3, <1>4, <1>5, <1>6 DEF RotationInv

LEMMA ConnectKeepsInv ==
  ASSUME NEW u \in Runners, NEW work \in {"run", "test", "look"}, RotationInv, Connect(u, work)
  PROVE  RotationInv'
<1> DEFINE f == [AtRest EXCEPT !.stage = "calling", !.work = work, !.seen = vault, !.inUse = vault.token]
<1>1. /\ runner' = [runner EXCEPT ![u] = f] /\ vaultCalls < MaxVaultCalls /\ vaultCalls' = vaultCalls + 1
      /\ UNCHANGED <<vault, keysInUse, issuedFor, newest, spent, mishaps>> /\ runner[u].stage = "idle"
  BY DEF Connect, Busy
<1>2. vault \in Vault /\ vault.token \in 0..newest /\ vault.keys \in KeyNos /\ vaultCalls \in 0..MaxVaultCalls
      /\ vault.token \in TokenNos /\ mishaps \subseteq Mishaps
  BY RunnerFacts DEF RotationInv, RotationTypeOK, Issued
<1>3. /\ f \in Runner /\ f.stage = "calling" /\ f.work = work /\ f.seen = vault /\ f.inUse = vault.token
      /\ f.rotated = KEEPS /\ f.keys = KEEPS
  BY <1>2, AtRestFields DEF Runner, Works
<1> HIDE DEF f
<1>4. Fits(f, newest)
  BY <1>2, <1>3 DEF Fits
<1>5. vaultCalls' \in 0..MaxVaultCalls
  BY <1>1, <1>2, IssueAssumption
<1>6. runner[u].rotated = KEEPS
  BY <1>1 DEF RotationInv, Issued, Fits
<1>7. mishaps' = {} => issuedFor[f.inUse] = f.seen.keys
  BY <1>1, <1>3 DEF RotationInv, TokensFit
<1> QED
  BY <1>1, <1>2, <1>3, <1>4, <1>5, <1>6, <1>7, QuietStepKeepsInv

LEMMA OpenEditKeepsInv ==
  ASSUME NEW u \in Runners, NEW w \in {MASK, KEEPS}, NEW keys \in {w, vaultCalls + 1}, RotationInv,
         OpenEdit(u, w, keys)
  PROVE  RotationInv'
<1> DEFINE f == [AtRest EXCEPT !.stage = "save", !.work = "edit", !.seen = vault, !.rotated = w, !.keys = keys]
<1>1. /\ runner' = [runner EXCEPT ![u] = f] /\ vaultCalls < MaxVaultCalls /\ vaultCalls' = vaultCalls + 1
      /\ UNCHANGED <<vault, keysInUse, issuedFor, newest, spent, mishaps>> /\ runner[u].stage = "idle"
  BY DEF OpenEdit, Busy
<1>2. vault \in Vault /\ vault.token \in 0..newest /\ vault.keys \in KeyNos /\ vaultCalls \in 0..MaxVaultCalls
      /\ newest \in Nat /\ mishaps \subseteq Mishaps
  BY RunnerFacts DEF RotationInv, RotationTypeOK, Issued
<1>2b. keys \in KeyNos \cup {MASK, KEEPS}
  BY <1>1, <1>2, IssueAssumption DEF KeyNos
<1>3. /\ f \in Runner /\ f.stage = "save" /\ f.work = "edit" /\ f.seen = vault /\ f.inUse = 0
      /\ f.rotated = w /\ f.keys = keys
  BY <1>2, <1>2b, AtRestFields DEF Runner, Works
<1> HIDE DEF f
<1>4. Fits(f, newest)
  BY <1>2, <1>3 DEF Fits
<1>5. vaultCalls' \in 0..MaxVaultCalls
  BY <1>1, <1>2, IssueAssumption
<1>6. runner[u].rotated = KEEPS
  BY <1>1 DEF RotationInv, Issued, Fits
<1> QED
  BY <1>1, <1>2, <1>3, <1>4, <1>5, <1>6, QuietStepKeepsInv

LEMMA EndCallsKeepsInv ==
  ASSUME NEW u \in Runners, RotationInv, EndCalls(u)
  PROVE  RotationInv'
<1> DEFINE e == runner[u]
           f == [e EXCEPT !.stage = "collect"]
<1>1. /\ runner' = [runner EXCEPT ![u] = f] /\ e.stage = "calling" /\ e.work \in {"run", "test"}
      /\ UNCHANGED <<vault, keysInUse, issuedFor, newest, spent, vaultCalls, mishaps>>
  BY DEF EndCalls, Resume
<1>2. e \in Runner /\ Fits(e, newest) /\ vaultCalls \in 0..MaxVaultCalls /\ mishaps \subseteq Mishaps
  BY RunnerFacts DEF RotationInv, RotationTypeOK
<1>3. /\ f \in Runner /\ f.stage = "collect" /\ f.work = e.work /\ f.seen = e.seen /\ f.inUse = e.inUse
      /\ f.rotated = e.rotated /\ f.keys = e.keys
  BY <1>2 DEF Runner
<1> HIDE DEF f
<1>4. Fits(f, newest) /\ Busy(u)
  BY <1>1, <1>2, <1>3 DEF Fits, Busy
<1>5. mishaps' = {} => issuedFor[f.inUse] = f.seen.keys
  BY <1>1, <1>3, <1>4 DEF RotationInv, TokensFit
<1> QED
  BY <1>1, <1>2, <1>3, <1>4, <1>5, QuietStepKeepsInv

LEMMA GiveUpKeepsInv ==
  ASSUME NEW u \in Runners, RotationInv, GiveUp(u)
  PROVE  RotationInv'
<1>1. /\ runner' = [runner EXCEPT ![u] = AtRest]
      /\ mishaps' = mishaps \cup (IF runner[u].work # "edit" /\ runner[u].rotated # KEEPS THEN {"lost"} ELSE {})
      /\ UNCHANGED <<vault, keysInUse, issuedFor, newest, spent, vaultCalls>>
  BY DEF GiveUp, Retire
<1>2. vaultCalls \in 0..MaxVaultCalls /\ mishaps \subseteq Mishaps /\ newest \in Nat
  BY RunnerFacts DEF RotationInv, RotationTypeOK
<1>3. Fits(AtRest, newest)
  BY <1>2, AtRestFits
<1>4. /\ mishaps' \subseteq Mishaps /\ mishaps \subseteq mishaps'
      /\ "crossed" \in mishaps' => "crossed" \in mishaps
      /\ mishaps' = {} => runner[u].work = "edit" \/ runner[u].rotated = KEEPS
  BY <1>1, <1>2 DEF Mishaps
<1> QED
  BY <1>1, <1>2, <1>3, <1>4, AtRestFields, QuietStepKeepsInv

LEMMA CollectKeepsInv ==
  ASSUME NEW u \in Runners, RotationInv, Collect(u)
  PROVE  RotationInv'
<1> DEFINE e == runner[u]
           f == [e EXCEPT !.stage = "persist", !.seen = vault]
<1>1. /\ e.stage = "collect" /\ UNCHANGED <<vault, keysInUse, issuedFor, newest, spent, vaultCalls, mishaps>>
      /\ \/ e.rotated = KEEPS /\ runner' = [runner EXCEPT ![u] = AtRest]
         \/ e.rotated # KEEPS /\ runner' = [runner EXCEPT ![u] = [@ EXCEPT !.stage = "persist", !.seen = vault]]
  BY DEF Collect, Retire
<1>2. /\ e \in Runner /\ Fits(e, newest) /\ vaultCalls \in 0..MaxVaultCalls /\ mishaps \subseteq Mishaps
      /\ vault \in Vault /\ vault.token \in 0..newest /\ vault.keys \in KeyNos /\ newest \in Nat
  BY RunnerFacts DEF RotationInv, RotationTypeOK, Issued
<1>3. CASE e.rotated = KEEPS /\ runner' = [runner EXCEPT ![u] = AtRest]
  <2>1. Fits(AtRest, newest)
    BY <1>2, AtRestFits
  <2> QED
    BY <1>1, <1>2, <1>3, <2>1, AtRestFields, QuietStepKeepsInv
<1>4. CASE e.rotated # KEEPS /\ runner' = [runner EXCEPT ![u] = [@ EXCEPT !.stage = "persist", !.seen = vault]]
  <2>1. runner' = [runner EXCEPT ![u] = f]
    BY <1>4 DEF RotationInv, RotationTypeOK
  <2>2. /\ f \in Runner /\ f.stage = "persist" /\ f.work = e.work /\ f.seen = vault /\ f.inUse = e.inUse
        /\ f.rotated = e.rotated /\ f.keys = e.keys
    BY <1>2 DEF Runner
  <2> HIDE DEF f
  <2>3. Fits(f, newest) /\ Busy(u) /\ e.work # "edit"
    BY <1>1, <1>2, <1>4, <2>2 DEF Fits, Busy
  <2>4. mishaps' = {} => issuedFor[f.inUse] = f.seen.keys
    <3>1. mishaps = {} => issuedFor[e.inUse] = e.seen.keys
      BY <2>3 DEF RotationInv, TokensFit
    <3>2. mishaps = {} => e.seen.keys = keysInUse /\ vault.keys = keysInUse
      BY <2>3 DEF RotationInv, KeysRead, SellerKeysKept
    <3> QED
      BY <1>1, <2>2, <3>1, <3>2
  <2> QED
    BY <1>1, <1>2, <1>4, <2>1, <2>2, <2>3, <2>4, QuietStepKeepsInv
<1> QED
  BY <1>1, <1>3, <1>4

\* The next token is nobody's yet.
LEMMA Unknown ==
  ASSUME RotationInv, newest < MaxIssues
  PROVE  /\ newest + 1 \in TokenNos /\ newest + 1 \in Nat \ {0} /\ newest \in Nat
         /\ vault.token # newest + 1 /\ newest + 1 \notin spent
         /\ \A u \in Runners : /\ runner[u].seen.token # newest + 1 /\ runner[u].inUse # newest + 1
                               /\ runner[u].rotated # newest + 1
         /\ MASK # newest + 1 /\ KEEPS # newest + 1
<1>1. newest \in Nat /\ MaxIssues \in Nat
  BY IssueAssumption DEF RotationInv, RotationTypeOK, TokenNos
<1>2. MASK # newest + 1 /\ KEEPS # newest + 1
  BY <1>1, MaskAssumption
<1>3. ASSUME NEW u \in Runners
      PROVE  /\ runner[u].seen.token # newest + 1 /\ runner[u].inUse # newest + 1
             /\ runner[u].rotated # newest + 1
  <2>1. Fits(runner[u], newest)
    BY DEF RotationInv, Issued
  <2>2. runner[u].rotated \in (1..newest) \cup {MASK, KEEPS}
    BY <2>1 DEF Fits
  <2>3. runner[u].seen.token \in 0..newest /\ runner[u].inUse \in 0..newest
    BY <2>1 DEF Fits
  <2> QED
    BY <1>1, <1>2, <2>2, <2>3
<1> QED
  BY <1>1, <1>2, <1>3 DEF RotationInv, Issued, TokenNos

\* Once a token more is issued, what was known to be issued still is.
LEMMA StillFits ==
  ASSUME NEW e, NEW n \in Nat, Fits(e, n)
  PROVE  Fits(e, n + 1)
BY MaskAssumption DEF Fits

LEMMA PasteTokenKeepsInv ==
  ASSUME NEW u \in Runners, NEW keys \in KeyNos, NEW sent \in {keys, MASK}, RotationInv,
         PasteToken(u, keys, sent)
  PROVE  RotationInv'
<1> DEFINE t == newest + 1
           f == [AtRest EXCEPT !.stage = "save", !.work = "edit", !.seen = vault, !.rotated = newest + 1,
                              !.keys = sent]
<1>1. /\ sent = keys \/ (sent = MASK /\ keys = vault.keys)
      /\ runner' = [runner EXCEPT ![u] = f] /\ vaultCalls < MaxVaultCalls /\ vaultCalls' = vaultCalls + 1
      /\ newest < MaxIssues /\ newest' = t /\ issuedFor' = [issuedFor EXCEPT ![t] = keys]
      /\ UNCHANGED <<vault, keysInUse, spent, mishaps>> /\ runner[u].stage = "idle"
  BY DEF PasteToken, Busy
<1>2. /\ vault \in Vault /\ vault.token \in 0..newest /\ vault.keys \in KeyNos /\ vaultCalls \in 0..MaxVaultCalls
      /\ newest \in Nat /\ mishaps \subseteq Mishaps /\ vault.token \in TokenNos
      /\ issuedFor \in [TokenNos -> KeyNos] /\ spent \subseteq 0..newest
  BY RunnerFacts DEF RotationInv, RotationTypeOK, Issued
<1>3. /\ t \in TokenNos /\ t \in Nat \ {0} /\ vault.token # t /\ t \notin spent /\ MASK # t /\ KEEPS # t
      /\ \A v \in Runners : runner[v].seen.token # t /\ runner[v].inUse # t /\ runner[v].rotated # t
  BY <1>1, Unknown
<1>4. /\ f \in Runner /\ f.stage = "save" /\ f.work = "edit" /\ f.seen = vault /\ f.inUse = 0
      /\ f.rotated = t /\ f.keys = sent
  BY <1>2, <1>3, AtRestFields DEF Runner, Works
<1>4b. KeysOf(f) = keys
  BY <1>1, <1>4, MaskAssumption, IssueAssumption DEF KeysOf, Unmasked, KeyNos
<1>5. t \in 1..t /\ t = newest + 1
  BY <1>2
<1> HIDE DEF f, t
<1>6. /\ runner' \in [Runners -> Runner] /\ runner'[u] = f
      /\ \A v \in Runners \ {u} : runner'[v] = runner[v]
  BY <1>1, <1>4, RunnerEffect DEF RotationInv
<1>7. /\ issuedFor' \in [TokenNos -> KeyNos] /\ issuedFor'[t] = keys
      /\ \A n \in TokenNos : n # t => issuedFor'[n] = issuedFor[n]
  BY <1>1, <1>2, <1>3
<1>8. Issued'
  <2>1. Fits(f, newest')
    BY <1>1, <1>2, <1>3, <1>4, <1>5 DEF Fits
  <2>2. \A v \in Runners \ {u} : Fits(runner'[v], newest')
    <3>1. \A v \in Runners \ {u} : Fits(runner'[v], newest)
      BY <1>6 DEF RotationInv, Issued
    <3> QED
      BY <1>1, <1>2, <1>5, <3>1, StillFits
  <2>3. \A v \in Runners : Fits(runner'[v], newest')
    BY <1>6, <2>1, <2>2
  <2> QED
    BY <1>1, <1>2, <1>5, <2>3 DEF Issued
<1>9. ASSUME NEW v \in Runners
      PROVE  Private(v)'
  <2>1. CASE v = u
    BY <1>1, <1>3, <1>4, <1>4b, <1>6, <1>7, <2>1 DEF Private
  <2>2. CASE v # u
    <3>1. Private(v) /\ Fits(runner[v], newest) /\ runner[v] \in Runner
      BY RunnerFacts
    <3>2. runner[v].rotated \in Nat => runner[v].rotated \in TokenNos
      BY <3>1, MaskAssumption DEF Runner
    <3>3. runner[v].rotated \in Nat => runner[v].rotated # 0
      BY <3>1, MaskAssumption, <1>2 DEF Fits
    <3> QED
      BY <1>1, <1>3, <1>4, <1>6, <1>7, <2>2, <3>1, <3>2, <3>3 DEF Private
  <2> QED
    BY <2>1, <2>2
<1>10. SellerKeysKept' /\ KeysRead'
  BY <1>1, <1>4, <1>6 DEF RotationInv, SellerKeysKept, KeysRead, Busy
<1>11. TokensFit'
  <2>1. Unstored => Unstored'
    <3> SUFFICES ASSUME Unstored PROVE Unstored'
      OBVIOUS
    <3>1. PICK v \in Runners : runner[v].work # "edit" /\ runner[v].rotated # KEEPS
      BY DEF Unstored
    <3>2. v # u
      BY <1>1, <3>1 DEF RotationInv, Issued, Fits
    <3> QED
      BY <1>6, <3>1, <3>2 DEF Unstored
  <2>2. \A v \in Runners : runner[v].inUse \in TokenNos
    BY <1>1, <1>2, RunnerFacts, IssueAssumption DEF RotationInv, Issued, Fits, TokenNos
  <2> QED
    BY <1>1, <1>2, <1>3, <1>4, <1>6, <1>7, <2>1, <2>2 DEF RotationInv, TokensFit, Busy
<1>12. RotationTypeOK'
  <2>1. vaultCalls' \in 0..MaxVaultCalls
    BY <1>1, <1>2, IssueAssumption
  <2>2. spent' \subseteq TokenNos /\ newest' \in TokenNos /\ keysInUse' \in KeyNos /\ vault' \in Vault
    BY <1>1, <1>3 DEF RotationInv, RotationTypeOK
  <2> QED
    BY <1>1, <1>2, <1>6, <1>7, <2>1, <2>2 DEF RotationTypeOK
<1> QED
  BY <1>8, <1>9, <1>10, <1>11, <1>12 DEF RotationInv

\* The marketplace takes the token of a run, which learns of the next or does not.
LEMMA IssueKeepsInv ==
  ASSUME NEW u \in Runners, NEW f \in Runner, RotationInv, runner[u].stage = "calling",
         Issue(runner[u].inUse, runner[u].seen.keys), runner' = [runner EXCEPT ![u] = f],
         f.stage = "calling", f.work = runner[u].work, f.seen = runner[u].seen, f.keys = runner[u].keys,
         UNCHANGED <<vault, keysInUse, vaultCalls>>,
         \/ f.inUse = newest + 1 /\ f.rotated = newest + 1 /\ UNCHANGED mishaps
         \/ f = runner[u] /\ mishaps' = mishaps \cup {"lost"}
  PROVE  RotationInv'
<1> DEFINE t == newest + 1
           e == runner[u]
<1>1. /\ e.inUse \in TokenNos /\ newest < MaxIssues /\ newest' = t
      /\ issuedFor' = [issuedFor EXCEPT ![t] = e.seen.keys] /\ spent' = spent \cup {e.inUse}
  BY DEF Issue
<1>2. /\ vault.token \in 0..newest /\ newest \in Nat /\ mishaps \subseteq Mishaps /\ vault.token \in TokenNos
      /\ issuedFor \in [TokenNos -> KeyNos] /\ spent \subseteq 0..newest /\ spent \subseteq TokenNos
      /\ e \in Runner /\ Fits(e, newest) /\ e.seen.keys \in KeyNos /\ e.work # "edit" /\ e.inUse \in 0..newest
  BY RunnerFacts DEF RotationInv, RotationTypeOK, Issued, Fits
<1>3. /\ t \in TokenNos /\ t \in Nat \ {0} /\ vault.token # t /\ t \notin spent /\ MASK # t /\ KEEPS # t
      /\ \A v \in Runners : runner[v].seen.token # t /\ runner[v].inUse # t /\ runner[v].rotated # t
  BY <1>1, Unknown
<1>4. \/ f.inUse = t /\ f.rotated = t /\ UNCHANGED mishaps
      \/ f = e /\ mishaps' = mishaps \cup {"lost"}
  OBVIOUS
<1>5. t \in 1..t /\ t = newest + 1
  BY <1>2
<1>6. /\ runner' \in [Runners -> Runner] /\ runner'[u] = f
      /\ \A v \in Runners \ {u} : runner'[v] = runner[v]
  BY RunnerEffect DEF RotationInv
<1> HIDE DEF t, e
<1>7. /\ issuedFor' \in [TokenNos -> KeyNos] /\ issuedFor'[t] = e.seen.keys
      /\ \A n \in TokenNos : n # t => issuedFor'[n] = issuedFor[n]
  BY <1>1, <1>2, <1>3
<1>8. Issued'
  <2>1. Fits(e, newest')
    BY <1>1, <1>2, <1>5, StillFits
  <2>2. Fits(f, newest')
    <3>1. CASE f.inUse = t /\ f.rotated = t
      BY <1>1, <1>2, <1>3, <1>5, <2>1, <3>1 DEF Fits, e
    <3> QED
      BY <1>4, <2>1, <3>1
  <2>3. \A v \in Runners \ {u} : Fits(runner'[v], newest')
    <3>1. \A v \in Runners \ {u} : Fits(runner'[v], newest)
      BY <1>6 DEF RotationInv, Issued
    <3> QED
      BY <1>1, <1>2, <1>5, <3>1, StillFits
  <2>4. \A v \in Runners : Fits(runner'[v], newest')
    BY <1>6, <2>2, <2>3
  <2>5. spent' \subseteq 0..t /\ vault.token \in 0..t
    <3>1. \A n \in 0..newest : n \in 0..t
      BY <1>2, <1>5
    <3>2. spent' \subseteq 0..newest
      BY <1>1, <1>2
    <3> QED
      BY <1>2, <3>1, <3>2
  <2>6. vault' = vault /\ vault.keys \in KeyNos /\ newest' = t
    BY <1>1 DEF RotationInv, Issued
  <2> QED
    BY <2>4, <2>5, <2>6 DEF Issued
<1>9. ASSUME NEW v \in Runners
      PROVE  Private(v)'
  <2> DEFINE r == runner[v].rotated
  <2>1. Private(v) /\ Fits(runner[v], newest) /\ runner[v] \in Runner /\ Private(u)
    BY RunnerFacts
  <2>2. r \in Nat => r \in TokenNos /\ r # 0
    BY <1>2, <2>1, MaskAssumption DEF Runner, Fits
  <2>3. CASE v = u /\ f.rotated = t
    BY <1>1, <1>2, <1>3, <1>6, <2>3 DEF Private, e
  <2>4. CASE v = u /\ f = e
    BY <1>1, <1>2, <1>6, <2>1, <2>4 DEF Private, e
  <2>5. CASE v # u
    <3>1. r \in Nat => r # e.inUse /\ r # t /\ r # f.inUse /\ r # f.rotated
      BY <1>3, <1>4, <2>1, <2>5 DEF Private, e
    <3>2. \A w \in Runners : runner'[w].seen = runner[w].seen
      BY <1>6
    <3>3. r \in Nat => \A w \in Runners \ {v} : runner'[w].inUse # r /\ runner'[w].rotated # r
      BY <1>6, <2>1, <3>1 DEF Private
    <3>4. runner'[v] = runner[v]
      BY <1>6, <2>5
    <3>5. r \in Nat /\ runner[v].work = "edit" => r \notin spent' /\ issuedFor'[r] = KeysOf(runner[v])
      BY <1>1, <1>7, <2>1, <2>2, <3>1 DEF Private
    <3>6. r \in Nat => vault.token # r /\ \A w \in Runners : runner[w].seen.token # r
      BY <2>1 DEF Private
    <3> HIDE DEF r
    <3> QED
      BY <3>2, <3>3, <3>4, <3>5, <3>6, Zenon DEF Private, r
  <2> QED
    BY <1>4, <2>3, <2>4, <2>5
<1>10. SellerKeysKept' /\ KeysRead'
  BY <1>4, <1>6 DEF RotationInv, SellerKeysKept, KeysRead, Busy
<1>11. TokensFit'
  <2> SUFFICES ASSUME mishaps' = {}
               PROVE  /\ issuedFor'[vault.token] = vault.keys
                      /\ vault.token \in spent' => Unstored'
                      /\ \A v \in Runners :
                           runner'[v].stage # "idle" /\ runner'[v].work # "edit" =>
                             /\ issuedFor'[runner'[v].inUse] = runner'[v].seen.keys
                             /\ runner'[v].rotated # KEEPS => runner'[v].rotated \notin spent'
    BY DEF TokensFit, Busy
  <2>1. mishaps = {} /\ TokensFit /\ f.inUse = t /\ f.rotated = t
    BY <1>4 DEF RotationInv
  <2>2. issuedFor'[vault.token] = vault.keys
    BY <1>2, <1>3, <1>7, <2>1 DEF TokensFit
  <2>3. Unstored'
    BY <1>2, <1>3, <1>6, <2>1 DEF Unstored, e
  <2>4. ASSUME NEW v \in Runners, runner'[v].stage # "idle", runner'[v].work # "edit"
        PROVE  /\ issuedFor'[runner'[v].inUse] = runner'[v].seen.keys
               /\ runner'[v].rotated # KEEPS => runner'[v].rotated \notin spent'
    <3>1. CASE v = u
      <4>1. t \notin spent'
        BY <1>1, <1>3 DEF e
      <4> QED
        BY <1>6, <1>7, <2>1, <3>1, <4>1 DEF e
    <3>2. CASE v # u
      <4>1. /\ issuedFor[runner[v].inUse] = runner[v].seen.keys /\ runner'[v] = runner[v]
            /\ runner[v].rotated # KEEPS => runner[v].rotated \notin spent
        BY <1>6, <2>1, <2>4, <3>2 DEF TokensFit, Busy
      <4>2. runner[v].inUse \in TokenNos /\ runner[v].inUse # t
        BY <1>2, <1>3, RunnerFacts, IssueAssumption DEF Fits, TokenNos
      <4>3. runner[v].rotated # KEEPS => runner[v].rotated \in Nat
        BY <1>2, <2>4, <4>1, RunnerFacts DEF Fits
      <4>4. runner[v].rotated # KEEPS => runner[v].rotated # e.inUse
        BY <3>2, <4>3, RunnerFacts DEF Private, e
      <4> QED
        BY <1>1, <1>7, <4>1, <4>2, <4>4
    <3> QED
      BY <3>1, <3>2
  <2> QED
    BY <2>2, <2>3, <2>4
<1>12. RotationTypeOK'
  <2>1. spent' \subseteq TokenNos /\ mishaps' \subseteq Mishaps
    BY <1>1, <1>2, <1>4 DEF Mishaps
  <2> QED
    BY <1>1, <1>3, <1>6, <1>7, <2>1 DEF RotationInv, RotationTypeOK
<1> QED
  BY <1>8, <1>9, <1>10, <1>11, <1>12 DEF RotationInv

LEMMA ExchangesKeepInv ==
  ASSUME NEW u \in Runners, RotationInv, Exchange(u) \/ AnswerLost(u)
  PROVE  RotationInv'
<1>1. runner[u] \in Runner
  BY RunnerFacts
<1>2. CASE Exchange(u)
  <2> DEFINE f == [runner[u] EXCEPT !.inUse = newest + 1, !.rotated = newest + 1]
  <2>1. /\ runner[u].stage = "calling" /\ Issue(runner[u].inUse, runner[u].seen.keys)
        /\ runner' = [runner EXCEPT ![u] = f] /\ UNCHANGED <<vault, keysInUse, vaultCalls, mishaps>>
    BY <1>2 DEF Exchange
  <2>2. newest + 1 \in TokenNos
    BY <2>1, Unknown DEF Issue
  <2>3. /\ f \in Runner /\ f.stage = runner[u].stage /\ f.work = runner[u].work /\ f.seen = runner[u].seen
        /\ f.keys = runner[u].keys /\ f.inUse = newest + 1 /\ f.rotated = newest + 1
    BY <1>1, <2>2 DEF Runner
  <2> HIDE DEF f
  <2> QED
    BY <2>1, <2>3, IssueKeepsInv
<1>3. CASE AnswerLost(u)
  <2>1. /\ runner[u].stage = "calling" /\ Issue(runner[u].inUse, runner[u].seen.keys)
        /\ mishaps' = mishaps \cup {"lost"} /\ UNCHANGED <<vault, keysInUse, runner, vaultCalls>>
    BY <1>3 DEF AnswerLost
  <2>2. runner' = [runner EXCEPT ![u] = runner[u]]
    BY <2>1 DEF RotationInv, RotationTypeOK
  <2> QED
    BY <1>1, <2>1, <2>2, IssueKeepsInv
<1> QED
  BY <1>2, <1>3

\* u stores a vault and is done.  Its token is the one u carried, or one that had
\* been in the vault when u read it.
LEMMA StoreKeepsTokens ==
  ASSUME NEW u \in Runners, NEW t \in 0..newest, NEW k \in KeyNos, RotationInv, runner[u].stage # "idle",
         vault' = [token |-> t, keys |-> k], runner' = [runner EXCEPT ![u] = AtRest],
         keysInUse' \in KeyNos, mishaps' \subseteq Mishaps, UNCHANGED <<issuedFor, newest, spent, vaultCalls>>,
         t = runner[u].rotated \/ t = runner[u].seen.token
  PROVE  /\ RotationTypeOK' /\ Issued' /\ \A v \in Runners : Private(v)'
         /\ runner'[u] = AtRest /\ \A v \in Runners \ {u} : runner'[v] = runner[v]
<1>1. newest \in Nat /\ t \in TokenNos
  BY RunnerFacts, IssueAssumption DEF TokenNos
<1>2. /\ runner' \in [Runners -> Runner] /\ runner'[u] = AtRest
      /\ \A v \in Runners \ {u} : runner'[v] = runner[v]
  BY AtRestFields, RunnerEffect DEF RotationInv
<1>3. vault' \in Vault /\ vault'.token = t /\ vault'.keys = k
  BY <1>1 DEF Vault
<1>4. RotationTypeOK'
  BY <1>2, <1>3 DEF RotationInv, RotationTypeOK
<1>5. Issued'
  <2>1. Fits(AtRest, newest)
    BY <1>1, AtRestFits
  <2>2. \A v \in Runners : Fits(runner'[v], newest')
    BY <1>2, <2>1 DEF RotationInv, Issued
  <2> QED
    BY <1>3, <2>2 DEF RotationInv, Issued
<1>6. ASSUME NEW v \in Runners
      PROVE  Private(v)'
  <2>1. CASE v = u
    BY <1>2, <2>1, AtRestFields, MaskAssumption DEF Private
  <2>2. CASE v # u
    <3> DEFINE r == runner[v].rotated
    <3>1. Private(v) /\ Fits(runner[v], newest)
      BY RunnerFacts
    <3>2. r \in Nat => r # 0
      BY <3>1, MaskAssumption, <1>1 DEF Fits
    <3>3. r \in Nat => t # r
      BY <2>2, <3>1 DEF Private
    <3>4. r \in Nat => \A w \in Runners : runner'[w].seen.token # r
      BY <1>2, <3>1, <3>2, AtRestFields DEF Private
    <3>5. r \in Nat => \A w \in Runners \ {v} : runner'[w].inUse # r /\ runner'[w].rotated # r
      BY <1>2, <3>1, <3>2, AtRestFields, MaskAssumption DEF Private
    <3>6. r \in Nat /\ runner[v].work = "edit" => r \notin spent /\ issuedFor[r] = KeysOf(runner[v])
      BY <3>1 DEF Private
    <3>7. runner'[v] = runner[v] /\ vault'.token = t /\ spent' = spent /\ issuedFor' = issuedFor
      BY <1>2, <1>3, <2>2
    <3> HIDE DEF r
    <3> QED
      BY <3>3, <3>4, <3>5, <3>6, <3>7, Zenon DEF Private, r
  <2> QED
    BY <2>1, <2>2
<1> QED
  BY <1>2, <1>4, <1>5, <1>6

LEMMA PersistKeepsInv ==
  ASSUME NEW u \in Runners, RotationInv, Persist(u)
  PROVE  RotationInv'
<1> DEFINE e == runner[u]
<1>1. /\ e.stage = "persist" /\ vault' = Merge(e.seen, e.rotated, KEEPS)
      /\ runner' = [runner EXCEPT ![u] = AtRest]
      /\ UNCHANGED <<keysInUse, issuedFor, newest, spent, vaultCalls, mishaps>>
  BY DEF Persist, Retire
<1>2. /\ Fits(e, newest) /\ newest \in Nat /\ keysInUse \in KeyNos /\ mishaps \subseteq Mishaps
  BY RunnerFacts DEF RotationInv, RotationTypeOK
<1>3. /\ e.rotated # KEEPS /\ e.work # "edit" /\ e.rotated = e.inUse /\ e.inUse \in 0..newest
      /\ e.seen.keys \in KeyNos
  BY <1>1, <1>2 DEF Fits
<1>4. vault' = [token |-> e.rotated, keys |-> e.seen.keys]
  BY <1>1, <1>3 DEF Merge
<1>5. /\ RotationTypeOK' /\ Issued' /\ \A v \in Runners : Private(v)'
      /\ runner'[u] = AtRest /\ \A v \in Runners \ {u} : runner'[v] = runner[v]
  BY <1>1, <1>2, <1>3, <1>4, StoreKeepsTokens
<1>6. vault'.token = e.rotated /\ vault'.keys = e.seen.keys /\ Busy(u)
  BY <1>1, <1>4 DEF Busy
<1>7. SellerKeysKept' /\ KeysRead'
  BY <1>1, <1>5, <1>6, AtRestFields DEF RotationInv, SellerKeysKept, KeysRead, Busy
<1>8. TokensFit'
  <2> SUFFICES ASSUME mishaps' = {}
               PROVE  /\ issuedFor[vault'.token] = vault'.keys
                      /\ vault'.token \notin spent
                      /\ \A v \in Runners :
                           runner'[v].stage # "idle" /\ runner'[v].work # "edit" =>
                             /\ issuedFor[runner'[v].inUse] = runner'[v].seen.keys
                             /\ runner'[v].rotated # KEEPS => runner'[v].rotated \notin spent
    BY <1>1 DEF TokensFit, Busy
  <2> QED
    BY <1>1, <1>3, <1>5, <1>6, AtRestFields DEF RotationInv, TokensFit, Busy
<1> QED
  BY <1>5, <1>7, <1>8 DEF RotationInv

LEMMA SaveEditKeepsInv ==
  ASSUME NEW u \in Runners, RotationInv, SaveEdit(u)
  PROVE  RotationInv'
<1> DEFINE e == runner[u]
           token  == Unmasked(e.rotated)
           keys   == Unmasked(e.keys)
           others == \E v \in Runners \ {u} : Busy(v)
           stale  == token = KEEPS /\ e.seen.token # vault.token
           fresh  == token # KEEPS \/ keys # KEEPS
<1>1. /\ e.stage = "save" /\ vault' = Merge(e.seen, token, keys)
      /\ keysInUse' = (IF keys = KEEPS THEN keysInUse ELSE keys)
      /\ mishaps' = Remaining(token, keys) \cup (IF stale THEN {"overwritten"} ELSE {})
                      \cup (IF fresh /\ others THEN {"crossed"} ELSE {})
                      \cup (IF fresh /\ token = KEEPS THEN {"halved"} ELSE {})
      /\ runner' = [runner EXCEPT ![u] = AtRest]
      /\ UNCHANGED <<issuedFor, newest, spent, vaultCalls>>
  BY DEF SaveEdit, Retire
<1>2. /\ Fits(e, newest) /\ newest \in Nat /\ keysInUse \in KeyNos /\ mishaps \subseteq Mishaps /\ Private(u)
      /\ vault.token \in 0..newest /\ vault \in Vault
  BY RunnerFacts DEF RotationInv, RotationTypeOK, Issued
<1>3. /\ e.work = "edit" /\ e.seen.token \in 0..newest /\ e.seen.keys \in KeyNos /\ Busy(u)
      /\ e.rotated \in (1..newest) \cup {MASK, KEEPS}
  BY <1>1, <1>2 DEF Fits, Busy
<1>4. /\ token = KEEPS \/ (token = e.rotated /\ e.rotated \in Nat /\ token # KEEPS)
      /\ keys = KEEPS \/ (keys = e.keys /\ e.keys \in KeyNos /\ keys # KEEPS)
  <2>1. \A n \in TokenNos \cup KeyNos : n \in Nat /\ n # MASK /\ n # KEEPS
    BY MaskAssumption, IssueAssumption DEF TokenNos, KeyNos
  <2>2. e.rotated \in TokenNos \cup {MASK, KEEPS} /\ e.keys \in KeyNos \cup {MASK, KEEPS}
    BY RunnerFacts DEF Runner
  <2> QED
    BY <2>1, <2>2 DEF Unmasked
<1>4b. KeysOf(e) = IF keys = KEEPS THEN e.seen.keys ELSE keys
  BY <1>4 DEF KeysOf
<1> HIDE DEF token, keys, others, stale, fresh
\* A request without credentials puts back what it has read.
<1>5. CASE token = KEEPS /\ keys = KEEPS
  <2>1. vault' = [token |-> e.seen.token, keys |-> e.seen.keys]
    BY <1>1, <1>5 DEF Merge
  <2>2. keysInUse' = keysInUse /\ mishaps' \subseteq Mishaps /\ mishaps \subseteq mishaps'
        /\ ("crossed" \in mishaps' => "crossed" \in mishaps) /\ (mishaps' = {} => ~stale)
    BY <1>1, <1>2, <1>5 DEF Mishaps, Remaining, fresh
  <2>3. /\ RotationTypeOK' /\ Issued' /\ \A v \in Runners : Private(v)'
        /\ runner'[u] = AtRest /\ \A v \in Runners \ {u} : runner'[v] = runner[v]
    BY <1>1, <1>2, <1>3, <2>1, <2>2, StoreKeepsTokens
  <2>4. vault'.token = e.seen.token /\ vault'.keys = e.seen.keys
    BY <2>1
  <2>5. SellerKeysKept' /\ KeysRead'
    BY <1>3, <2>2, <2>3, <2>4, AtRestFields DEF RotationInv, SellerKeysKept, KeysRead, Busy
  <2>6. TokensFit'
    <3> SUFFICES ASSUME mishaps' = {}
                 PROVE  /\ issuedFor[vault'.token] = vault'.keys
                        /\ vault'.token \in spent => Unstored'
                        /\ \A v \in Runners :
                             runner'[v].stage # "idle" /\ runner'[v].work # "edit" =>
                               /\ issuedFor[runner'[v].inUse] = runner'[v].seen.keys
                               /\ runner'[v].rotated # KEEPS => runner'[v].rotated \notin spent
      BY <1>1 DEF TokensFit, Busy
    <3>1. mishaps = {} /\ vault'.token = vault.token
      BY <1>5, <2>2, <2>4 DEF stale
    <3>2. vault'.keys = vault.keys
      BY <1>3, <2>4, <3>1 DEF RotationInv, SellerKeysKept, KeysRead
    <3>3. Unstored => Unstored'
      BY <1>3, <2>3 DEF Unstored
    <3> QED
      BY <2>3, <3>1, <3>2, <3>3, AtRestFields DEF RotationInv, TokensFit, Busy
  <2> QED
    BY <2>3, <2>5, <2>6 DEF RotationInv
\* Keys stored without a token of theirs.
<1>6. CASE token = KEEPS /\ keys = e.keys /\ e.keys \in KeyNos /\ keys # KEEPS
  <2>1. vault' = [token |-> e.seen.token, keys |-> e.keys]
    BY <1>1, <1>6 DEF Merge
  <2>2. vault'.keys = e.keys
    BY <2>1
  <2>3. /\ keysInUse' = e.keys /\ mishaps' \subseteq Mishaps /\ "halved" \in mishaps'
        /\ "crossed" \notin mishaps' => ~others
    BY <1>1, <1>2, <1>6 DEF Mishaps, Remaining, fresh
  <2>4. /\ RotationTypeOK' /\ Issued' /\ \A v \in Runners : Private(v)'
        /\ runner'[u] = AtRest /\ \A v \in Runners \ {u} : runner'[v] = runner[v]
    BY <1>1, <1>3, <1>6, <2>1, <2>3, StoreKeepsTokens
  <2>5. "crossed" \notin mishaps' => \A v \in Runners : runner'[v].stage = "idle"
    BY <2>3, <2>4, AtRestFields DEF others, Busy
  <2>6. SellerKeysKept' /\ KeysRead' /\ TokensFit'
    BY <2>2, <2>3, <2>5 DEF SellerKeysKept, KeysRead, TokensFit, Busy
  <2> QED
    BY <2>4, <2>6 DEF RotationInv
\* A token pasted in while nothing else was under way starts afresh.
<1>7. CASE token = e.rotated /\ e.rotated \in Nat /\ token # KEEPS
  <2> DEFINE k == IF keys = KEEPS THEN e.seen.keys ELSE keys
  <2>1. vault' = [token |-> e.rotated, keys |-> k]
    BY <1>1, <1>7 DEF Merge
  <2>2. k \in KeyNos /\ KeysOf(e) = k
    BY <1>3, <1>4, <1>4b
  <2>3. keysInUse' = (IF keys = KEEPS THEN keysInUse ELSE k) /\ keysInUse' \in KeyNos
    BY <1>1, <1>2, <2>2
  <2> HIDE DEF k
  <2>4. vault'.token = e.rotated /\ vault'.keys = k
    BY <2>1
  <2>5. /\ mishaps' \subseteq Mishaps
        /\ "crossed" \notin mishaps' => ~others
        /\ keys = KEEPS /\ "crossed" \notin mishaps' => "crossed" \notin mishaps
    BY <1>1, <1>2, <1>7 DEF Mishaps, Remaining, stale, fresh
  <2>6. e.rotated \in 0..newest
    BY <1>2, <1>3, <1>7, MaskAssumption
  <2>7. /\ RotationTypeOK' /\ Issued' /\ \A v \in Runners : Private(v)'
        /\ runner'[u] = AtRest /\ \A v \in Runners \ {u} : runner'[v] = runner[v]
    BY <1>1, <1>3, <2>1, <2>2, <2>3, <2>5, <2>6, StoreKeepsTokens
  <2>8. "crossed" \notin mishaps' => \A v \in Runners : runner'[v].stage = "idle"
    BY <2>5, <2>7, AtRestFields DEF others, Busy
  <2>9. SellerKeysKept' /\ KeysRead'
    <3>1. keys = KEEPS /\ "crossed" \notin mishaps' => k = keysInUse
      BY <1>3, <2>5 DEF RotationInv, KeysRead, k
    <3> QED
      BY <2>3, <2>4, <2>8, <3>1 DEF SellerKeysKept, KeysRead, Busy
  <2>10. e.rotated \notin spent /\ issuedFor[e.rotated] = k
    BY <1>2, <1>3, <1>7, <2>2 DEF Private
  <2>11. TokensFit'
    BY <1>1, <2>4, <2>8, <2>10 DEF TokensFit, Busy
  <2> QED
    BY <2>7, <2>9, <2>11 DEF RotationInv
<1> QED
  BY <1>4, <1>5, <1>6, <1>7

LEMMA RotationNextKeepsInv == RotationInv /\ [RotationNext]_vaultVars => RotationInv'
<1> SUFFICES ASSUME RotationInv, [RotationNext]_vaultVars PROVE RotationInv'
  OBVIOUS
<1>1. CASE UNCHANGED vaultVars
  BY <1>1 DEF vaultVars, RotationInv, RotationTypeOK, Issued, Private, SellerKeysKept, KeysRead, TokensFit,
              Busy, Unstored
<1>2. ASSUME NEW u \in Runners, NEW work \in {"run", "test", "look"}, Connect(u, work)
      PROVE  RotationInv'
  BY <1>2, ConnectKeepsInv
<1>3. ASSUME NEW u \in Runners, NEW w \in {MASK, KEEPS}, NEW keys \in {w, vaultCalls + 1}, OpenEdit(u, w, keys)
      PROVE  RotationInv'
  BY <1>3, OpenEditKeepsInv
<1>4. ASSUME NEW u \in Runners, NEW keys \in {keysInUse, vault.keys, vaultCalls + 1},
             NEW sent \in {keys, MASK}, PasteToken(u, keys, sent)
      PROVE  RotationInv'
  <2>1. keysInUse \in KeyNos /\ vault.keys \in KeyNos /\ vaultCalls \in 0..MaxVaultCalls
    BY DEF RotationInv, RotationTypeOK, Issued
  <2>2. keys \in KeyNos
    BY <1>4, <2>1, IssueAssumption DEF PasteToken, KeyNos
  <2> QED
    BY <1>4, <2>2, PasteTokenKeepsInv
<1>5. ASSUME NEW u \in Runners,
             \/ Exchange(u) \/ AnswerLost(u) \/ EndCalls(u) \/ GiveUp(u)
             \/ Collect(u) \/ Persist(u) \/ SaveEdit(u)
      PROVE  RotationInv'
  BY <1>5, ExchangesKeepInv, EndCallsKeepsInv, GiveUpKeepsInv, CollectKeepsInv, PersistKeepsInv, SaveEditKeepsInv
<1> QED
  BY <1>1, <1>2, <1>3, <1>4, <1>5, Zenon DEF RotationNext

-----------------------------------------------------------------------------
\* However runs, tests, look-ups and edits interleave: a token not yet stored is
\* known to one runner only, and a spent one stays only while a run has the next.
THEOREM RotationInvariant == RotationSpec => []RotationInv
<1>1. RotationInit => RotationInv
  BY RotationInitEstablishesInv
<1>2. RotationInv /\ [RotationNext]_vaultVars => RotationInv'
  BY RotationNextKeepsInv
<1> QED
  BY <1>1, <1>2, PTL DEF RotationSpec

\* The credentials and the runs keep their types, for any runs, requests, tokens.
THEOREM RotationTypeCorrect == RotationSpec => []RotationTypeOK
<1>1. RotationInv => RotationTypeOK
  BY DEF RotationInv
<1> QED
  BY <1>1, RotationInvariant, PTL

\* persistRotatedCredentials() and update() leave a token that works for the
\* stored keys, unless a rotation was lost or an edit crossed a run.
THEOREM TokenAlwaysWorks == RotationSpec => []StoredTokenWorks
<1>1. RotationInv => StoredTokenWorks
  <2> SUFFICES ASSUME RotationInv PROVE StoredTokenWorks
    OBVIOUS
  <2>1. newest \in 0..MaxIssues /\ vault.token \in 0..newest
    BY DEF RotationInv, RotationTypeOK, Issued, TokenNos
  <2>2. vault.token \in TokenNos
    BY <2>1, IssueAssumption DEF TokenNos
  <2> QED
    BY <2>2 DEF RotationInv, TokensFit, StoredTokenWorks
<1> QED
  BY <1>1, RotationInvariant, PTL

\* No merge of a rotation, and no edit without a token, changes the seller's keys.
THEOREM KeysAlwaysKept == RotationSpec => []SellerKeysKept
<1>1. RotationInv => SellerKeysKept
  BY DEF RotationInv
<1> QED
  BY <1>1, RotationInvariant, PTL

-----------------------------------------------------------------------------
(* Natural numbers and sequences.                                             *)

\* A set of natural numbers that is not empty has a least one.
LEMMA LeastOf ==
  ASSUME NEW S, S \subseteq Nat, S # {}
  PROVE  \E k \in S : \A i \in S : k <= i
<1>1. PICK k \in S : \A i \in S : ~(<<i, k>> \in OpToRel(<, Nat))
  BY WFMin, NatLessThanWellFounded
<1>2. ASSUME NEW i \in S, i < k PROVE FALSE
  <2>1. <<i, k>> \in OpToRel(<, Nat)
    BY <1>2 DEF OpToRel
  <2> QED
    BY <1>1, <2>1
<1> QED
  BY <1>2

\* What appending an element leaves and adds.
LEMMA Appended ==
  ASSUME NEW S, NEW s \in Seq(S), NEW e \in S
  PROVE  /\ Append(s, e) \in Seq(S) /\ Len(s) \in Nat /\ Len(Append(s, e)) = Len(s) + 1
         /\ DOMAIN s = 1..Len(s) /\ DOMAIN Append(s, e) = 1..(Len(s) + 1)
         /\ Append(s, e)[Len(s) + 1] = e /\ \A i \in 1..Len(s) : Append(s, e)[i] = s[i]
BY AppendProperties, LenProperties

\* An element put into a sequence.
LEMMA Inserted ==
  ASSUME NEW S, NEW s \in Seq(S), NEW i \in 1..(Len(s) + 1), NEW e \in S
  PROVE  /\ InsertAt(s, i, e) \in Seq(S) /\ Len(InsertAt(s, i, e)) = Len(s) + 1
         /\ InsertAt(s, i, e)[i] = e
         /\ \A j \in 1..(i - 1) : InsertAt(s, i, e)[j] = s[j]
         /\ \A j \in (i + 1)..(Len(s) + 1) : InsertAt(s, i, e)[j] = s[j - 1]
<1> DEFINE a == SubSeq(s, 1, i - 1)
           c == SubSeq(s, i, Len(s))
<1>1. Len(s) \in Nat /\ i \in Nat
  BY LenProperties
<1>2. a \in Seq(S) /\ Len(a) = i - 1 /\ \A j \in 1..(i - 1) : a[j] = s[j]
  BY <1>1
<1>3. c \in Seq(S) /\ Len(c) = Len(s) + 1 - i /\ \A j \in 1..(Len(s) + 1 - i) : c[j] = s[i + j - 1]
  BY <1>1
<1>4. InsertAt(s, i, e) = a \o <<e>> \o c
  BY DEF InsertAt
<1> HIDE DEF a, c
<1>5. <<e>> \in Seq(S) /\ Len(<<e>>) = 1 /\ <<e>>[1] = e
  OBVIOUS
<1>6. /\ a \o <<e>> \in Seq(S) /\ Len(a \o <<e>>) = i
      /\ \A j \in 1..i : (a \o <<e>>)[j] = IF j < i THEN s[j] ELSE e
  BY <1>1, <1>2, <1>5, ConcatProperties
<1> DEFINE d == a \o <<e>>
<1> HIDE DEF d
<1>7. d \in Seq(S) /\ Len(d) = i /\ \A j \in 1..i : d[j] = IF j < i THEN s[j] ELSE e
  BY <1>6 DEF d
<1>8. /\ d \o c \in Seq(S) /\ Len(d \o c) = Len(s) + 1
      /\ \A j \in 1..(Len(s) + 1) : (d \o c)[j] = IF j <= i THEN d[j] ELSE c[j - i]
  BY <1>1, <1>3, <1>7, ConcatProperties
<1>9. \A j \in 1..(Len(s) + 1) : j > i => c[j - i] = s[j - 1]
  <2> TAKE j \in 1..(Len(s) + 1)
  <2> HAVE j > i
  <2>1. j - i \in 1..(Len(s) + 1 - i) /\ i + (j - i) - 1 = j - 1
    BY <1>1
  <2> QED
    BY <1>3, <2>1
<1> QED
  BY <1>1, <1>4, <1>7, <1>8, <1>9 DEF d

\* An element taken out of a sequence.
LEMMA Removed ==
  ASSUME NEW S, NEW s \in Seq(S), NEW i \in 1..Len(s)
  PROVE  /\ RemoveAt(s, i) \in Seq(S) /\ Len(RemoveAt(s, i)) = Len(s) - 1
         /\ \A j \in 1..(Len(s) - 1) : RemoveAt(s, i)[j] = IF j < i THEN s[j] ELSE s[j + 1]
<1> DEFINE a == SubSeq(s, 1, i - 1)
           c == SubSeq(s, i + 1, Len(s))
<1>1. Len(s) \in Nat /\ i \in Nat
  BY LenProperties
<1>2. a \in Seq(S) /\ Len(a) = i - 1 /\ \A j \in 1..(i - 1) : a[j] = s[j]
  BY <1>1
<1>3. c \in Seq(S) /\ Len(c) = Len(s) - i /\ \A j \in 1..(Len(s) - i) : c[j] = s[i + j]
  BY <1>1
<1>4. RemoveAt(s, i) = a \o c
  BY DEF RemoveAt
<1> HIDE DEF a, c
<1>5. /\ a \o c \in Seq(S) /\ Len(a \o c) = Len(s) - 1
      /\ \A j \in 1..(Len(s) - 1) : (a \o c)[j] = IF j < i THEN a[j] ELSE c[j - (i - 1)]
  <2>1. /\ a \o c \in Seq(S) /\ Len(a \o c) = Len(a) + Len(c)
        /\ \A j \in 1..(Len(a) + Len(c)) : (a \o c)[j] = IF j <= Len(a) THEN a[j] ELSE c[j - Len(a)]
    BY <1>2, <1>3, ConcatProperties
  <2>2. Len(a) + Len(c) = Len(s) - 1 /\ \A j \in Nat : j <= i - 1 <=> j < i
    BY <1>1, <1>2, <1>3
  <2> QED
    BY <1>1, <1>2, <2>1, <2>2
<1>6. \A j \in 1..(Len(s) - 1) : j >= i => c[j - (i - 1)] = s[j + 1]
  <2> TAKE j \in 1..(Len(s) - 1)
  <2> HAVE j >= i
  <2>1. j - (i - 1) \in 1..(Len(s) - i) /\ i + (j - (i - 1)) = j + 1
    BY <1>1
  <2> QED
    BY <1>3, <2>1
<1> QED
  BY <1>1, <1>2, <1>4, <1>5, <1>6

LEMMA SetOfConcat ==
  ASSUME NEW S, NEW s \in Seq(S), NEW t \in Seq(S)
  PROVE  ToSet(s \o t) = ToSet(s) \cup ToSet(t)
<1>1. /\ s \o t \in Seq(S) /\ Len(s \o t) = Len(s) + Len(t) /\ Len(s) \in Nat /\ Len(t) \in Nat
      /\ DOMAIN s = 1..Len(s) /\ DOMAIN t = 1..Len(t) /\ DOMAIN (s \o t) = 1..(Len(s) + Len(t))
      /\ \A i \in 1..(Len(s) + Len(t)) : (s \o t)[i] = IF i <= Len(s) THEN s[i] ELSE t[i - Len(s)]
  BY ConcatProperties, LenProperties
<1> DEFINE u == s \o t
<1> HIDE DEF u
<1>2. /\ DOMAIN u = 1..(Len(s) + Len(t))
      /\ \A i \in 1..(Len(s) + Len(t)) : u[i] = IF i <= Len(s) THEN s[i] ELSE t[i - Len(s)]
  BY <1>1 DEF u
<1>3. ASSUME NEW x \in ToSet(u) PROVE x \in ToSet(s) \cup ToSet(t)
  <2>1. PICK i \in 1..(Len(s) + Len(t)) : x = u[i]
    BY <1>2 DEF ToSet
  <2>2. CASE i <= Len(s)
    <3>1. i \in 1..Len(s) /\ x = s[i]
      BY <1>1, <1>2, <2>1, <2>2
    <3> QED
      BY <1>1, <3>1 DEF ToSet
  <2>3. CASE ~(i <= Len(s))
    <3>1. i - Len(s) \in 1..Len(t) /\ x = t[i - Len(s)]
      BY <1>1, <1>2, <2>1, <2>3
    <3> QED
      BY <1>1, <3>1 DEF ToSet
  <2> QED
    BY <2>2, <2>3
<1>4. ASSUME NEW i \in 1..Len(s) PROVE s[i] \in ToSet(u)
  BY <1>1, <1>2 DEF ToSet
<1>5. ASSUME NEW i \in 1..Len(t) PROVE t[i] \in ToSet(u)
  <2>1. Len(s) + i \in 1..(Len(s) + Len(t)) /\ ~(Len(s) + i <= Len(s)) /\ (Len(s) + i) - Len(s) = i
    BY <1>1
  <2>2. u[Len(s) + i] = t[i]
    BY <1>2, <2>1
  <2> QED
    BY <1>2, <2>1, <2>2 DEF ToSet
<1> QED
  BY <1>1, <1>3, <1>4, <1>5 DEF ToSet, u

-----------------------------------------------------------------------------
(* The pace of the calls.                                                     *)

\* The calls are let through in the order of time.
InOrder ==
  \A i \in DOMAIN passed : passed[i].at <= clock /\ \A j \in 1..i : passed[j].at <= passed[i].at

Forgotten == Len(passed) - Len(times)

\* The limiter remembers the latest calls let through; those it has forgotten
\* have left the window.
RemembersWindow ==
  /\ Len(times) <= Len(passed)
  /\ \A i \in DOMAIN times : times[i] = passed[Forgotten + i].at
  /\ \A i \in 1..Forgotten : clock - passed[i].at >= WindowLength

\* A call sleeps for a reason that more calls and later times do not take away.
NapsJustified ==
  \A u \in Calls : nap[u].asleep =>
    /\ nap[u].limit \in Limits
    /\ Cardinality({i \in DOMAIN passed : passed[i].at + WindowLength >= nap[u].until}) >= nap[u].limit

PacedInv == LimiterTypeOK /\ InOrder /\ RemembersWindow /\ WindowNeverCrowded /\ NapsJustified

-----------------------------------------------------------------------------
\* Of times in order, those the window still holds are the last ones.
LEMMA FirstRecentSplits ==
  ASSUME LimiterTypeOK, InOrder, RemembersWindow
  PROVE  /\ FirstRecent \in 1..(Len(times) + 1)
         /\ \A i \in DOMAIN times : FirstRecent <= i <=> clock - times[i] < WindowLength
<1> DEFINE S == {i \in DOMAIN times : clock - times[i] < WindowLength}
<1>1. /\ Len(times) \in Nat /\ DOMAIN times = 1..Len(times) /\ S \subseteq Nat
      /\ clock \in Nat /\ WindowLength \in Nat
      /\ \A i \in DOMAIN times : times[i] \in Nat
  BY LimiterAssumption DEF LimiterTypeOK, Ticks
<1>2. \A i, j \in DOMAIN times : i <= j => times[i] <= times[j]
  <2> TAKE i, j \in DOMAIN times
  <2>1. /\ times[i] = passed[Forgotten + i].at /\ times[j] = passed[Forgotten + j].at
        /\ Forgotten \in Nat /\ i \in Nat /\ j \in Nat
        /\ Forgotten + i \in 1..Len(passed) /\ Forgotten + j \in 1..Len(passed)
    BY <1>1 DEF LimiterTypeOK, RemembersWindow, Forgotten
  <2>2. i <= j => Forgotten + i \in 1..(Forgotten + j)
    BY <1>1, <2>1
  <2> QED
    BY <2>1, <2>2 DEF LimiterTypeOK, InOrder
<1>3. \E k \in 1..(Len(times) + 1) : \A i \in DOMAIN times : k <= i <=> clock - times[i] < WindowLength
  <2>1. CASE S = {}
    BY <1>1, <2>1
  <2>2. CASE S # {}
    <3>1. PICK k \in S : \A i \in S : k <= i
      BY <1>1, <2>2, LeastOf
    <3>2. k \in 1..(Len(times) + 1)
      BY <1>1, <3>1
    <3>3. ASSUME NEW i \in DOMAIN times PROVE k <= i <=> clock - times[i] < WindowLength
      BY <1>1, <1>2, <3>1, <3>3
    <3> QED
      BY <3>2, <3>3
  <2> QED
    BY <2>1, <2>2
<1> QED
  BY <1>3 DEF FirstRecent

LEMMA RecentIsWindow ==
  ASSUME LimiterTypeOK, InOrder, RemembersWindow
  PROVE  /\ InWindow = (Forgotten + FirstRecent)..Len(passed)
         /\ Recent \in Seq(Ticks) /\ Len(Recent) = Len(times) + 1 - FirstRecent
         /\ \A i \in DOMAIN Recent : Recent[i] = passed[Forgotten + FirstRecent - 1 + i].at
         /\ Cardinality(InWindow) = Len(Recent)
         /\ Forgotten \in Nat /\ FirstRecent \in 1..(Len(times) + 1)
<1> DEFINE k == FirstRecent
<1>1. k \in 1..(Len(times) + 1) /\ \A i \in DOMAIN times : k <= i <=> clock - times[i] < WindowLength
  BY FirstRecentSplits
<1> HIDE DEF k
<1>2. /\ Len(times) \in Nat /\ DOMAIN times = 1..Len(times) /\ Len(passed) \in Nat /\ DOMAIN passed = 1..Len(passed)
      /\ Forgotten \in Nat
      /\ clock \in Nat /\ WindowLength \in Nat
      /\ \A i \in DOMAIN passed : passed[i].at \in Nat
      /\ \A i \in DOMAIN times : times[i] \in Ticks
  <2>1. /\ Len(times) \in Nat /\ DOMAIN times = 1..Len(times) /\ Len(passed) \in Nat /\ DOMAIN passed = 1..Len(passed)
        /\ clock \in Nat /\ WindowLength \in Nat
    BY LimiterAssumption DEF LimiterTypeOK, Ticks
  <2>2. Forgotten \in Nat
    BY <2>1 DEF RemembersWindow, Forgotten
  <2>3. (\A i \in DOMAIN passed : passed[i].at \in Nat) /\ \A i \in DOMAIN times : times[i] \in Ticks
    <3>1. /\ \A i \in DOMAIN passed : passed[i] \in [at : Ticks, limit : Limits]
          /\ \A i \in DOMAIN times : times[i] \in Ticks
      BY ElementOfSeq, <2>1 DEF LimiterTypeOK
    <3>2. Ticks \subseteq Nat
      BY LimiterAssumption DEF Ticks
    <3> QED
      BY <3>1, <3>2
  <2> QED
    BY <2>1, <2>2, <2>3
<1>3. ASSUME NEW i \in DOMAIN passed
      PROVE  clock - passed[i].at < WindowLength <=> Forgotten + k <= i
  <2>1. CASE i <= Forgotten
    BY <1>1, <1>2, <2>1 DEF RemembersWindow
  <2>2. CASE i > Forgotten
    <3>1. i - Forgotten \in DOMAIN times /\ Forgotten + (i - Forgotten) = i
      BY <1>2, <2>2 DEF Forgotten
    <3>2. times[i - Forgotten] = passed[i].at
      BY <3>1 DEF RemembersWindow
    <3> QED
      BY <1>1, <1>2, <3>1, <3>2
  <2> QED
    BY <1>2, <2>1, <2>2
<1>4. InWindow = (Forgotten + k)..Len(passed)
  BY <1>1, <1>2, <1>3 DEF InWindow
<1>5. /\ SubSeq(times, k, Len(times)) \in Seq(Ticks) /\ Len(SubSeq(times, k, Len(times))) = Len(times) + 1 - k
      /\ \A i \in 1..(Len(times) + 1 - k) : SubSeq(times, k, Len(times))[i] = times[k - 1 + i]
  <2>1. times \in Seq(Ticks)
    BY DEF LimiterTypeOK
  <2> QED
    BY <1>1, <1>2, <2>1
<1>6. \A i \in 1..(Len(times) + 1 - k) : times[k - 1 + i] = passed[Forgotten + k - 1 + i].at
  <2> TAKE i \in 1..(Len(times) + 1 - k)
  <2>1. k - 1 + i \in DOMAIN times /\ Forgotten + (k - 1 + i) = Forgotten + k - 1 + i
    BY <1>1, <1>2
  <2> QED
    BY <2>1 DEF RemembersWindow
<1>7. Cardinality((Forgotten + k)..Len(passed)) = Len(times) + 1 - k
  <2> DEFINE a == Forgotten + k
             b == Len(passed)
  <2>1. a \in Int /\ b \in Int /\ b - a + 1 = Len(times) + 1 - k /\ (a > b => Len(times) + 1 - k = 0)
    BY <1>1, <1>2 DEF Forgotten
  <2> HIDE DEF a, b
  <2>2. Cardinality(a..b) = Len(times) + 1 - k
    BY <1>2, <2>1, FS_Interval
  <2> QED
    BY <2>2 DEF a, b
<1>8. Recent = SubSeq(times, k, Len(times)) /\ FirstRecent = k
  BY DEF Recent, k
<1>9. DOMAIN Recent = 1..(Len(times) + 1 - k) /\ Forgotten + k - 1 = Forgotten + FirstRecent - 1
  BY <1>1, <1>2, <1>5, <1>8
<1>10. \A i \in DOMAIN Recent : Recent[i] = passed[Forgotten + FirstRecent - 1 + i].at
  BY <1>5, <1>6, <1>8, <1>9
<1> QED
  BY <1>1, <1>2, <1>4, <1>5, <1>7, <1>8, <1>10

\* Letting a call through adds it to the history and forgets what left the window.
LEMMA LetThroughKeepsInv ==
  ASSUME NEW u \in Calls, NEW limit \in Limits, PacedInv, Len(Recent) < limit, LetThrough(u, limit)
  PROVE  PacedInv'
<1> DEFINE n == Len(passed)
           new == [at |-> clock, limit |-> limit]
<1>1. /\ InWindow = (Forgotten + FirstRecent)..n
      /\ Recent \in Seq(Ticks) /\ Len(Recent) = Len(times) + 1 - FirstRecent
      /\ \A i \in DOMAIN Recent : Recent[i] = passed[Forgotten + FirstRecent - 1 + i].at
      /\ Cardinality(InWindow) = Len(Recent)
      /\ Forgotten \in Nat /\ FirstRecent \in 1..(Len(times) + 1)
  BY RecentIsWindow DEF PacedInv
<1>2. /\ times' = Append(Recent, clock) /\ passed' = Append(passed, new) /\ clock' = clock
      /\ nap' = [nap EXCEPT ![u] = Awake]
  BY DEF LetThrough
<1>3. /\ passed \in Seq([at : Ticks, limit : Limits]) /\ n \in Nat /\ Len(times) \in Nat /\ clock \in Ticks
      /\ Ticks \subseteq Nat /\ Limits \subseteq Nat /\ WindowLength \in Nat \ {0}
      /\ new \in [at : Ticks, limit : Limits]
      /\ LastTick \in Nat
  BY LimiterAssumption DEF PacedInv, LimiterTypeOK, Ticks
<1>4. /\ passed' \in Seq([at : Ticks, limit : Limits]) /\ Len(passed') = n + 1 /\ DOMAIN passed' = 1..(n + 1)
      /\ passed'[n + 1] = new /\ \A i \in 1..n : passed'[i] = passed[i]
      /\ DOMAIN passed = 1..n
  BY <1>2, <1>3
<1>5. /\ times' \in Seq(Ticks) /\ Len(times') = Len(Recent) + 1 /\ DOMAIN times' = 1..(Len(Recent) + 1)
      /\ times'[Len(Recent) + 1] = clock /\ \A i \in 1..Len(Recent) : times'[i] = Recent[i]
      /\ DOMAIN Recent = 1..Len(Recent) /\ Len(Recent) \in Nat
  <2> DEFINE r == Recent
  <2>1. r \in Seq(Ticks) /\ clock \in Ticks /\ times' = Append(r, clock)
    BY <1>1, <1>2, <1>3
  <2> HIDE DEF r
  <2>2. /\ Append(r, clock) \in Seq(Ticks) /\ Len(r) \in Nat /\ Len(Append(r, clock)) = Len(r) + 1
        /\ DOMAIN r = 1..Len(r) /\ DOMAIN Append(r, clock) = 1..(Len(r) + 1)
        /\ Append(r, clock)[Len(r) + 1] = clock /\ \A i \in 1..Len(r) : Append(r, clock)[i] = r[i]
    BY <2>1, Appended
  <2> QED
    BY <2>1, <2>2 DEF r
<1>6. new.at = clock /\ new.limit = limit /\ clock \in Nat
  BY <1>3
<1> HIDE DEF new
<1>7. LimiterTypeOK'
  <2>1. Awake \in Nap
    BY LimiterAssumption DEF Awake, Nap
  <2>2. nap' \in [Calls -> Nap]
    BY <1>2, <2>1 DEF PacedInv, LimiterTypeOK
  <2> QED
    BY <1>2, <1>3, <1>4, <1>5, <2>2 DEF LimiterTypeOK, Ticks
<1>8. \A i \in 1..n : passed[i].at \in Nat /\ passed[i].at <= clock
  <2> TAKE i \in 1..n
  <2>1. passed[i] \in [at : Ticks, limit : Limits]
    BY <1>3, ElementOfSeq
  <2> QED
    BY <1>3, <1>4, <2>1 DEF PacedInv, InOrder
<1>9. InOrder'
  <2> SUFFICES ASSUME NEW i \in 1..(n + 1)
               PROVE  passed'[i].at <= clock /\ \A j \in 1..i : passed'[j].at <= passed'[i].at
    BY <1>2, <1>4 DEF InOrder
  <2>1. CASE i = n + 1
    <3>1. passed'[i].at = clock /\ clock <= clock
      BY <1>4, <1>6, <2>1
    <3>2. \A j \in 1..(n + 1) : j \in 1..n \/ j = n + 1
      BY <1>3
    <3> QED
      BY <1>4, <1>8, <2>1, <3>1, <3>2
  <2>2. CASE i \in 1..n
    <3>1. \A j \in 1..i : j \in 1..n
      BY <1>3, <2>2
    <3> QED
      BY <1>4, <1>8, <2>2, <3>1 DEF PacedInv, InOrder
  <2> QED
    BY <1>3, <2>1, <2>2
<1>10. /\ Forgotten' = Forgotten + FirstRecent - 1 /\ Forgotten' \in Nat /\ Forgotten' + Len(Recent) = n
       /\ Forgotten' < Forgotten + FirstRecent
  <2>1. Forgotten' = (n + 1) - (Len(Recent) + 1) /\ Forgotten = n - Len(times) /\ FirstRecent \in Nat \ {0}
    BY <1>1, <1>3, <1>4, <1>5 DEF Forgotten
  <2>2. /\ Len(Recent) = Len(times) + 1 - FirstRecent /\ FirstRecent \in 1..(Len(times) + 1)
        /\ n \in Nat /\ Len(times) \in Nat /\ Forgotten \in Nat
    BY <1>1, <1>3
  <2> HIDE DEF n
  <2> QED
    BY <2>1, <2>2
<1>11. RemembersWindow'
  <2>1. Len(times') <= Len(passed')
    BY <1>1, <1>3, <1>4, <1>5 DEF Forgotten
  <2>2. ASSUME NEW i \in DOMAIN times' PROVE times'[i] = passed'[Forgotten' + i].at
    <3>1. CASE i = Len(Recent) + 1
      <4>1. Forgotten' + i = n + 1
        BY <1>3, <1>5, <1>10, <3>1
      <4> QED
        BY <1>4, <1>5, <1>6, <3>1, <4>1
    <3>2. CASE i \in 1..Len(Recent)
      <4>1. Forgotten' + i \in 1..n
        BY <1>3, <1>5, <1>10, <3>2
      <4> QED
        BY <1>1, <1>4, <1>5, <1>10, <3>2, <4>1
    <3> QED
      BY <1>5, <3>1, <3>2
  <2>3. ASSUME NEW i \in 1..Forgotten' PROVE clock - passed'[i].at >= WindowLength
    <3>1. i \in 1..n /\ i \notin InWindow
      BY <1>1, <1>3, <1>5, <1>10
    <3>2. ~(clock - passed[i].at < WindowLength)
      BY <1>4, <3>1 DEF InWindow
    <3> QED
      BY <1>3, <1>4, <1>6, <1>8, <3>1, <3>2
  <2> QED
    BY <1>2, <2>1, <2>2, <2>3 DEF RemembersWindow
<1>12. WindowNeverCrowded'
  <2> SUFFICES ASSUME NEW i \in 1..(n + 1)
               PROVE  Cardinality({j \in 1..i : passed'[i].at - passed'[j].at < WindowLength}) <= passed'[i].limit
    BY <1>4 DEF WindowNeverCrowded
  <2>1. CASE i \in 1..n
    <3>1. \A j \in 1..i : j \in 1..n
      BY <1>3, <2>1
    <3>2. {j \in 1..i : passed'[i].at - passed'[j].at < WindowLength}
            = {j \in 1..i : passed[i].at - passed[j].at < WindowLength}
      BY <1>4, <2>1, <3>1
    <3> QED
      BY <1>4, <2>1, <3>2 DEF PacedInv, WindowNeverCrowded
  <2>2. CASE i = n + 1
    <3>1. {j \in 1..i : passed'[i].at - passed'[j].at < WindowLength} = InWindow \cup {n + 1}
      BY <1>3, <1>4, <1>6, <2>2 DEF InWindow
    <3>2. IsFiniteSet(InWindow) /\ n + 1 \notin InWindow
      <4>1. n + 1 \notin InWindow
        BY <1>3, <1>4 DEF InWindow
      <4>2. Forgotten + FirstRecent \in Int /\ n \in Int
        BY <1>1, <1>3
      <4> QED
        BY <1>1, <4>1, <4>2, FS_Interval
    <3>3. Cardinality(InWindow \cup {n + 1}) = Len(Recent) + 1
      BY <1>1, <3>2, FS_AddElement
    <3>4. passed'[i].limit = limit /\ Len(Recent) + 1 <= limit
      BY <1>3, <1>4, <1>5, <1>6, <2>2
    <3> QED
      BY <3>1, <3>3, <3>4
  <2> QED
    BY <1>3, <2>1, <2>2
<1>13. NapsJustified'
  <2> SUFFICES ASSUME NEW v \in Calls, nap'[v].asleep
               PROVE  /\ nap'[v].limit \in Limits
                      /\ Cardinality({i \in DOMAIN passed' : passed'[i].at + WindowLength >= nap'[v].until})
                           >= nap'[v].limit
    BY DEF NapsJustified
  <2> DEFINE S == {i \in DOMAIN passed : passed[i].at + WindowLength >= nap[v].until}
             T == {i \in DOMAIN passed' : passed'[i].at + WindowLength >= nap[v].until}
  <2>1. nap'[v] = nap[v]
    BY <1>2 DEF PacedInv, LimiterTypeOK, Awake
  <2>2. nap[v].limit \in Limits /\ Cardinality(S) >= nap[v].limit
    BY <2>1 DEF PacedInv, NapsJustified
  <2>3. S \subseteq T
    BY <1>3, <1>4
  <2>4. IsFiniteSet(T) /\ T \subseteq 1..(n + 1)
    <3>1. T \subseteq 1..(n + 1) /\ 1 \in Int /\ n + 1 \in Int
      BY <1>3, <1>4
    <3>2. IsFiniteSet(1..(n + 1))
      BY <3>1, FS_Interval
    <3> QED
      BY <3>1, <3>2, FS_Subset
  <2>5. Cardinality(S) <= Cardinality(T) /\ Cardinality(S) \in Nat /\ Cardinality(T) \in Nat
    BY <2>3, <2>4, FS_Subset, FS_CardinalityType
  <2>6. Cardinality(T) >= nap[v].limit
    <3> HIDE DEF S, T
    <3>1. nap[v].limit \in Nat
      BY <1>3, <2>2
    <3> QED
      BY <2>2, <2>5, <3>1
  <2> QED
    BY <2>1, <2>2, <2>6
<1> QED
  BY <1>7, <1>9, <1>11, <1>12, <1>13 DEF PacedInv

\* The positions of a sequence that satisfy something are finitely many.
LEMMA PositionsAreFinite ==
  ASSUME NEW n \in Nat, NEW T \in SUBSET (1..n)
  PROVE  IsFiniteSet(T) /\ Cardinality(T) \in Nat
<1>1. IsFiniteSet(1..n)
  BY FS_Interval
<1> QED
  BY <1>1, FS_Subset, FS_CardinalityType

\* A call that finds its window full sleeps until the oldest of its calls leaves it.
LEMMA NapKeepsInv ==
  ASSUME NEW u \in Calls, NEW limit \in Limits, PacedInv, Len(Recent) >= limit,
         nap' = [nap EXCEPT ![u] = [asleep |-> TRUE, until |-> UntilOldest, limit |-> limit]],
         UNCHANGED <<clock, times, passed>>
  PROVE  PacedInv'
<1> DEFINE first == Forgotten + FirstRecent
           new == [asleep |-> TRUE, until |-> UntilOldest, limit |-> limit]
<1>1. /\ InWindow = first..Len(passed) /\ Recent \in Seq(Ticks) /\ Cardinality(InWindow) = Len(Recent)
      /\ \A i \in DOMAIN Recent : Recent[i] = passed[Forgotten + FirstRecent - 1 + i].at
      /\ Forgotten \in Nat /\ FirstRecent \in Nat \ {0}
  BY RecentIsWindow DEF PacedInv
<1>2. limit \in Nat \ {0} /\ WindowLength \in Nat /\ Ticks \subseteq Nat /\ LastTick \in Nat
  BY LimiterAssumption DEF Ticks
<1>3. Len(Recent) \in Nat /\ DOMAIN Recent = 1..Len(Recent) /\ 1 \in DOMAIN Recent /\ Recent[1] \in Ticks
  <2>1. Len(Recent) \in Nat /\ DOMAIN Recent = 1..Len(Recent)
    BY <1>1, LenProperties
  <2>2. 1 \in 1..Len(Recent)
    BY <1>2, <2>1
  <2> QED
    BY <1>1, <2>1, <2>2, ElementOfSeq
<1>4. Recent[1] = passed[first].at /\ first \in Nat
  <2>1. Forgotten + FirstRecent - 1 + 1 = first
    BY <1>1
  <2> QED
    BY <1>1, <1>3, <2>1
<1>5. UntilOldest \in 0..(LastTick + WindowLength) /\ UntilOldest = passed[first].at + WindowLength
  BY <1>2, <1>3, <1>4 DEF UntilOldest, Ticks
<1>6. new \in Nap /\ new.asleep /\ new.until = UntilOldest /\ new.limit = limit
  BY <1>5 DEF Nap
<1> HIDE DEF new
<1>7. nap' \in [Calls -> Nap] /\ nap'[u] = new /\ \A v \in Calls \ {u} : nap'[v] = nap[v]
  BY <1>6 DEF PacedInv, LimiterTypeOK, new
<1>8. LimiterTypeOK' /\ InOrder' /\ RemembersWindow' /\ WindowNeverCrowded'
  BY <1>7 DEF PacedInv, LimiterTypeOK, InOrder, RemembersWindow, Forgotten, WindowNeverCrowded
<1>9. NapsJustified'
  <2> SUFFICES ASSUME NEW v \in Calls, nap'[v].asleep
               PROVE  /\ nap'[v].limit \in Limits
                      /\ Cardinality({i \in DOMAIN passed : passed[i].at + WindowLength >= nap'[v].until})
                           >= nap'[v].limit
    BY DEF NapsJustified
  <2>1. CASE v # u
    BY <1>7, <2>1 DEF PacedInv, NapsJustified
  <2>2. CASE v = u
    <3> DEFINE T == {i \in DOMAIN passed : passed[i].at + WindowLength >= nap'[v].until}
    <3>1. Len(passed) \in Nat /\ DOMAIN passed = 1..Len(passed)
      BY LenProperties DEF PacedInv, LimiterTypeOK
    <3>2. \A i \in DOMAIN passed : passed[i].at \in Nat
      <4> TAKE i \in DOMAIN passed
      <4>1. passed[i] \in [at : Ticks, limit : Limits]
        BY <3>1, ElementOfSeq DEF PacedInv, LimiterTypeOK
      <4> QED
        BY <1>2, <4>1
    <3>3. InWindow \subseteq T
      <4> SUFFICES ASSUME NEW i \in InWindow PROVE i \in T
        OBVIOUS
      <4>1. i \in DOMAIN passed /\ i \in first..Len(passed)
        BY <1>1 DEF InWindow
      <4>2. first \in DOMAIN passed /\ first \in 1..i
        BY <1>1, <1>4, <3>1, <4>1
      <4>3. passed[first].at <= passed[i].at
        BY <4>1, <4>2 DEF PacedInv, InOrder
      <4> QED
        BY <1>2, <1>5, <1>6, <1>7, <2>2, <3>2, <4>1, <4>2, <4>3
    <3>4. T \in SUBSET (1..Len(passed))
      BY <3>1
    <3>5. Cardinality(InWindow) <= Cardinality(T) /\ Cardinality(InWindow) \in Nat /\ Cardinality(T) \in Nat
      <4>1. IsFiniteSet(T) /\ Cardinality(T) \in Nat
        BY <3>1, <3>4, PositionsAreFinite
      <4>2. InWindow \in SUBSET (1..Len(passed))
        BY <3>3, <3>4
      <4> HIDE DEF T
      <4> QED
        BY <3>1, <3>3, <4>1, <4>2, PositionsAreFinite, FS_Subset
    <3> HIDE DEF T
    <3>6. Cardinality(T) >= limit
      BY <1>1, <1>2, <3>5
    <3> QED
      BY <1>6, <1>7, <2>2, <3>6 DEF T
  <2> QED
    BY <2>1, <2>2
<1> QED
  BY <1>8, <1>9 DEF PacedInv

LEMMA LimiterStepKeepsInv == PacedInv /\ [LimiterNext]_limiterVars => PacedInv'
<1> SUFFICES ASSUME PacedInv, [LimiterNext]_limiterVars PROVE PacedInv'
  OBVIOUS
<1>1. ASSUME NEW u \in Calls, NEW limit \in Limits, Throttle(u, limit) PROVE PacedInv'
  BY <1>1, LetThroughKeepsInv, NapKeepsInv DEF Throttle
<1>2. ASSUME NEW u \in Calls, Wake(u) PROVE PacedInv'
  <2>1. nap[u].limit \in Limits
    BY <1>2 DEF Wake, Due, PacedInv, NapsJustified
  <2> QED
    BY <1>1, <1>2, <2>1 DEF Wake
<1>3. CASE TickOn
  <2>1. /\ clock' = clock + 1 /\ clock < LastTick /\ clock' \in Ticks /\ clock \in Nat /\ WindowLength \in Nat
        /\ UNCHANGED <<times, passed, nap>> /\ Ticks \subseteq Nat
    BY <1>3, LimiterAssumption DEF TickOn, PacedInv, LimiterTypeOK, Ticks
  <2>2. \A i \in 1..Len(passed) : passed[i].at \in Nat
    <3> TAKE i \in 1..Len(passed)
    <3>1. passed[i] \in [at : Ticks, limit : Limits]
      BY ElementOfSeq DEF PacedInv, LimiterTypeOK
    <3> QED
      BY <2>1, <3>1
  <2>3. Len(passed) \in Nat /\ Len(times) \in Nat /\ DOMAIN passed = 1..Len(passed)
    BY LenProperties DEF PacedInv, LimiterTypeOK
  <2>4. LimiterTypeOK' /\ WindowNeverCrowded' /\ NapsJustified'
    BY <2>1 DEF PacedInv, LimiterTypeOK, WindowNeverCrowded, NapsJustified
  <2>5. InOrder'
    BY <2>1, <2>2, <2>3 DEF PacedInv, InOrder
  <2>6. RemembersWindow'
    <3>1. \A i \in 1..Forgotten : i \in 1..Len(passed)
      BY <2>3 DEF Forgotten
    <3> QED
      BY <2>1, <2>2, <3>1 DEF PacedInv, RemembersWindow, Forgotten
  <2> QED
    BY <2>4, <2>5, <2>6 DEF PacedInv
<1>4. CASE UNCHANGED limiterVars
  BY <1>4 DEF limiterVars, PacedInv, LimiterTypeOK, InOrder, RemembersWindow, Forgotten, WindowNeverCrowded,
              NapsJustified
<1> QED
  BY <1>1, <1>2, <1>3, <1>4 DEF LimiterNext, Arrives

LEMMA LimiterInitEstablishesInv == LimiterInit => PacedInv
<1> SUFFICES ASSUME LimiterInit PROVE PacedInv
  OBVIOUS
<1>1. /\ clock = 0 /\ times = << >> /\ passed = << >> /\ nap = [u \in Calls |-> Awake]
      /\ Len(passed) = 0 /\ Len(times) = 0 /\ DOMAIN passed = {} /\ DOMAIN times = {}
  BY DEF LimiterInit
<1>2. Awake \in Nap /\ ~Awake.asleep /\ 0 \in Ticks
  BY LimiterAssumption DEF Awake, Nap, Ticks
<1>3. LimiterTypeOK
  BY <1>1, <1>2 DEF LimiterTypeOK
<1>4. InOrder /\ RemembersWindow /\ WindowNeverCrowded
  BY <1>1 DEF InOrder, RemembersWindow, WindowNeverCrowded, Forgotten
<1>5. NapsJustified
  BY <1>1, <1>2 DEF NapsJustified
<1> QED
  BY <1>3, <1>4, <1>5 DEF PacedInv

LEMMA PacedInvHolds == LimiterSpec => []PacedInv
BY LimiterInitEstablishesInv, LimiterStepKeepsInv, PTL DEF LimiterSpec

\* A call that is not due finds as many calls in the window as it may make.
LEMMA JustifiedNapsAreNeeded == PacedInv => NoNeedlessNap
<1> SUFFICES ASSUME PacedInv, NEW u \in Calls, nap[u].asleep, ~Due(u)
             PROVE  Cardinality(InWindow) >= nap[u].limit
  BY DEF NoNeedlessNap
<1> DEFINE S == {i \in DOMAIN passed : passed[i].at + WindowLength >= nap[u].until}
<1>1. nap[u].until > clock /\ nap[u].until \in Nat /\ clock \in Nat /\ WindowLength \in Nat /\ Ticks \subseteq Nat
  <2>1. nap[u] \in Nap
    BY DEF PacedInv, LimiterTypeOK
  <2> QED
    BY <2>1, LimiterAssumption DEF PacedInv, LimiterTypeOK, Due, Nap, Ticks
<1>2. Len(passed) \in Nat /\ DOMAIN passed = 1..Len(passed)
  BY LenProperties DEF PacedInv, LimiterTypeOK
<1>3. \A i \in DOMAIN passed : passed[i].at \in Nat
  <2> TAKE i \in DOMAIN passed
  <2>1. passed[i] \in [at : Ticks, limit : Limits]
    BY <1>2, ElementOfSeq DEF PacedInv, LimiterTypeOK
  <2> QED
    BY <1>1, <2>1
<1>4. S \subseteq InWindow /\ InWindow \in SUBSET (1..Len(passed))
  BY <1>1, <1>2, <1>3 DEF InWindow
<1>5. Cardinality(S) >= nap[u].limit /\ nap[u].limit \in Nat
  BY LimiterAssumption DEF PacedInv, NapsJustified
<1> HIDE DEF S
<1>6. IsFiniteSet(InWindow) /\ Cardinality(InWindow) \in Nat /\ Cardinality(S) \in Nat
  BY <1>2, <1>4, PositionsAreFinite
<1>7. Cardinality(S) <= Cardinality(InWindow)
  BY <1>4, <1>6, FS_Subset
<1> QED
  BY <1>5, <1>6, <1>7

\* The limiter's state keeps its type (rate-limiter.ts).
THEOREM LimiterTypeCorrect == LimiterSpec => []LimiterTypeOK
BY PacedInvHolds, PTL DEF PacedInv

\* However many calls of however many integrations interleave and sleep, throttle()
\* lets none through over its limit and lets none sleep longer than it must
\* (rate-limiter.ts, throttle).
THEOREM PacingHolds == LimiterSpec => []CallsArePaced
<1>1. PacedInv => CallsArePaced
  BY JustifiedNapsAreNeeded DEF PacedInv, CallsArePaced
<1> QED
  BY <1>1, PacedInvHolds, PTL

-----------------------------------------------------------------------------
\* Wherever the window is laid, and however the limits of the integrations that
\* share the times differ, it holds no more calls than the largest of them.
NoWindowOverflows ==
  \A most \in Nat, start \in Nat :
    (\A limit \in Limits : limit <= most) =>
      Cardinality({i \in DOMAIN passed : start <= passed[i].at /\ passed[i].at < start + WindowLength}) <= most

THEOREM AnyWindowHolds == LimiterSpec => []NoWindowOverflows
<1>1. ASSUME PacedInv PROVE NoWindowOverflows
  <2> SUFFICES ASSUME NEW most \in Nat, NEW start \in Nat, \A limit \in Limits : limit <= most
               PROVE  Cardinality({i \in DOMAIN passed :
                                     start <= passed[i].at /\ passed[i].at < start + WindowLength}) <= most
    BY DEF NoWindowOverflows
  <2> DEFINE S == {i \in DOMAIN passed : start <= passed[i].at /\ passed[i].at < start + WindowLength}
  <2>1. Len(passed) \in Nat /\ DOMAIN passed = 1..Len(passed) /\ Ticks \subseteq Nat /\ WindowLength \in Nat
    BY <1>1, LenProperties, LimiterAssumption DEF PacedInv, LimiterTypeOK, Ticks
  <2>2. \A i \in DOMAIN passed : passed[i].at \in Nat /\ passed[i].limit \in Limits
    <3> TAKE i \in DOMAIN passed
    <3>1. passed[i] \in [at : Ticks, limit : Limits]
      BY <1>1, <2>1, ElementOfSeq DEF PacedInv, LimiterTypeOK
    <3> QED
      BY <2>1, <3>1
  <2>3. S \in SUBSET (1..Len(passed))
    BY <2>1
  <2>4. CASE S = {}
    BY <2>4, FS_EmptySet
  <2>5. CASE S # {}
    \* The latest call of the window counted all of them.
    <3>1. PICK k \in S : \A i \in S : i <= k
      <4> DEFINE D == {Len(passed) - i : i \in S}
      <4>1. D \subseteq Nat /\ D # {}
        BY <2>1, <2>3, <2>5
      <4>2. PICK d \in D : \A e \in D : d <= e
        BY <4>1, LeastOf
      <4>3. PICK k \in S : d = Len(passed) - k
        OBVIOUS
      <4>4. ASSUME NEW i \in S PROVE i <= k
        <5>1. Len(passed) - i \in D /\ i \in Nat /\ k \in Nat
          BY <2>1, <2>3
        <5>2. d <= Len(passed) - i
          BY <4>2, <5>1
        <5> QED
          BY <2>1, <4>3, <5>1, <5>2
      <4> QED
        BY <4>4
    <3> DEFINE T == {j \in 1..k : passed[k].at - passed[j].at < WindowLength}
    <3>2. k \in DOMAIN passed /\ k \in 1..Len(passed) /\ Cardinality(T) <= passed[k].limit
      BY <1>1, <2>1, <2>3 DEF PacedInv, WindowNeverCrowded
    <3>3. S \subseteq T
      BY <2>1, <2>2, <3>1, <3>2
    <3>4. T \in SUBSET (1..Len(passed))
      BY <2>1, <3>2
    <3> HIDE DEF S, T
    <3>5. IsFiniteSet(T) /\ Cardinality(T) \in Nat /\ Cardinality(S) \in Nat
      BY <2>1, <2>3, <3>4, PositionsAreFinite
    <3>6. Cardinality(S) <= Cardinality(T)
      BY <3>3, <3>5, FS_Subset
    <3>7. passed[k].limit \in Nat /\ passed[k].limit <= most
      BY <2>2, <3>2, LimiterAssumption
    <3> QED
      BY <3>2, <3>5, <3>6, <3>7 DEF S
  <2> QED
    BY <2>4, <2>5
<1> QED
  BY <1>1, PacedInvHolds, PTL

-----------------------------------------------------------------------------
(* The walk through a list of orders.                                         *)

\* How many times b fits into a.
LEMMA Division ==
  ASSUME NEW a \in Int, NEW b \in Nat \ {0}
  PROVE a \div b \in Int /\ (a \div b) * b <= a /\ a < (a \div b) * b + b
  OBVIOUS

\* A product grows with its factor.
LEMMA Mono ==
  ASSUME NEW a \in Int, NEW c \in Int, NEW b \in Nat, a <= c
  PROVE a * b <= c * b
  OBVIOUS

\* So many pages as a total announces hold it.
LEMMA PagesCover ==
  ASSUME NEW total \in Nat, NEW read \in Nat, PagesOf(total) <= read
  PROVE  total <= read * PageSize
<1>1. PageSize \in Nat \ {0}
  BY FeedAssumption
<1> DEFINE a == total + PageSize - 1
<1>2. a \in Int /\ PagesOf(total) = a \div PageSize
  BY <1>1 DEF PagesOf
<1>3. a \div PageSize \in Int /\ a < (a \div PageSize) * PageSize + PageSize
  BY <1>1, <1>2, Division
<1>4. (a \div PageSize) * PageSize <= read * PageSize
  BY <1>1, <1>2, <1>3, Mono
<1> QED
  BY <1>1, <1>3, <1>4

\* The list holds an order once, and holds what was there throughout.
ListIsSound ==
  /\ \A i, j \in DOMAIN feed : feed[i] = feed[j] => i = j
  /\ there \subseteq ToSet(feed)

PagesAddUp == Len(collected) <= page * PageSize /\ (walking => page < MaxPages)

\* Unless the list lost an order before the mark, all before it has been read.
ReadBelow ==
  (market = "amazon" \/ "removed" \notin hitches) =>
    /\ market # "amazon" => page * PageSize <= mark
    /\ \A i \in DOMAIN feed : i <= mark /\ feed[i] \in there => feed[i] \in ToSet(collected)

\* Unless the list gained one before it, nothing after it has been.
UnreadAbove ==
  (market = "amazon" \/ "added" \notin hitches) =>
    /\ market # "amazon" => mark <= page * PageSize
    /\ \A i \in DOMAIN feed : mark < i => feed[i] \notin ToSet(collected)
    /\ \A i, j \in DOMAIN collected : collected[i] = collected[j] => i = j

ReadToTheEnd == ~walking /\ hitches \cap Losses = {} => Len(feed) <= mark

FeedInv == FeedTypeOK /\ ListIsSound /\ PagesAddUp /\ ReadBelow /\ UnreadAbove /\ ReadToTheEnd

\* A page is what the list has after its start, up to its end.
LEMMA RowsAre ==
  ASSUME feed \in Seq(FeedOrders), StartOfPage \in Nat
  PROVE  /\ Rows \in Seq(FeedOrders) /\ Len(Rows) \in 0..PageSize /\ DOMAIN Rows = 1..Len(Rows)
         /\ \A k \in 1..Len(Rows) : StartOfPage + k \in 1..Len(feed) /\ Rows[k] = feed[StartOfPage + k]
         /\ Len(Rows) # PageSize \/ Len(feed) - StartOfPage - Len(Rows) <= 0 => Len(feed) <= StartOfPage + PageSize
         /\ \A i \in 1..Len(feed) :
              StartOfPage < i /\ i <= StartOfPage + PageSize => i - StartOfPage \in 1..Len(Rows)
<1> DEFINE n == StartOfPage
           m == IF n + PageSize < Len(feed) THEN n + PageSize ELSE Len(feed)
           r == SubSeq(feed, n + 1, m)
<1>1. n \in Nat /\ PageSize \in Nat \ {0} /\ Len(feed) \in Nat /\ m \in Nat /\ m <= n + PageSize /\ m <= Len(feed)
  BY FeedAssumption, LenProperties
<1>2. Rows = r
  BY DEF Rows, PageAfter
<1> HIDE DEF n, r
<1>3. \A i \in (n + 1)..m : feed[i] \in FeedOrders
  BY <1>1, ElementOfSeq
<1>4. /\ r \in Seq(FeedOrders) /\ Len(r) = IF n + 1 <= m THEN m - n ELSE 0
      /\ \A k \in 1..(m - n) : r[k] = feed[n + k]
  <2> HIDE DEF m
  <2>1. n + 1 \in Int /\ m \in Int
    BY <1>1
  <2>2. /\ r \in Seq(FeedOrders) /\ Len(r) = IF n + 1 <= m THEN m - (n + 1) + 1 ELSE 0
        /\ \A k \in 1..(m - (n + 1) + 1) : r[k] = feed[n + 1 + k - 1]
    BY <1>3, <2>1, SubSeqProperties DEF r
  <2> QED
    BY <1>1, <2>2
<1>5. DOMAIN r = 1..Len(r)
  BY <1>4, LenProperties
<1>6. Len(r) \in 0..PageSize /\ \A k \in 1..Len(r) : n + k \in 1..Len(feed) /\ k \in 1..(m - n)
  BY <1>1, <1>4
<1>7. Len(r) # PageSize \/ Len(feed) - n - Len(r) <= 0 => Len(feed) <= n + PageSize
  BY <1>1, <1>4
<1>8. \A i \in 1..Len(feed) : n < i /\ i <= n + PageSize => i - n \in 1..Len(r)
  BY <1>1, <1>4
<1> QED
  BY <1>2, <1>4, <1>5, <1>6, <1>7, <1>8 DEF n

\* Every connector's condition ends the walk at the end of the list, unless the
\* limit on pages does, or a total that is missing.
LEMMA WalkEndsAtEnd ==
  ASSUME FeedInv, NEW total \in {Len(feed), UNCOUNTED}, StartOfPage \in Nat,
         ~GoesOn(Len(Rows), page + 1, Len(collected) + Len(Rows), total, Len(feed) - StartOfPage - Len(Rows)),
         market \in Counting => total # UNCOUNTED,
         market \in {"shopify", "woocommerce"} => ~(Len(feed) - StartOfPage - Len(Rows) > 0)
  PROVE  Len(feed) <= StartOfPage + PageSize
<1> DEFINE n == Len(Rows)
           rest == Len(feed) - StartOfPage - n
<1>1. /\ n \in Nat /\ n <= PageSize /\ rest \in Int /\ Len(feed) \in Nat /\ page \in Nat /\ PageSize \in Nat \ {0}
      /\ Len(collected) \in Nat /\ Len(collected) <= page * PageSize /\ page * PageSize \in Nat
      /\ (n # PageSize \/ rest <= 0 => Len(feed) <= StartOfPage + PageSize)
      /\ (page + 1) * PageSize = page * PageSize + PageSize
  <2>1. feed \in Seq(FeedOrders) /\ collected \in Seq(FeedOrders) /\ page \in Nat /\ PageSize \in Nat \ {0}
    BY FeedAssumption DEF FeedInv, FeedTypeOK
  <2>2. Len(feed) \in Nat /\ Len(collected) \in Nat
    BY <2>1, LenProperties
  <2>3. n \in 0..PageSize /\ (n # PageSize \/ rest <= 0 => Len(feed) <= StartOfPage + PageSize)
    BY <2>1, RowsAre
  <2>4. page * PageSize \in Nat /\ (page + 1) * PageSize = page * PageSize + PageSize
    BY <2>1
  <2> QED
    BY <2>1, <2>2, <2>3, <2>4 DEF FeedInv, PagesAddUp
<1>2. market # "amazon" => StartOfPage = page * PageSize
  BY DEF StartOfPage
<1> HIDE DEF n, rest
<1>3. ASSUME market # "amazon", ~Counted(page + 1, total), total # UNCOUNTED PROVE Len(feed) <= StartOfPage + PageSize
  <2>1. PagesOf(Len(feed)) \in Int
    <3>1. Len(feed) + PageSize - 1 \in Int
      BY <1>1
    <3> QED
      BY <1>1, <3>1, Division DEF PagesOf
  <2>2. PagesOf(Len(feed)) <= page + 1
    BY <1>1, <1>3, <2>1 DEF Counted
  <2>3. Len(feed) <= (page + 1) * PageSize
    BY <1>1, <2>2, PagesCover
  <2> QED
    BY <1>1, <1>2, <1>3, <2>3
<1>4. ASSUME ~Full(n) \/ ~(rest > 0) PROVE Len(feed) <= StartOfPage + PageSize
  BY <1>1, <1>4 DEF Full
<1>5. ~GoesOn(n, page + 1, Len(collected) + n, total, rest)
  BY DEF n, rest
<1>6. CASE market \in {"trendyol", "n11", "idefix", "ciceksepeti"}
  BY <1>3, <1>4, <1>5, <1>6 DEF GoesOn, Trendyol, N11, Idefix, CicekSepeti, Counting
<1>7. CASE market = "pttavm"
  BY <1>3, <1>4, <1>5, <1>7 DEF GoesOn, PttAvm, Counted
<1>8. CASE market = "pazarama"
  <2>1. ~Full(n) \/ ~(Len(collected) + n < Len(feed))
    BY <1>5, <1>8 DEF GoesOn, Pazarama
  <2> QED
    BY <1>1, <1>2, <1>4, <1>8, <2>1
<1>9. CASE market \in {"hepsiburada", "etsy"}
  <2>1. ~Full(n) \/ ~((page + 1) * PageSize < Len(feed))
    BY <1>5, <1>9 DEF GoesOn, Hepsiburada, Etsy
  <2> QED
    BY <1>1, <1>2, <1>4, <1>9, <2>1
<1>10. CASE market \in {"allegro", "ebay", "zalando", "temu"}
  BY <1>4, <1>5, <1>10 DEF GoesOn, Allegro, Ebay, Zalando, Temu
<1>11. CASE market \in {"shopify", "woocommerce"}
  BY <1>4, <1>11 DEF rest, n
<1>12. CASE market = "amazon"
  BY <1>4, <1>5, <1>12 DEF GoesOn, Amazon
<1>13. market \in Markets
  BY DEF FeedInv, FeedTypeOK
<1> QED
  BY <1>6, <1>7, <1>8, <1>9, <1>10, <1>11, <1>12, <1>13 DEF Markets

LEMMA FetchKeepsInv ==
  ASSUME FeedInv, NEW total \in {Len(feed), UNCOUNTED}, FetchPage(total)
  PROVE  FeedInv'
<1> DEFINE rows  == Rows
           start == StartOfPage
           rest  == Len(feed) - start - Len(rows)
           goes  == GoesOn(Len(rows), page + 1, Len(collected) + Len(rows), total, rest)
           ended == ~(goes /\ page + 1 < MaxPages)
           cut   == ended /\ (goes \/ (market \in {"shopify", "woocommerce"} /\ rest > 0))
<1>1. /\ walking /\ collected' = collected \o rows /\ page' = page + 1 /\ mark' = start + PageSize
      /\ walking' = ~ended
      /\ hitches' = hitches \cup (IF cut THEN {"cut"} ELSE {})
                      \cup (IF total = UNCOUNTED THEN {"uncounted"} ELSE {})
      /\ UNCHANGED <<market, wanted, feed, shifts, there>>
  BY DEF FetchPage
<1>2. /\ feed \in Seq(FeedOrders) /\ collected \in Seq(FeedOrders) /\ page \in Nat /\ mark \in Nat
      /\ PageSize \in Nat \ {0} /\ MaxPages \in Nat /\ page + 1 <= MaxPages /\ page * PageSize \in Nat
      /\ (page + 1) * PageSize = page * PageSize + PageSize
      /\ Len(collected) \in Nat /\ Len(feed) \in Nat
      /\ DOMAIN feed = 1..Len(feed) /\ DOMAIN collected = 1..Len(collected)
      /\ market \in Markets /\ hitches \subseteq Hitches
  <2>1. /\ feed \in Seq(FeedOrders) /\ collected \in Seq(FeedOrders) /\ page \in Nat /\ mark \in Nat
        /\ PageSize \in Nat \ {0} /\ MaxPages \in Nat /\ page + 1 <= MaxPages
        /\ market \in Markets /\ hitches \subseteq Hitches
    BY <1>1, FeedAssumption DEF FeedInv, FeedTypeOK, PagesAddUp
  <2>2. page * PageSize \in Nat /\ (page + 1) * PageSize = page * PageSize + PageSize
    BY <2>1
  <2> QED
    BY <2>1, <2>2, LenProperties
<1>3. /\ start \in Nat /\ (market = "amazon" => start = mark) /\ (market # "amazon" => start = page * PageSize)
  BY <1>2 DEF StartOfPage
<1>4. /\ rows \in Seq(FeedOrders) /\ Len(rows) \in 0..PageSize /\ DOMAIN rows = 1..Len(rows)
      /\ \A k \in 1..Len(rows) : start + k \in 1..Len(feed) /\ rows[k] = feed[start + k]
      /\ \A i \in 1..Len(feed) : start < i /\ i <= start + PageSize => i - start \in 1..Len(rows)
  BY <1>2, <1>3, RowsAre
<1>5. ~goes /\ (market \in Counting => total # UNCOUNTED)
        /\ (market \in {"shopify", "woocommerce"} => ~(rest > 0)) => Len(feed) <= start + PageSize
  BY <1>3, WalkEndsAtEnd
<1> HIDE DEF rows, start, goes, rest
<1>6. /\ collected' \in Seq(FeedOrders) /\ Len(collected') = Len(collected) + Len(rows)
      /\ ToSet(collected') = ToSet(collected) \cup ToSet(rows)
      /\ DOMAIN collected' = 1..(Len(collected) + Len(rows))
      /\ \A i \in 1..(Len(collected) + Len(rows)) :
           collected'[i] = IF i <= Len(collected) THEN collected[i] ELSE rows[i - Len(collected)]
  <2>1. /\ collected \o rows \in Seq(FeedOrders) /\ Len(collected \o rows) = Len(collected) + Len(rows)
        /\ \A i \in 1..(Len(collected) + Len(rows)) :
             (collected \o rows)[i] = IF i <= Len(collected) THEN collected[i] ELSE rows[i - Len(collected)]
    BY <1>2, <1>4, ConcatProperties
  <2>2. ToSet(collected \o rows) = ToSet(collected) \cup ToSet(rows)
    BY <1>2, <1>4, SetOfConcat
  <2>3. DOMAIN (collected \o rows) = 1..(Len(collected) + Len(rows))
    BY <2>1, LenProperties
  <2> QED
    BY <1>1, <2>1, <2>2, <2>3
<1>7. FeedTypeOK'
  <2>1. hitches' \subseteq Hitches
    BY <1>1, <1>2 DEF Hitches
  <2>2. page' \in 0..MaxPages /\ mark' \in Nat
    BY <1>1, <1>2, <1>3
  <2>3. walking' \in BOOLEAN
    BY <1>1
  <2> QED
    BY <1>1, <1>6, <2>1, <2>2, <2>3 DEF FeedInv, FeedTypeOK
<1>8. ListIsSound'
  BY <1>1 DEF FeedInv, ListIsSound, ToSet
<1>9. PagesAddUp'
  <2>1. Len(collected) <= page * PageSize /\ Len(rows) \in Nat /\ Len(rows) <= PageSize
    BY <1>2, <1>4 DEF FeedInv, PagesAddUp
  <2>2. Len(collected') <= (page + 1) * PageSize
    <3> HIDE DEF ended, cut
    <3> QED
      BY <1>2, <1>6, <2>1
  <2>3. walking' => page + 1 < MaxPages
    BY <1>1
  <2> QED
    BY <1>1, <2>2, <2>3 DEF PagesAddUp
<1>10. ReadBelow'
  <2> SUFFICES ASSUME market = "amazon" \/ "removed" \notin hitches
               PROVE  /\ market # "amazon" => (page + 1) * PageSize <= start + PageSize
                      /\ \A i \in DOMAIN feed :
                           i <= start + PageSize /\ feed[i] \in there => feed[i] \in ToSet(collected')
    BY <1>1 DEF ReadBelow
  <2>1. start <= mark
    BY <1>2, <1>3 DEF FeedInv, ReadBelow
  <2>2. ASSUME NEW i \in 1..Len(feed), i <= start + PageSize, feed[i] \in there PROVE feed[i] \in ToSet(collected')
    <3>1. CASE i <= start
      BY <1>2, <1>3, <1>6, <2>1, <2>2, <3>1 DEF FeedInv, ReadBelow
    <3>2. CASE start < i
      <4>1. i - start \in 1..Len(rows) /\ start + (i - start) = i
        BY <1>3, <1>4, <2>2, <3>2
      <4>2. rows[i - start] = feed[i]
        BY <1>4, <4>1
      <4> QED
        BY <1>4, <1>6, <4>1, <4>2 DEF ToSet
    <3> QED
      BY <1>3, <3>1, <3>2
  <2> QED
    BY <1>2, <1>3, <2>2
<1>11. UnreadAbove'
  <2> SUFFICES ASSUME market = "amazon" \/ "added" \notin hitches
               PROVE  /\ market # "amazon" => start + PageSize <= (page + 1) * PageSize
                      /\ \A i \in DOMAIN feed : start + PageSize < i => feed[i] \notin ToSet(collected')
                      /\ \A i, j \in DOMAIN collected' : collected'[i] = collected'[j] => i = j
    BY <1>1 DEF UnreadAbove
  <2>1. mark <= start
    BY <1>2, <1>3 DEF FeedInv, UnreadAbove
  <2>2. /\ \A i \in 1..Len(feed) : mark < i => feed[i] \notin ToSet(collected)
        /\ \A i, j \in 1..Len(collected) : collected[i] = collected[j] => i = j
        /\ \A i, j \in 1..Len(feed) : feed[i] = feed[j] => i = j
    BY <1>2 DEF FeedInv, UnreadAbove, ListIsSound
  <2>3. ASSUME NEW k \in 1..Len(rows) PROVE rows[k] \notin ToSet(collected)
    <3>1. start + k \in 1..Len(feed) /\ rows[k] = feed[start + k] /\ mark < start + k
      BY <1>2, <1>3, <1>4, <2>1
    <3> QED
      BY <2>2, <3>1
  <2>4. ASSUME NEW i \in 1..Len(feed), start + PageSize < i PROVE feed[i] \notin ToSet(collected')
    <3>1. feed[i] \notin ToSet(collected)
      BY <1>2, <1>3, <2>1, <2>2, <2>4
    <3>2. ASSUME feed[i] \in ToSet(rows) PROVE FALSE
      <4>1. PICK k \in 1..Len(rows) : feed[i] = rows[k]
        BY <1>4, <3>2 DEF ToSet
      <4>2. start + k \in 1..Len(feed) /\ rows[k] = feed[start + k]
        BY <1>4
      <4>3. start + k <= start + PageSize
        BY <1>2, <1>3, <1>4
      <4> QED
        BY <1>2, <1>3, <2>2, <2>4, <4>1, <4>2, <4>3
    <3> QED
      BY <1>6, <3>1, <3>2
  <2>5. ASSUME NEW i \in 1..(Len(collected) + Len(rows)), NEW j \in 1..(Len(collected) + Len(rows)),
               collected'[i] = collected'[j]
        PROVE  i = j
    <3>1. ASSUME NEW k \in 1..(Len(collected) + Len(rows))
          PROVE  \/ k \in 1..Len(collected) /\ collected'[k] = collected[k] /\ collected[k] \in ToSet(collected)
                 \/ /\ k - Len(collected) \in 1..Len(rows) /\ collected'[k] = rows[k - Len(collected)]
      <4>1. CASE k <= Len(collected)
        BY <1>2, <1>6, <4>1 DEF ToSet
      <4>2. CASE ~(k <= Len(collected))
        BY <1>2, <1>4, <1>6, <4>2
      <4> QED
        BY <4>1, <4>2
    <3>2. CASE i \in 1..Len(collected) /\ j \in 1..Len(collected)
      BY <1>2, <2>2, <2>5, <3>1, <3>2, <1>6
    <3>3. CASE i - Len(collected) \in 1..Len(rows) /\ j - Len(collected) \in 1..Len(rows)
      <4> DEFINE a == i - Len(collected)
                 b == j - Len(collected)
      <4>1. collected'[i] = rows[a] /\ collected'[j] = rows[b]
        BY <1>2, <1>4, <1>6, <3>3
      <4>2. /\ start + a \in 1..Len(feed) /\ rows[a] = feed[start + a]
            /\ start + b \in 1..Len(feed) /\ rows[b] = feed[start + b]
        BY <1>4, <3>3
      <4>3. start + a = start + b
        BY <2>2, <2>5, <4>1, <4>2
      <4> QED
        BY <1>2, <1>3, <4>3
    <3> QED
      BY <2>3, <2>5, <3>1, <3>2, <3>3
  <2> QED
    BY <1>2, <1>3, <1>6, <2>4, <2>5
<1>12. ReadToTheEnd'
  <2> SUFFICES ASSUME ended, hitches' \cap Losses' = {} PROVE Len(feed) <= start + PageSize
    BY <1>1 DEF ReadToTheEnd
  <2>1. "cut" \notin hitches' /\ (market \in Counting => "uncounted" \notin hitches')
    BY <1>1 DEF Losses, Counting
  <2>2. ~cut
    BY <1>1, <2>1
  <2>3. market \in Counting => total # UNCOUNTED
    BY <1>1, <2>1
  <2>4. ~goes /\ (market \in {"shopify", "woocommerce"} => ~(rest > 0))
    BY <2>2
  <2> QED
    BY <1>5, <2>3, <2>4
<1> QED
  BY <1>7, <1>8, <1>9, <1>10, <1>11, <1>12 DEF FeedInv

LEMMA AddKeepsInv ==
  ASSUME FeedInv, NEW i \in 1..(Len(feed) + 1), AddOrder(i)
  PROVE  FeedInv'
<1> DEFINE others == FeedOrders \ (ToSet(feed) \cup ToSet(collected))
           o == CHOOSE x \in others : \A y \in others : x <= y
<1>1. /\ walking /\ shifts < MaxShifts /\ shifts' = shifts + 1 /\ others # {}
      /\ feed' = InsertAt(feed, i, o)
      /\ mark' = IF i <= mark THEN mark + 1 ELSE mark
      /\ hitches' = IF i <= mark THEN hitches \cup {"added"} ELSE hitches
      /\ UNCHANGED <<market, wanted, page, collected, walking, there>>
  BY DEF AddOrder, Shift
<1>2. others \subseteq Nat
  BY FeedAssumption
<1>3. o \in others
  <2>1. \E x \in others : \A y \in others : x <= y
    <3> HIDE DEF others
    <3> QED
      BY <1>1, <1>2, LeastOf
  <2> QED
    BY <2>1
<1>4. o \in FeedOrders /\ o \notin ToSet(feed) /\ o \notin ToSet(collected)
  BY <1>3
<1> HIDE DEF o, others
<1>5. /\ feed \in Seq(FeedOrders) /\ Len(feed) \in Nat /\ DOMAIN feed = 1..Len(feed) /\ mark \in Nat /\ page \in Nat
      /\ PageSize \in Nat /\ page * PageSize \in Nat /\ i \in Nat
  <2>1. feed \in Seq(FeedOrders) /\ mark \in Nat /\ page \in Nat /\ PageSize \in Nat
    BY FeedAssumption DEF FeedInv, FeedTypeOK
  <2>2. Len(feed) \in Nat /\ DOMAIN feed = 1..Len(feed)
    BY <2>1, LenProperties
  <2>3. page * PageSize \in Nat
    BY <2>1
  <2> QED
    BY <2>1, <2>2, <2>3
<1>6. /\ feed' \in Seq(FeedOrders) /\ Len(feed') = Len(feed) + 1 /\ DOMAIN feed' = 1..(Len(feed) + 1)
      /\ feed'[i] = o /\ (\A j \in 1..(i - 1) : feed'[j] = feed[j])
      /\ \A j \in (i + 1)..(Len(feed) + 1) : feed'[j] = feed[j - 1]
  <2>0. feed \in Seq(FeedOrders) /\ o \in FeedOrders
    BY <1>4, <1>5
  <2>1. InsertAt(feed, i, o) \in Seq(FeedOrders)
    BY <2>0, Inserted
  <2>2. Len(InsertAt(feed, i, o)) = Len(feed) + 1
    BY <2>0, Inserted
  <2>3. InsertAt(feed, i, o)[i] = o
    BY <2>0, Inserted
  <2>4. \A j \in 1..(i - 1) : InsertAt(feed, i, o)[j] = feed[j]
    BY <2>0, Inserted
  <2>5. \A j \in (i + 1)..(Len(feed) + 1) : InsertAt(feed, i, o)[j] = feed[j - 1]
    BY <2>0, Inserted
  <2>6. DOMAIN InsertAt(feed, i, o) = 1..(Len(feed) + 1)
    BY <2>1, <2>2, LenProperties
  <2> QED
    BY <1>1, <2>1, <2>6, <2>4, <2>5, <2>2, <2>3
\* Where an entry of the new list comes from.
<1>7. ASSUME NEW j \in 1..(Len(feed) + 1)
      PROVE  \/ j = i /\ feed'[j] = o
             \/ j < i /\ j \in 1..Len(feed) /\ feed'[j] = feed[j]
             \/ j > i /\ j - 1 \in 1..Len(feed) /\ feed'[j] = feed[j - 1]
  BY <1>5, <1>6
<1>8. \A j \in 1..Len(feed) : feed[j] \in ToSet(feed) /\ feed[j] # o
  BY <1>4, <1>5 DEF ToSet
<1>9. FeedTypeOK'
  <2>1. mark' \in Nat /\ shifts' \in 0..MaxShifts /\ hitches' \subseteq Hitches
    BY <1>1, <1>5, FeedAssumption DEF FeedInv, FeedTypeOK, Hitches
  <2> QED
    BY <1>1, <1>6, <2>1 DEF FeedInv, FeedTypeOK
<1>10. ListIsSound'
  <2>1. ASSUME NEW j \in 1..(Len(feed) + 1), NEW k \in 1..(Len(feed) + 1), feed'[j] = feed'[k] PROVE j = k
    <3>1. \A a, b \in 1..Len(feed) : feed[a] = feed[b] => a = b
      BY <1>5 DEF FeedInv, ListIsSound
    <3>2. CASE j = i
      BY <1>7, <1>8, <2>1, <3>2
    <3>3. CASE k = i
      BY <1>7, <1>8, <2>1, <3>3
    <3>4. CASE j < i /\ k < i
      BY <1>7, <2>1, <3>1, <3>4, <1>5
    <3>5. CASE j > i /\ k > i
      <4>1. j - 1 = k - 1
        BY <1>5, <1>7, <2>1, <3>1, <3>5
      <4> QED
        BY <4>1
    <3>6. CASE j < i /\ k > i
      <4>1. j = k - 1
        BY <1>5, <1>7, <2>1, <3>1, <3>6
      <4> QED
        BY <1>5, <3>6, <4>1
    <3>7. CASE j > i /\ k < i
      <4>1. j - 1 = k
        BY <1>5, <1>7, <2>1, <3>1, <3>7
      <4> QED
        BY <1>5, <3>7, <4>1
    <3> QED
      BY <1>5, <3>2, <3>3, <3>4, <3>5, <3>6, <3>7
  <2>2. ASSUME NEW x \in there PROVE x \in ToSet(feed')
    <3>1. PICK j \in 1..Len(feed) : x = feed[j]
      BY <1>5 DEF FeedInv, ListIsSound, ToSet
    <3>2. CASE j < i
      <4>1. j \in 1..(Len(feed) + 1) /\ feed'[j] = feed[j]
        BY <1>5, <1>6, <3>2
      <4> QED
        BY <1>6, <3>1, <4>1 DEF ToSet
    <3>3. CASE ~(j < i)
      <4>1. j + 1 \in 1..(Len(feed) + 1) /\ feed'[j + 1] = feed[j]
        BY <1>5, <1>6, <3>3
      <4> QED
        BY <1>6, <3>1, <4>1 DEF ToSet
    <3> QED
      BY <3>2, <3>3
  <2> QED
    BY <1>1, <1>6, <2>1, <2>2 DEF ListIsSound
<1>11. PagesAddUp' /\ ReadToTheEnd'
  BY <1>1 DEF FeedInv, PagesAddUp, ReadToTheEnd
<1>12. ReadBelow'
  <2> SUFFICES ASSUME market = "amazon" \/ "removed" \notin hitches
               PROVE  /\ market # "amazon" => page * PageSize <= mark'
                      /\ \A j \in 1..(Len(feed) + 1) :
                           j <= mark' /\ feed'[j] \in there => feed'[j] \in ToSet(collected)
    BY <1>1, <1>6 DEF ReadBelow
  <2>1. /\ market # "amazon" => page * PageSize <= mark
        /\ \A j \in 1..Len(feed) : j <= mark /\ feed[j] \in there => feed[j] \in ToSet(collected)
    BY <1>5 DEF FeedInv, ReadBelow
  <2>2. o \notin there
    BY <1>4 DEF FeedInv, ListIsSound
  <2>3. ASSUME NEW j \in 1..(Len(feed) + 1), j <= mark', feed'[j] \in there PROVE feed'[j] \in ToSet(collected)
    <3>1. CASE j < i
      <4>1. j <= mark
        BY <1>1, <1>5, <2>3, <3>1
      <4> QED
        BY <1>5, <1>7, <2>1, <2>3, <3>1, <4>1
    <3>2. CASE j > i
      <4>1. j - 1 <= mark
        BY <1>1, <1>5, <2>3, <3>2
      <4> QED
        BY <1>5, <1>7, <2>1, <2>3, <3>2, <4>1
    <3> QED
      BY <1>5, <1>7, <2>2, <2>3, <3>1, <3>2
  <2> QED
    BY <1>1, <1>5, <2>1, <2>3
<1>13. UnreadAbove'
  <2> SUFFICES ASSUME market = "amazon" \/ "added" \notin hitches'
               PROVE  /\ market # "amazon" => mark' <= page * PageSize
                      /\ \A j \in 1..(Len(feed) + 1) : mark' < j => feed'[j] \notin ToSet(collected)
                      /\ \A j, k \in DOMAIN collected : collected[j] = collected[k] => j = k
    BY <1>1, <1>6 DEF UnreadAbove
  <2>1. market # "amazon" => "added" \notin hitches /\ mark' = mark
    BY <1>1
  <2>2. /\ market # "amazon" => mark <= page * PageSize
        /\ \A j \in 1..Len(feed) : mark < j => feed[j] \notin ToSet(collected)
        /\ \A j, k \in DOMAIN collected : collected[j] = collected[k] => j = k
    BY <1>5, <2>1 DEF FeedInv, UnreadAbove
  <2>3. ASSUME NEW j \in 1..(Len(feed) + 1), mark' < j PROVE feed'[j] \notin ToSet(collected)
    <3>1. CASE j < i
      <4>1. mark < j
        BY <1>1, <1>5, <2>3, <3>1
      <4> QED
        BY <1>5, <1>7, <2>2, <3>1, <4>1
    <3>2. CASE j > i
      <4>1. mark < j - 1
        BY <1>1, <1>5, <2>3, <3>2
      <4> QED
        BY <1>5, <1>7, <2>2, <3>2, <4>1
    <3> QED
      BY <1>4, <1>5, <1>7, <3>1, <3>2
  <2> QED
    BY <2>1, <2>2, <2>3
<1> QED
  BY <1>9, <1>10, <1>11, <1>12, <1>13 DEF FeedInv

LEMMA DropKeepsInv ==
  ASSUME FeedInv, NEW i \in 1..Len(feed), DropOrder(i)
  PROVE  FeedInv'
<1>1. /\ walking /\ shifts < MaxShifts /\ shifts' = shifts + 1
      /\ feed' = RemoveAt(feed, i) /\ there' = there \ {feed[i]}
      /\ mark' = IF i <= mark THEN mark - 1 ELSE mark
      /\ hitches' = IF i <= mark THEN hitches \cup {"removed"} ELSE hitches
      /\ UNCHANGED <<market, wanted, page, collected, walking>>
  BY DEF DropOrder, Shift
<1>2. /\ feed \in Seq(FeedOrders) /\ Len(feed) \in Nat /\ DOMAIN feed = 1..Len(feed) /\ mark \in Nat /\ page \in Nat
      /\ PageSize \in Nat /\ page * PageSize \in Nat /\ i \in Nat
  <2>1. feed \in Seq(FeedOrders) /\ mark \in Nat /\ page \in Nat /\ PageSize \in Nat
    BY FeedAssumption DEF FeedInv, FeedTypeOK
  <2> QED
    BY <2>1, LenProperties
<1>3. /\ feed' \in Seq(FeedOrders) /\ Len(feed') = Len(feed) - 1 /\ DOMAIN feed' = 1..(Len(feed) - 1)
      /\ \A j \in 1..(Len(feed) - 1) : feed'[j] = IF j < i THEN feed[j] ELSE feed[j + 1]
  <2>1. /\ RemoveAt(feed, i) \in Seq(FeedOrders) /\ Len(RemoveAt(feed, i)) = Len(feed) - 1
        /\ \A j \in 1..(Len(feed) - 1) : RemoveAt(feed, i)[j] = IF j < i THEN feed[j] ELSE feed[j + 1]
    BY <1>2, Removed
  <2>2. DOMAIN RemoveAt(feed, i) = 1..(Len(feed) - 1)
    BY <2>1, LenProperties
  <2> QED
    BY <1>1, <2>1, <2>2
<1>4. ASSUME NEW j \in 1..(Len(feed) - 1)
      PROVE  \/ j < i /\ j \in 1..Len(feed) /\ feed'[j] = feed[j]
             \/ j >= i /\ j + 1 \in 1..Len(feed) /\ feed'[j] = feed[j + 1]
  BY <1>2, <1>3
<1>5. \A a, b \in 1..Len(feed) : feed[a] = feed[b] => a = b
  BY <1>2 DEF FeedInv, ListIsSound
<1>6. FeedTypeOK'
  <2>1. mark' \in Nat /\ shifts' \in 0..MaxShifts /\ hitches' \subseteq Hitches
    BY <1>1, <1>2, FeedAssumption DEF FeedInv, FeedTypeOK, Hitches
  <2> QED
    BY <1>1, <1>3, <2>1 DEF FeedInv, FeedTypeOK
<1>7. ListIsSound'
  <2>1. ASSUME NEW j \in 1..(Len(feed) - 1), NEW k \in 1..(Len(feed) - 1), feed'[j] = feed'[k] PROVE j = k
    <3>1. CASE j < i /\ k < i
      BY <1>2, <1>4, <1>5, <2>1, <3>1
    <3>2. CASE j >= i /\ k >= i
      <4>1. j + 1 = k + 1
        BY <1>2, <1>4, <1>5, <2>1, <3>2
      <4> QED
        BY <4>1
    <3>3. CASE j < i /\ k >= i
      <4>1. j = k + 1
        BY <1>2, <1>4, <1>5, <2>1, <3>3
      <4> QED
        BY <1>2, <3>3, <4>1
    <3>4. CASE j >= i /\ k < i
      <4>1. j + 1 = k
        BY <1>2, <1>4, <1>5, <2>1, <3>4
      <4> QED
        BY <1>2, <3>4, <4>1
    <3> QED
      BY <1>2, <3>1, <3>2, <3>3, <3>4
  <2>2. ASSUME NEW x \in there, x # feed[i] PROVE x \in ToSet(feed')
    <3>1. PICK j \in 1..Len(feed) : x = feed[j]
      BY <1>2 DEF FeedInv, ListIsSound, ToSet
    <3>2. CASE j < i
      <4>1. j \in 1..(Len(feed) - 1) /\ feed'[j] = feed[j]
        BY <1>2, <1>3, <3>2
      <4> QED
        BY <1>3, <3>1, <4>1 DEF ToSet
    <3>3. CASE j > i
      <4>1. j - 1 \in 1..(Len(feed) - 1) /\ feed'[j - 1] = feed[j]
        BY <1>2, <1>3, <3>3
      <4> QED
        BY <1>3, <3>1, <4>1 DEF ToSet
    <3> QED
      BY <1>2, <2>2, <3>1, <3>2, <3>3
  <2> QED
    BY <1>1, <1>3, <2>1, <2>2 DEF ListIsSound
<1>8. PagesAddUp' /\ ReadToTheEnd'
  BY <1>1 DEF FeedInv, PagesAddUp, ReadToTheEnd
<1>9. ReadBelow'
  <2> SUFFICES ASSUME market = "amazon" \/ "removed" \notin hitches'
               PROVE  /\ market # "amazon" => page * PageSize <= mark'
                      /\ \A j \in 1..(Len(feed) - 1) :
                           j <= mark' /\ feed'[j] \in there' => feed'[j] \in ToSet(collected)
    BY <1>1, <1>3 DEF ReadBelow
  <2>1. market # "amazon" => "removed" \notin hitches /\ mark' = mark
    BY <1>1
  <2>2. /\ market # "amazon" => page * PageSize <= mark
        /\ \A j \in 1..Len(feed) : j <= mark /\ feed[j] \in there => feed[j] \in ToSet(collected)
    BY <1>2, <2>1 DEF FeedInv, ReadBelow
  <2>3. ASSUME NEW j \in 1..(Len(feed) - 1), j <= mark', feed'[j] \in there' PROVE feed'[j] \in ToSet(collected)
    <3>1. feed'[j] \in there
      BY <1>1, <2>3
    <3>2. CASE j < i
      <4>1. j <= mark
        BY <1>1, <1>2, <2>3, <3>2
      <4> QED
        BY <1>2, <1>4, <2>2, <3>1, <3>2, <4>1
    <3>3. CASE j >= i
      <4>1. j + 1 <= mark
        BY <1>1, <1>2, <2>3, <3>3
      <4> QED
        BY <1>2, <1>4, <2>2, <3>1, <3>3, <4>1
    <3> QED
      BY <1>2, <3>2, <3>3
  <2> QED
    BY <2>1, <2>2, <2>3
<1>10. UnreadAbove'
  <2> SUFFICES ASSUME market = "amazon" \/ "added" \notin hitches
               PROVE  /\ market # "amazon" => mark' <= page * PageSize
                      /\ \A j \in 1..(Len(feed) - 1) : mark' < j => feed'[j] \notin ToSet(collected)
                      /\ \A j, k \in DOMAIN collected : collected[j] = collected[k] => j = k
    BY <1>1, <1>3 DEF UnreadAbove
  <2>1. /\ market # "amazon" => mark <= page * PageSize
        /\ \A j \in 1..Len(feed) : mark < j => feed[j] \notin ToSet(collected)
        /\ \A j, k \in DOMAIN collected : collected[j] = collected[k] => j = k
    BY <1>2 DEF FeedInv, UnreadAbove
  <2>2. ASSUME NEW j \in 1..(Len(feed) - 1), mark' < j PROVE feed'[j] \notin ToSet(collected)
    <3>1. CASE j < i
      <4>1. mark < j
        BY <1>1, <1>2, <2>2, <3>1
      <4> QED
        BY <1>2, <1>4, <2>1, <3>1, <4>1
    <3>2. CASE j >= i
      <4>1. mark < j + 1
        BY <1>1, <1>2, <2>2, <3>2
      <4> QED
        BY <1>2, <1>4, <2>1, <3>2, <4>1
    <3> QED
      BY <1>2, <3>1, <3>2
  <2>3. market # "amazon" => mark' <= page * PageSize
    BY <1>1, <1>2, <2>1
  <2> QED
    BY <2>1, <2>2, <2>3
<1> QED
  BY <1>6, <1>7, <1>8, <1>9, <1>10 DEF FeedInv

LEMMA FeedStepKeepsInv == FeedInv /\ [FeedNext]_feedVars => FeedInv'
<1> SUFFICES ASSUME FeedInv, [FeedNext]_feedVars PROVE FeedInv'
  OBVIOUS
<1>1. ASSUME NEW total \in {Len(feed), UNCOUNTED}, FetchPage(total) PROVE FeedInv'
  BY <1>1, FetchKeepsInv
<1>2. CASE FetchFails
  <2>1. hitches' \subseteq Hitches /\ "failed" \in hitches' /\ ("removed" \in hitches' <=> "removed" \in hitches)
        /\ ("added" \in hitches' <=> "added" \in hitches) /\ walking' \in BOOLEAN /\ ~walking'
        /\ UNCHANGED <<market, wanted, feed, page, collected, mark, shifts, there>>
    BY <1>2 DEF FetchFails, FeedInv, FeedTypeOK, Hitches
  <2>2. FeedTypeOK' /\ ListIsSound' /\ PagesAddUp' /\ ReadBelow' /\ UnreadAbove'
    BY <2>1 DEF FeedInv, FeedTypeOK, ListIsSound, PagesAddUp, ReadBelow, UnreadAbove, ToSet
  <2>3. ReadToTheEnd'
    BY <2>1 DEF ReadToTheEnd, Losses
  <2> QED
    BY <2>2, <2>3 DEF FeedInv
<1>3. ASSUME NEW i \in 1..(Len(feed) + 1), AddOrder(i) PROVE FeedInv'
  BY <1>3, AddKeepsInv
<1>4. ASSUME NEW i \in DOMAIN feed, DropOrder(i) PROVE FeedInv'
  <2>1. i \in 1..Len(feed)
    BY LenProperties DEF FeedInv, FeedTypeOK
  <2> QED
    BY <1>4, <2>1, DropKeepsInv
<1>5. CASE UNCHANGED feedVars
  BY <1>5 DEF feedVars, FeedInv, FeedTypeOK, ListIsSound, PagesAddUp, ReadBelow, UnreadAbove, ReadToTheEnd, Losses,
              Counting, ToSet
<1> QED
  BY <1>1, <1>2, <1>3, <1>4, <1>5 DEF FeedNext

LEMMA FeedInitEstablishesInv == FeedInit => FeedInv
<1> SUFFICES ASSUME FeedInit PROVE FeedInv
  OBVIOUS
<1>1. /\ market \in Markets /\ wanted \in ImportChoices /\ there = ToSet(feed) /\ page = 0 /\ mark = 0 /\ shifts = 0
      /\ collected = << >> /\ walking = TRUE /\ hitches = {}
  BY DEF FeedInit
<1>2. PICK n \in {0} \cup FeedOrders : feed = [j \in 1..n |-> j]
  BY DEF FeedInit
<1>3. n \in Nat /\ 1..n \subseteq FeedOrders /\ PageSize \in Nat /\ MaxPages \in Nat \ {0} /\ MaxShifts \in Nat
  BY FeedAssumption
<1>4. feed \in Seq(FeedOrders) /\ DOMAIN feed = 1..n /\ \A j \in 1..n : feed[j] = j /\ j \in Nat \ {0}
  BY <1>2, <1>3
<1>5. collected \in Seq(FeedOrders) /\ Len(collected) = 0 /\ DOMAIN collected = {} /\ ToSet(collected) = {}
  BY <1>1, EmptySeq DEF ToSet
<1>6. 0 * PageSize = 0
  BY <1>3
<1>7. FeedTypeOK
  BY <1>1, <1>3, <1>4, <1>5 DEF FeedTypeOK, ToSet
<1>8. ListIsSound
  BY <1>1, <1>4 DEF ListIsSound
<1>9. PagesAddUp /\ ReadBelow /\ UnreadAbove /\ ReadToTheEnd
  BY <1>1, <1>3, <1>4, <1>5, <1>6 DEF PagesAddUp, ReadBelow, UnreadAbove, ReadToTheEnd
<1> QED
  BY <1>7, <1>8, <1>9 DEF FeedInv

LEMMA FeedInvHolds == FeedSpec => []FeedInv
BY FeedInitEstablishesInv, FeedStepKeepsInv, PTL DEF FeedSpec

\* A walk's state keeps its type (the fetchOrders methods of the connectors).
THEOREM FeedTypeCorrect == FeedSpec => []FeedTypeOK
BY FeedInvHolds, PTL DEF FeedInv

\* Whatever the page size, the limit on pages and the list, and however the list
\* changes while a connector walks it: each of the fifteen loops reads every order
\* it may not miss, and none twice that it may not repeat.
THEOREM FetchingIsExact == FeedSpec => []FetchIsExact
<1>1. ASSUME FeedInv PROVE FetchMissesNothing
  <2> SUFFICES ASSUME ~walking, hitches \cap Losses = {}, NEW x \in there PROVE x \in ToSet(collected)
    BY DEF FetchMissesNothing
  <2>1. Len(feed) <= mark /\ Len(feed) \in Nat /\ mark \in Nat /\ DOMAIN feed = 1..Len(feed)
    BY <1>1, LenProperties DEF FeedInv, FeedTypeOK, ReadToTheEnd
  <2>2. market = "amazon" \/ "removed" \notin hitches
    BY DEF Losses
  <2>3. PICK i \in 1..Len(feed) : x = feed[i]
    BY <1>1, <2>1 DEF FeedInv, ListIsSound, ToSet
  <2>4. i <= mark
    BY <2>1
  <2> QED
    BY <1>1, <2>1, <2>2, <2>3, <2>4 DEF FeedInv, ReadBelow
<1>2. FeedInv => FetchRepeatsNothing
  BY DEF FeedInv, UnreadAbove, FetchRepeatsNothing
<1> QED
  BY <1>1, <1>2, FeedInvHolds, PTL DEF FetchIsExact

\* Whatever statuses the settings name, each connector's words for the status of
\* an order let its filter keep the orders that are wanted.
THEOREM FilteringKeepsWanted == FeedSpec => []FilterKeepsWanted
<1>1. ASSUME market \in Markets PROVE FilterKeepsWanted
  <2> SUFFICES ASSUME market \notin {"allegro", "ebay", "zalando"}, NEW meaning \in Meanings
               PROVE  /\ /\ SettingsWord(meaning) \in wanted
                         /\ meaning \in Folded => CountedAs(meaning) \in wanted
                         => Kept(meaning)
                      /\ Kept(meaning) /\ wanted # {} /\ market \notin Unfiltered =>
                           SettingsWord(meaning) \in wanted \/ meaning \in Folded
    BY DEF FilterKeepsWanted
  <2>1. CASE market \in Unfiltered
    BY <2>1 DEF Kept
  <2>2. ASSUME market \notin Unfiltered
        PROVE  Word(meaning) = IF meaning \in Folded THEN CountedAs(meaning) ELSE SettingsWord(meaning)
    <3>1. CASE market \in {"trendyol", "hepsiburada"}
      BY <3>1 DEF Word, TrendyolWord, HepsiburadaWord, Folded
    <3>2. CASE market \in {"idefix", "pttavm", "pazarama"}
      BY <3>2 DEF Word, IdefixWord, PttAvmWord, PazaramaWord, WordAmong, SettingsWord, Folded, CountedAs, Meanings
    <3>3. CASE market \in {"n11", "ciceksepeti"}
      BY <3>3 DEF Word, N11Word, CicekSepetiWord, WordAmong, SettingsWord, Folded, CountedAs, Meanings
    <3>4. CASE market = "etsy"
      BY <3>4 DEF Word, EtsyWord, WordAmong, SettingsWord, Folded, CountedAs, Meanings
    <3>5. CASE market = "amazon"
      BY <3>5 DEF Word, AmazonWord, Folded, CountedAs
    <3> QED
      BY <1>1, <2>2, <3>1, <3>2, <3>3, <3>4, <3>5 DEF Markets, Unfiltered
  <2>3. CASE market \notin Unfiltered
    BY <2>2, <2>3 DEF Kept
  <2> QED
    BY <2>1, <2>3
<1>2. FeedInv => market \in Markets
  BY DEF FeedInv, FeedTypeOK
<1> QED
  BY <1>1, <1>2, FeedInvHolds, PTL

-----------------------------------------------------------------------------
(* The settings form.                                                         *)

\* Plain values f and secrets s are what the form may hold: every plain value is
\* shown and none its field refuses, every rule is met.
Sound(f, s) ==
  /\ DOMAIN f \subseteq Known \ Secrets /\ DOMAIN s \subseteq Secrets
  /\ \A key \in DOMAIN f : Shown(key, f) /\ "bad" \notin f[key]
  /\ \A rule \in CrossRules : rule.key \in Known => ValidRule(rule, Overlaid(s, f))

\* The secrets s are texts, but for those of u.
Checked(s, u) ==
  /\ u \subseteq DOMAIN s
  /\ \A key \in DOMAIN s \ u : "bad" \notin s[key]

FormInv == form \in Studied /\ Sound(filled, sealed) /\ Checked(sealed, unchecked)

-----------------------------------------------------------------------------
\* What is merged has the values of the first where it has any.
LEMMA MergedValues ==
  ASSUME NEW f, NEW g
  PROVE  /\ DOMAIN Overlaid(f, g) = DOMAIN f \cup DOMAIN g
         /\ \A key \in DOMAIN f : Overlaid(f, g)[key] = f[key]
         /\ \A key \in DOMAIN g \ DOMAIN f : Overlaid(f, g)[key] = g[key]
BY DEF Overlaid

\* What is left of a function has its values.
LEMMA RestrictedValues ==
  ASSUME NEW f, NEW S
  PROVE  DOMAIN Restrict(f, S) = S /\ \A key \in S : Restrict(f, S)[key] = f[key]
BY DEF Restrict

\* A condition looks at one value, a rule at those of its fields.
LEMMA HoldsReads ==
  ASSUME NEW cond, NEW f, NEW g, At(cond.field, f) = At(cond.field, g)
  PROVE  Holds(cond, f) <=> Holds(cond, g)
BY DEF Holds

LEMMA RuleReads ==
  ASSUME NEW rule, NEW f, NEW g, \A key \in Reads(rule) : At(key, f) = At(key, g)
  PROVE  ValidRule(rule, f) <=> ValidRule(rule, g)
<1>1. \A cond \in rule.when : Holds(cond, f) <=> Holds(cond, g)
  BY HoldsReads DEF Reads
<1>2. At(rule.key, f) = At(rule.key, g) /\ At(rule.other, f) = At(rule.other, g)
  BY DEF Reads
<1> QED
  BY <1>1, <1>2 DEF ValidRule

\* The facts about the tables, of the form that is edited.
LEMMA TableFacts ==
  ASSUME form \in Studied
  PROVE  /\ \A key \in Known : \A cond \in FieldAt(key).when :
              cond.field \in Known =>
                /\ FieldAt(cond.field).when = {} /\ cond.field \notin Secrets
                /\ \/ FieldAt(cond.field).section = FieldAt(key).section
                   \/ Agrees(cond, FieldAt(cond.field).default)
         /\ \A rule \in CrossRules : rule.key \in Known =>
              /\ \A key \in Reads(rule) \cap Known :
                   /\ key \notin Secrets /\ FieldAt(key).section = FieldAt(rule.key).section
                   /\ {cond.field : cond \in FieldAt(key).when} \subseteq Reads(rule)
              /\ ValidRule(rule, << >>)
<1>1. form[1] \in DOMAIN Manifests
  BY FormAssumption
<1>2. GatesOpen(Manifest.fields) /\ RulesFit(Manifest.fields)
  BY <1>1, TablesAssumption DEF Manifest
<1>3. \A key \in Known : key \in Secrets <=> Manifest.fields[key].secret
  BY DEF Secrets, FieldAt
<1>4. \A key : At(key, << >>) = DefaultOf(Manifest.fields, key)
  BY DEF At, DefaultOf, Known, FieldAt
<1>5. ASSUME NEW rule \in CrossRules, rule.key \in Known PROVE ValidRule(rule, << >>)
  BY <1>2, <1>4, <1>5 DEF RulesFit, ValidRule, Holds, Known
<1> QED
  BY <1>2, <1>3, <1>5 DEF GatesOpen, RulesFit, Known, FieldAt

\* A form nobody has filled in is sound.
LEMMA EmptyIsSound == form \in Studied => Sound(<< >>, << >>)
<1> SUFFICES ASSUME form \in Studied PROVE Sound(<< >>, << >>)
  OBVIOUS
<1>1. \A key : At(key, Overlaid(<< >>, << >>)) = At(key, << >>)
  <2>1. Overlaid(<< >>, << >>) = << >>
    BY DEF Overlaid
  <2> QED
    BY <2>1
<1>2. \A rule \in CrossRules : rule.key \in Known => ValidRule(rule, Overlaid(<< >>, << >>))
  BY <1>1, TableFacts, RuleReads
<1> QED
  BY <1>2 DEF Sound

\* Beside the secrets, plain values are read as they are alone.
LEMMA PlainValues ==
  ASSUME NEW f, NEW s, NEW key, DOMAIN f \cap Secrets = {}, DOMAIN s \subseteq Secrets, key \notin Secrets
  PROVE  At(key, Overlaid(s, f)) = At(key, f)
<1>1. key \notin DOMAIN s
  OBVIOUS
<1>2. key \in DOMAIN f => key \in DOMAIN Overlaid(s, f) /\ Overlaid(s, f)[key] = f[key]
  BY <1>1 DEF Overlaid
<1>3. key \notin DOMAIN f => key \notin DOMAIN Overlaid(s, f)
  BY <1>1, MergedValues
<1> QED
  BY <1>2, <1>3 DEF At

LEMMA ShownAmongSecrets ==
  ASSUME form \in Studied, NEW f, NEW s, DOMAIN f \cap Secrets = {}, DOMAIN s \subseteq Secrets, NEW key \in Known
  PROVE  Shown(key, Overlaid(s, f)) <=> Shown(key, f)
<1>1. ASSUME NEW cond \in FieldAt(key).when PROVE At(cond.field, Overlaid(s, f)) = At(cond.field, f)
  <2>1. cond.field \notin Secrets
    BY TableFacts DEF Secrets
  <2> QED
    BY <2>1, PlainValues
<1>2. \A cond \in FieldAt(key).when : Holds(cond, Overlaid(s, f)) <=> Holds(cond, f)
  BY <1>1, HoldsReads
<1> QED
  BY <1>2 DEF Shown

\* Pruning leaves the values of what no condition hides.
LEMMA PrunedValues ==
  ASSUME form \in Studied, NEW f, DOMAIN f \subseteq Known
  PROVE  /\ DOMAIN PruneInvisible(f) \subseteq DOMAIN f
         /\ \A key \in DOMAIN PruneInvisible(f) : PruneInvisible(f)[key] = f[key] /\ Shown(key, f)
         /\ \A key \in DOMAIN f : Shown(key, f) => key \in DOMAIN PruneInvisible(f)
         /\ \A key \in DOMAIN PruneInvisible(f) : Shown(key, PruneInvisible(f))
<1> DEFINE p == PruneInvisible(f)
<1>1. /\ DOMAIN p = {key \in DOMAIN f : Shown(key, f)}
      /\ \A key \in DOMAIN p : p[key] = f[key]
  BY RestrictedValues DEF PruneInvisible
<1> HIDE DEF p
<1>2. ASSUME NEW key \in DOMAIN p PROVE Shown(key, p)
  <2>1. key \in Known /\ Shown(key, f)
    BY <1>1
  <2>2. ASSUME NEW cond \in FieldAt(key).when PROVE At(cond.field, p) = At(cond.field, f)
    <3>1. CASE cond.field \in DOMAIN f
      <4>1. FieldAt(cond.field).when = {}
        BY <2>1, <3>1, TableFacts
      <4>2. cond.field \in DOMAIN p
        BY <1>1, <3>1, <4>1 DEF Shown
      <4> QED
        BY <1>1, <3>1, <4>2 DEF At
    <3>2. CASE cond.field \notin DOMAIN f
      BY <1>1, <3>2 DEF At
    <3> QED
      BY <3>1, <3>2
  <2>3. \A cond \in FieldAt(key).when : Holds(cond, p) <=> Holds(cond, f)
    BY <2>2, HoldsReads
  <2> QED
    BY <2>1, <2>3 DEF Shown
<1> QED
  BY <1>1, <1>2 DEF p

-----------------------------------------------------------------------------
\* What a request may hold.
LEMMA RequestFacts ==
  ASSUME form \in Studied, NEW request \in Requests[form]
  PROVE  \A key \in DOMAIN request : key \in DOMAIN Offers \cap Known /\ request[key] \in Offers[key]
<1>1. Requests[form] = UNION {Holding(keys) : keys \in {ks \in SUBSET Offered(form) : Cardinality(ks) <= MaxKeys}}
  BY DEF Requests
<1>2. PICK keys \in SUBSET Offered(form) : request \in Holding(keys)
  BY <1>1
<1>3. DOMAIN request = keys /\ \A key \in keys : request[key] \in Offers[key]
  BY <1>2 DEF Holding
<1>4. keys \subseteq Offered(form)
  BY <1>2
<1>5. Offered(form) \subseteq DOMAIN Offers \cap Known
  BY DEF Offered, Known, Manifest
<1> QED
  BY <1>3, <1>4, <1>5

LEMMA SaveIsSound ==
  ASSUME FormInv, NEW request \in Requests[form], NEW partial \in BOOLEAN, SaveForm(request, partial)
  PROVE  Sound(filled', sealed') /\ Checked(sealed', unchecked')
<1> DEFINE old == IF partial THEN filled ELSE << >>
           plain == Restrict(request, DOMAIN request \ Secrets)
           userSet == Overlaid(plain, old)
           next == PruneInvisible(userSet)
           new == NewSecrets(request)
           secrets == Overlaid(new, sealed)
           set == Overlaid(secrets, next)
           stored == Overlaid(sealed, filled)
           left == {key \in unchecked \cup DOMAIN new : key \notin DOMAIN request \/ ~Shown(key, set)}
<1>1. /\ filled' = next /\ sealed' = secrets /\ unchecked' = left
      /\ Valid(set, DOMAIN request) /\ form \in Studied
  BY DEF SaveForm, FormInv
<1>2. /\ \A key \in DOMAIN request : key \in DOMAIN Offers \cap Known /\ request[key] \in Offers[key]
      /\ DOMAIN request \subseteq Known
  BY <1>1, RequestFacts
<1>3. /\ DOMAIN filled \subseteq Known \ Secrets /\ DOMAIN sealed \subseteq Secrets
      /\ \A key \in DOMAIN filled : Shown(key, filled) /\ "bad" \notin filled[key]
      /\ unchecked \subseteq DOMAIN sealed /\ \A key \in DOMAIN sealed \ unchecked : "bad" \notin sealed[key]
      /\ \A rule \in CrossRules : rule.key \in Known => ValidRule(rule, stored)
  BY DEF FormInv, Sound, Checked
\* What the user has set, and what is left of it.
<1>4. /\ DOMAIN userSet \subseteq Known \ Secrets
      /\ \A key \in DOMAIN userSet \cap DOMAIN request : userSet[key] = request[key]
      /\ \A key \in DOMAIN userSet \ DOMAIN request :
           partial /\ key \in DOMAIN filled /\ userSet[key] = filled[key]
      /\ partial => \A key \in DOMAIN filled : key \in DOMAIN userSet
      /\ \A key \in DOMAIN request \ Secrets : key \in DOMAIN userSet
  <2>1. DOMAIN plain = DOMAIN request \ Secrets /\ \A key \in DOMAIN plain : plain[key] = request[key]
    BY RestrictedValues
  <2>2. DOMAIN old \subseteq DOMAIN filled /\ (\A key \in DOMAIN old : partial /\ old[key] = filled[key])
        /\ (partial => old = filled)
    OBVIOUS
  <2>3. DOMAIN userSet = DOMAIN plain \cup DOMAIN old
        /\ (\A key \in DOMAIN plain : userSet[key] = plain[key])
        /\ \A key \in DOMAIN old \ DOMAIN plain : userSet[key] = old[key]
    BY DEF Overlaid
  <2> HIDE DEF plain, old, userSet
  <2> QED
    BY <1>2, <1>3, <2>1, <2>2, <2>3
<1>5. /\ DOMAIN next \subseteq DOMAIN userSet
      /\ \A key \in DOMAIN next : next[key] = userSet[key] /\ Shown(key, userSet)
      /\ \A key \in DOMAIN userSet : Shown(key, userSet) => key \in DOMAIN next
      /\ \A key \in DOMAIN next : Shown(key, next)
  <2> HIDE DEF userSet
  <2> QED
    BY <1>1, <1>4, PrunedValues
<1>6. /\ DOMAIN new \subseteq DOMAIN request \cap Secrets /\ \A key \in DOMAIN new : new[key] = request[key]
      /\ DOMAIN secrets = DOMAIN new \cup DOMAIN sealed
      /\ \A key \in DOMAIN new : secrets[key] = new[key]
      /\ \A key \in DOMAIN sealed \ DOMAIN new : secrets[key] = sealed[key]
      /\ DOMAIN secrets \subseteq Secrets
  <2>1. /\ DOMAIN new \subseteq DOMAIN request \cap Secrets
        /\ \A key \in DOMAIN new : new[key] = request[key]
    BY RestrictedValues DEF NewSecrets
  <2>2. /\ DOMAIN secrets = DOMAIN new \cup DOMAIN sealed
        /\ \A key \in DOMAIN new : secrets[key] = new[key]
        /\ \A key \in DOMAIN sealed \ DOMAIN new : secrets[key] = sealed[key]
    BY DEF Overlaid
  <2> HIDE DEF new, secrets
  <2> QED
    BY <1>3, <2>1, <2>2
<1> HIDE DEF next, secrets, userSet, old, plain, new
<1>7. DOMAIN next \cap Secrets = {}
  BY <1>4, <1>5
<1>8. ASSUME NEW key \in DOMAIN next PROVE "bad" \notin next[key]
  <2>1. key \in Known /\ key \notin Secrets /\ Shown(key, next) /\ next[key] = userSet[key]
    BY <1>4, <1>5
  <2>2. CASE key \in DOMAIN request
    <3>1. Shown(key, set) /\ At(key, set) = next[key]
      <4>1. Shown(key, set)
        BY <1>1, <1>6, <1>7, <2>1, ShownAmongSecrets
      <4>2. At(key, set) = At(key, next)
        BY <1>6, <1>7, <2>1, PlainValues
      <4> QED
        BY <4>1, <4>2 DEF At
    <3>2. ValidField(key, set)
      BY <1>1, <2>2, <3>1 DEF Valid
    <3> QED
      BY <3>1, <3>2 DEF ValidField
  <2>3. CASE key \notin DOMAIN request
    BY <1>3, <1>4, <1>5, <2>1, <2>3
  <2> QED
    BY <2>2, <2>3
<1>9. ASSUME NEW rule \in CrossRules, rule.key \in Known PROVE ValidRule(rule, set)
  <2>1. CASE TouchesScope(rule, DOMAIN request)
    BY <1>1, <2>1 DEF Valid
  <2>2. CASE ~TouchesScope(rule, DOMAIN request)
    \* No field of the rule is written: it reads what it has read before.
    <3>1. /\ \A key \in Reads(rule) : key \notin DOMAIN request /\ key \notin Secrets
          /\ \A key \in Reads(rule) \cap Known : {cond.field : cond \in FieldAt(key).when} \subseteq Reads(rule)
          /\ ValidRule(rule, << >>)
      <4>1. \A key \in Reads(rule) : key \notin DOMAIN request
        BY <2>2 DEF TouchesScope
      <4>2. \A key \in Reads(rule) : key \notin Secrets
        BY <1>1, <1>9, TableFacts DEF Secrets
      <4> QED
        BY <1>1, <1>9, <4>1, <4>2, TableFacts
    <3>2. CASE partial
      <4>1. ASSUME NEW key \in Reads(rule) PROVE At(key, userSet) = At(key, filled)
        BY <1>4, <3>1, <3>2 DEF At
      <4>2. ASSUME NEW key \in Reads(rule), key \in DOMAIN filled PROVE key \in DOMAIN next
        <5>1. key \in Known /\ Shown(key, filled) /\ key \in DOMAIN userSet
          BY <1>3, <1>4, <3>2, <4>2
        <5>2. \A cond \in FieldAt(key).when : At(cond.field, userSet) = At(cond.field, filled)
          BY <3>1, <4>1, <4>2, <5>1
        <5>3. \A cond \in FieldAt(key).when : Holds(cond, userSet) <=> Holds(cond, filled)
          BY <5>2, HoldsReads
        <5> QED
          BY <1>5, <5>1, <5>3 DEF Shown
      <4>3. ASSUME NEW key \in Reads(rule) PROVE At(key, next) = At(key, filled)
        BY <1>4, <1>5, <3>1, <4>2 DEF At
      <4>4. ASSUME NEW key \in Reads(rule) PROVE At(key, set) = At(key, stored)
        <5>1. At(key, set) = At(key, next)
          BY <1>6, <1>7, <3>1, PlainValues
        <5>2. At(key, stored) = At(key, filled)
          BY <1>3, <3>1, PlainValues
        <5> QED
          BY <4>3, <5>1, <5>2
      <4> HIDE DEF set, stored
      <4> QED
        BY <1>3, <1>9, <4>4, RuleReads
    <3>3. CASE ~partial
      <4>1. ASSUME NEW key \in Reads(rule) PROVE At(key, set) = At(key, << >>)
        <5>1. At(key, set) = At(key, next)
          BY <1>6, <1>7, <3>1, PlainValues
        <5>2. key \notin DOMAIN next
          BY <1>4, <1>5, <3>1, <3>3
        <5> QED
          BY <5>1, <5>2 DEF At
      <4> HIDE DEF set, stored
      <4> QED
        BY <3>1, <4>1, RuleReads
    <3> QED
      BY <3>2, <3>3
  <2> QED
    BY <2>1, <2>2
<1>10. Sound(next, secrets)
  BY <1>4, <1>5, <1>6, <1>8, <1>9 DEF Sound
\* A secret that is shown when it is written is checked.
<1>11. Checked(secrets, left)
  <2>1. \A key \in DOMAIN secrets : key \in DOMAIN set /\ set[key] = secrets[key]
    BY MergedValues
  <2>2. ASSUME NEW key \in DOMAIN secrets, key \in DOMAIN request, Shown(key, set) PROVE "bad" \notin secrets[key]
    <3>1. At(key, set) = secrets[key]
      BY <2>1, <2>2 DEF At
    <3>2. ValidField(key, set)
      BY <1>1, <2>2 DEF Valid
    <3> QED
      BY <3>1, <3>2 DEF ValidField
  <2> HIDE DEF set
  <2>3. ASSUME NEW key \in DOMAIN secrets, key \notin left PROVE "bad" \notin secrets[key]
    <3>1. CASE key \in DOMAIN new \/ key \in unchecked
      BY <2>2, <2>3, <3>1
    <3>2. CASE key \notin DOMAIN new /\ key \notin unchecked
      BY <1>3, <1>6, <2>3, <3>2
    <3> QED
      BY <3>1, <3>2
  <2>4. left \subseteq DOMAIN secrets
    BY <1>3, <1>6
  <2> HIDE DEF left
  <2> QED
    BY <2>3, <2>4 DEF Checked
<1> QED
  BY <1>1, <1>10, <1>11

\* A reset clears the fields of a rule together, and leaves what it keeps shown.
LEMMA ResetIsSound ==
  ASSUME FormInv, NEW section, ResetSection(section)
  PROVE  Sound(filled', sealed') /\ Checked(sealed', unchecked')
<1> DEFINE f == Restrict(filled, DOMAIN filled \ Cleared(section))
           s == Restrict(sealed, DOMAIN sealed \ Cleared(section))
           stored == Overlaid(sealed, filled)
           left == Overlaid(s, f)
<1>1. filled' = f /\ sealed' = s /\ unchecked' = unchecked \ Cleared(section) /\ form \in Studied
  BY DEF ResetSection, FormInv
<1>2. /\ DOMAIN filled \subseteq Known \ Secrets /\ DOMAIN sealed \subseteq Secrets
      /\ \A key \in DOMAIN filled : Shown(key, filled) /\ "bad" \notin filled[key]
      /\ unchecked \subseteq DOMAIN sealed /\ \A key \in DOMAIN sealed \ unchecked : "bad" \notin sealed[key]
      /\ \A rule \in CrossRules : rule.key \in Known => ValidRule(rule, stored)
  BY DEF FormInv, Sound, Checked
<1>3. /\ DOMAIN f = DOMAIN filled \ Cleared(section) /\ \A key \in DOMAIN f : f[key] = filled[key]
      /\ DOMAIN s = DOMAIN sealed \ Cleared(section) /\ \A key \in DOMAIN s : s[key] = sealed[key]
  BY RestrictedValues
<1> HIDE DEF f, s
<1>4. /\ \A key : key \notin Cleared(section) => At(key, f) = At(key, filled)
      /\ \A key \in Cleared(section) : At(key, f) = At(key, << >>)
  BY <1>3 DEF At
<1>5. \A key : key \in Cleared(section) <=> key \in Known /\ FieldAt(key).section = section
  BY DEF Cleared
<1>6. ASSUME NEW key \in DOMAIN f PROVE Shown(key, f)
  <2>1. key \in Known /\ Shown(key, filled) /\ FieldAt(key).section # section
    BY <1>2, <1>3, <1>5
  <2>2. ASSUME NEW cond \in FieldAt(key).when PROVE Holds(cond, f)
    <3>1. CASE cond.field \in Cleared(section)
      <4>1. cond.field \in Known /\ FieldAt(cond.field).section = section
        BY <1>5, <3>1
      <4>2. Agrees(cond, FieldAt(cond.field).default)
        BY <1>1, <2>1, <4>1, TableFacts
      <4>3. At(cond.field, f) = FieldAt(cond.field).default
        BY <1>4, <3>1, <4>1 DEF At
      <4> QED
        BY <4>2, <4>3 DEF Holds
    <3>2. CASE cond.field \notin Cleared(section)
      <4>1. At(cond.field, f) = At(cond.field, filled)
        BY <1>4, <3>2
      <4>2. Holds(cond, filled)
        BY <2>1 DEF Shown
      <4> QED
        BY <4>1, <4>2, HoldsReads
    <3> QED
      BY <3>1, <3>2
  <2> QED
    BY <2>2 DEF Shown
<1>7. ASSUME NEW rule \in CrossRules, rule.key \in Known PROVE ValidRule(rule, left)
  <2>1. /\ \A key \in Reads(rule) \cap Known :
             key \notin Secrets /\ FieldAt(key).section = FieldAt(rule.key).section
        /\ ValidRule(rule, << >>)
    BY <1>1, <1>7, TableFacts
  <2>2. \A key \in Reads(rule) : key \notin Secrets
    BY <2>1 DEF Secrets
  <2>3. \A key \in Reads(rule) : At(key, left) = At(key, f) /\ At(key, stored) = At(key, filled)
    <3>1. DOMAIN f \cap Secrets = {} /\ DOMAIN s \subseteq Secrets
          /\ DOMAIN filled \cap Secrets = {} /\ DOMAIN sealed \subseteq Secrets
      BY <1>2, <1>3
    <3>2. \A key \in Reads(rule) : At(key, left) = At(key, f)
      BY <2>2, <3>1, PlainValues
    <3>3. \A key \in Reads(rule) : At(key, stored) = At(key, filled)
      BY <2>2, <3>1, PlainValues
    <3> QED
      BY <3>2, <3>3
  <2> HIDE DEF left, stored
  <2>4. CASE FieldAt(rule.key).section = section
    <3>1. ASSUME NEW key \in Reads(rule) PROVE At(key, left) = At(key, << >>)
      <4>1. CASE key \in Known
        BY <1>4, <1>5, <2>1, <2>3, <2>4, <4>1
      <4>2. CASE key \notin Known
        BY <1>2, <1>3, <2>3, <4>2 DEF At
      <4> QED
        BY <4>1, <4>2
    <3> QED
      BY <2>1, <3>1, RuleReads
  <2>5. CASE FieldAt(rule.key).section # section
    <3>1. \A key \in Reads(rule) : key \notin Cleared(section)
      BY <1>5, <2>1, <2>5
    <3>2. \A key \in Reads(rule) : At(key, left) = At(key, stored)
      BY <1>4, <2>3, <3>1
    <3> QED
      BY <1>2, <1>7, <3>2, RuleReads
  <2> QED
    BY <2>4, <2>5
<1>8. Sound(f, s)
  BY <1>2, <1>3, <1>6, <1>7 DEF Sound
<1>9. Checked(s, unchecked \ Cleared(section))
  BY <1>2, <1>3 DEF Checked
<1> QED
  BY <1>1, <1>8, <1>9

-----------------------------------------------------------------------------
\* The form stays, so that what is sound stays sound.
LEMMA SoundnessIsCarried ==
  ASSUME form' = form, form \in Studied, Sound(filled', sealed'), Checked(sealed', unchecked')
  PROVE  FormInv'
<1>1. Manifest' = Manifest
  BY DEF Manifest
<1>2. Known' = Known /\ Secrets' = Secrets /\ \A key : FieldAt(key)' = FieldAt(key)
  BY <1>1 DEF Known, Secrets, FieldAt
<1> QED
  BY <1>1, <1>2 DEF FormInv, Sound, Checked, Shown, Holds, At, FieldAt, Known, Manifest, ValidRule, Overlaid

LEMMA FormStepKeepsInv == FormInv /\ [FormNext]_formVars => FormInv'
<1> SUFFICES ASSUME FormInv, [FormNext]_formVars PROVE FormInv'
  OBVIOUS
<1>1. ASSUME NEW request \in Requests[form], NEW partial \in BOOLEAN, SaveForm(request, partial) PROVE FormInv'
  <2>1. form' = form /\ form \in Studied
    BY <1>1 DEF SaveForm, FormInv
  <2> QED
    BY <1>1, <2>1, SaveIsSound, SoundnessIsCarried
<1>2. ASSUME NEW section, ResetSection(section) PROVE FormInv'
  <2>1. form' = form /\ form \in Studied
    BY <1>2 DEF ResetSection, FormInv
  <2> QED
    BY <1>2, <2>1, ResetIsSound, SoundnessIsCarried
<1>3. ASSUME ResetAll PROVE FormInv'
  <2>1. form' = form /\ form \in Studied /\ filled' = << >> /\ sealed' = << >> /\ unchecked' = {}
    BY <1>3 DEF ResetAll, FormInv
  <2>2. Checked(<< >>, {})
    BY DEF Checked
  <2> QED
    BY <2>1, <2>2, EmptyIsSound, SoundnessIsCarried
<1>4. ASSUME UNCHANGED formVars PROVE FormInv'
  <2>1. /\ form' = form /\ form \in Studied /\ filled' = filled /\ sealed' = sealed /\ unchecked' = unchecked
        /\ Sound(filled, sealed) /\ Checked(sealed, unchecked)
    BY <1>4 DEF formVars, FormInv
  <2> QED
    BY <2>1, SoundnessIsCarried
<1> QED
  BY <1>1, <1>2, <1>3, <1>4 DEF FormNext

LEMMA FormInvHolds == FormSpec => []FormInv
<1>1. FormInit => FormInv
  BY EmptyIsSound DEF FormInit, FormInv, Checked
<1> QED
  BY <1>1, FormStepKeepsInv, PTL DEF FormSpec

\* What the form keeps is of its fields, the secrets apart from the rest
\* (SettingsManifestService.splitSecrets).
THEOREM FormTypeCorrect == FormSpec => []FormTypeOK
<1>1. FormInv => FormTypeOK
  BY DEF FormInv, Sound, Checked, FormTypeOK
<1> QED
  BY <1>1, FormInvHolds, PTL

\* Whatever the order of saves and resets, the stored settings pass every check
\* of a visible value and every rule, and none is hidden
\* (SettingsValidatorService.validate, ConditionEvaluator.pruneInvisible).
THEOREM StoredStaysSound == FormSpec => []StoredIsSound
<1>1. FormInv => SavedIsValid
  <2> SUFFICES ASSUME FormInv PROVE SavedIsValid
    OBVIOUS
  <2> DEFINE stored == Overlaid(sealed, filled)
  <2>1. /\ DOMAIN filled \subseteq Known \ Secrets /\ DOMAIN sealed \subseteq Secrets
        /\ \A key \in DOMAIN filled : "bad" \notin filled[key]
        /\ \A key \in DOMAIN sealed \ unchecked : "bad" \notin sealed[key]
        /\ \A rule \in CrossRules : rule.key \in Known => ValidRule(rule, stored)
    BY DEF FormInv, Sound, Checked
  <2>2. ASSUME NEW key \in DOMAIN stored \ unchecked, stored[key] # {} PROVE ValidField(key, stored)
    <3>1. "bad" \notin stored[key]
      BY <2>1, <2>2 DEF Overlaid
    <3>2. At(key, stored) = stored[key]
      BY DEF At
    <3> HIDE DEF stored
    <3> QED
      BY <2>2, <3>1, <3>2 DEF ValidField
  <2> QED
    BY <2>1, <2>2 DEF SavedIsValid
<1>2. FormInv => HiddenIsForgotten
  BY DEF FormInv, Sound, HiddenIsForgotten
<1> QED
  BY <1>1, <1>2, FormInvHolds, PTL DEF StoredIsSound

-----------------------------------------------------------------------------
(* The wizard.                                                                *)

\* What the tabs demand is on tabs a step leads to.
LedTo(tabs) ==
  \A t \in tabs : \A s \in t.sections : \A f \in s.fields : Demanded(f) => t.id \in BaseWizard

\* The fields added demand what they demand on such tabs.
AddsLedTo(o) == \A a \in o.add : \A f \in a.section.fields : Demanded(f) => a.tab \in BaseWizard

\* Patching moves no field to another tab and takes no default away.
LEMMA PatchingLeads ==
  ASSUME NEW o, NEW tabs, LedTo(tabs)
  PROVE  LedTo(PatchFields(tabs, o))
<1> SUFFICES ASSUME NEW t \in PatchFields(tabs, o), NEW s \in t.sections, NEW f \in s.fields, Demanded(f)
             PROVE  t.id \in BaseWizard
  BY DEF LedTo
<1> DEFINE Patch(fields) == {IF g.key \in o.patch THEN Refilled(g) ELSE g : g \in fields}
<1>1. PICK u \in tabs :
        t = Tab(u.id, u.cap, {[id |-> r.id, when |-> r.when, fields |-> Patch(r.fields)] : r \in u.sections})
  BY DEF PatchFields, OverFields
<1>2. t.id = u.id /\ t.sections = {[id |-> r.id, when |-> r.when, fields |-> Patch(r.fields)] : r \in u.sections}
  BY <1>1 DEF Tab
<1>3. PICK r \in u.sections : s.fields = Patch(r.fields)
  BY <1>2
<1>4. PICK g \in r.fields : f = IF g.key \in o.patch THEN Refilled(g) ELSE g
  BY <1>3
<1>5. Demanded(g)
  BY <1>4 DEF Demanded, Refilled
<1> QED
  BY <1>2, <1>5 DEF LedTo

\* Nor does leaving fields out,
LEMMA OmittingLeads ==
  ASSUME NEW o, NEW tabs, LedTo(tabs)
  PROVE  LedTo(OmitFields(tabs, o))
<1> SUFFICES ASSUME NEW t \in OmitFields(tabs, o), NEW s \in t.sections, NEW f \in s.fields, Demanded(f)
             PROVE  t.id \in BaseWizard
  BY DEF LedTo
<1> DEFINE Left(fields) == {g \in fields : g.key \notin o.omit}
<1>1. PICK u \in tabs :
        t = Tab(u.id, u.cap, {[id |-> r.id, when |-> r.when, fields |-> Left(r.fields)] : r \in u.sections})
  BY DEF OmitFields, OverFields
<1>2. t.id = u.id /\ t.sections = {[id |-> r.id, when |-> r.when, fields |-> Left(r.fields)] : r \in u.sections}
  BY <1>1 DEF Tab
<1>3. PICK r \in u.sections : s.fields = Left(r.fields)
  BY <1>2
<1> QED
  BY <1>2, <1>3 DEF LedTo

\* adding sections that demand nothing elsewhere,
LEMMA AddingLeads ==
  ASSUME NEW o, NEW tabs, LedTo(tabs), AddsLedTo(o)
  PROVE  LedTo(AddSections(tabs, o))
<1> SUFFICES ASSUME NEW t \in AddSections(tabs, o), NEW s \in t.sections, NEW f \in s.fields, Demanded(f)
             PROVE  t.id \in BaseWizard
  BY DEF LedTo
<1>1. PICK u \in tabs : t = Tab(u.id, u.cap, u.sections \cup {a.section : a \in {x \in o.add : x.tab = u.id}})
  BY DEF AddSections
<1>2. t.id = u.id /\ t.sections = u.sections \cup {a.section : a \in {x \in o.add : x.tab = u.id}}
  BY <1>1 DEF Tab
<1> QED
  BY <1>2 DEF LedTo, AddsLedTo

\* asking for capabilities,
LEMMA FilteringLeads ==
  ASSUME NEW o, NEW tabs, LedTo(tabs)
  PROVE  LedTo(FilterByCapabilities(tabs, o))
<1> SUFFICES ASSUME NEW t \in FilterByCapabilities(tabs, o), NEW s \in t.sections, NEW f \in s.fields, Demanded(f)
             PROVE  t.id \in BaseWizard
  BY DEF LedTo
<1> DEFINE Left(fields) == {g \in fields : Allowed(g, o)}
<1>1. PICK u \in tabs :
        t = Tab(u.id, u.cap, {[id |-> r.id, when |-> r.when, fields |-> Left(r.fields)] : r \in u.sections})
  BY DEF FilterByCapabilities, OverFields
<1>2. t.id = u.id /\ t.sections = {[id |-> r.id, when |-> r.when, fields |-> Left(r.fields)] : r \in u.sections}
  BY <1>1 DEF Tab
<1>3. PICK r \in u.sections : s.fields = Left(r.fields)
  BY <1>2
<1> QED
  BY <1>2, <1>3 DEF LedTo

\* or dropping what is empty.
LEMMA DroppingLeads ==
  ASSUME NEW tabs, LedTo(tabs)
  PROVE  LedTo(DropEmpty(tabs))
<1> SUFFICES ASSUME NEW t \in DropEmpty(tabs), NEW s \in t.sections, NEW f \in s.fields, Demanded(f)
             PROVE  t.id \in BaseWizard
  BY DEF LedTo
<1>1. PICK u \in tabs : t = Tab(u.id, u.cap, {r \in u.sections : r.fields # {}})
  BY DEF DropEmpty
<1>2. t.id = u.id /\ t.sections = {r \in u.sections : r.fields # {}}
  BY <1>1 DEF Tab
<1> QED
  BY <1>2 DEF LedTo

\* Where a field of the form comes from.
LEMMA FieldsComeFromTabs ==
  ASSUME NEW tabs, NEW key \in DOMAIN FieldsOf(tabs)
  PROVE  \E t \in tabs : \E s \in t.sections : \E f \in s.fields :
           /\ FieldsOf(tabs)[key].tab = t.id
           /\ FieldsOf(tabs)[key].required = f.required
           /\ FieldsOf(tabs)[key].default = f.default
<1> DEFINE it == FieldsOf(tabs)[key]
<1>1. key \in {f.key : f \in Placed(tabs)} /\ it = CHOOSE f \in Placed(tabs) : f.key = key
  BY DEF FieldsOf
<1>2. it \in Placed(tabs)
  BY <1>1
<1> HIDE DEF it
<1>3. PICK t \in tabs : it \in UNION {{[key |-> f.key, tab |-> t.id, section |-> s.id, default |-> f.default,
                                          required |-> f.required, secret |-> f.secret, when |-> s.when \cup f.when]
                                           : f \in s.fields} : s \in t.sections}
  BY <1>2 DEF Placed
<1>4. PICK s \in t.sections : it \in {[key |-> f.key, tab |-> t.id, section |-> s.id, default |-> f.default,
                                         required |-> f.required, secret |-> f.secret, when |-> s.when \cup f.when]
                                          : f \in s.fields}
  BY <1>3
<1>5. PICK f \in s.fields : it = [key |-> f.key, tab |-> t.id, section |-> s.id, default |-> f.default,
                                  required |-> f.required, secret |-> f.secret, when |-> s.when \cup f.when]
  BY <1>4
<1>6. it.tab = t.id /\ it.required = f.required /\ it.default = f.default
  BY <1>5
<1> QED
  BY <1>6 DEF it

\* Whatever a provider patches, omits, adds and can do: a step of its wizard leads
\* to a tab it has, and a field it demands is on a tab a step leads to, when the
\* fields it adds are (resolveManifest, applyWizardPatch).
THEOREM ResolvedWizardLeads ==
  ASSUME NEW o, AddsLedTo(o)
  PROVE  /\ ResolveManifest(o).wizard \subseteq ResolveManifest(o).tabs
         /\ \A key \in DOMAIN ResolveManifest(o).fields :
              Demanded(ResolveManifest(o).fields[key])
                => ResolveManifest(o).fields[key].tab \in ResolveManifest(o).wizard
<1> DEFINE tabs == TabsOf(o)
<1>1. LedTo(tabs)
  <2>1. LedTo(BaseTabs)
    BY DemandsAssumption DEF LedTo
  <2> QED
    BY <2>1, PatchingLeads, OmittingLeads, AddingLeads, FilteringLeads, DroppingLeads DEF TabsOf
<1>2. /\ ResolveManifest(o).tabs = {t.id : t \in tabs}
      /\ ResolveManifest(o).wizard = BaseWizard \cap {t.id : t \in tabs}
      /\ ResolveManifest(o).fields = FieldsOf(tabs)
  BY DEF ResolveManifest, PruneSteps
<1> HIDE DEF tabs
<1>3. ASSUME NEW key \in DOMAIN FieldsOf(tabs), Demanded(FieldsOf(tabs)[key])
      PROVE  FieldsOf(tabs)[key].tab \in BaseWizard \cap {t.id : t \in tabs}
  <2>1. PICK t \in tabs : \E s \in t.sections : \E f \in s.fields :
               /\ FieldsOf(tabs)[key].tab = t.id
               /\ FieldsOf(tabs)[key].required = f.required
               /\ FieldsOf(tabs)[key].default = f.default
    BY FieldsComeFromTabs
  <2> QED
    BY <1>1, <1>3, <2>1 DEF LedTo, Demanded
<1> QED
  BY <1>2, <1>3

\* The wizard leads to tabs the form has and past every field that must be filled
\* in by hand, whichever registered provider's form it is: Amazon's marketplaces
\* are the one exception (manifest.registry.ts, applyWizardPatch).
THEOREM WizardAlwaysLeads == FormSpec => []WizardLeadsThrough
<1>1. ASSUME NEW p \in DOMAIN Manifests, p # "amazon" PROVE p \in Led
  <2>1. p \in DOMAIN Overrides /\ Manifests[p] = ResolveManifest(Overrides[p])
    BY <1>1 DEF Manifests
  <2>2. AddsLedTo(Overrides[p])
    BY <1>1, <2>1, DemandsAssumption DEF AddsLedTo
  <2>3. /\ Manifests[p].wizard \subseteq Manifests[p].tabs
        /\ \A key \in DOMAIN Manifests[p].fields :
             Demanded(Manifests[p].fields[key]) => Manifests[p].fields[key].tab \in Manifests[p].wizard
    BY <2>1, <2>2, ResolvedWizardLeads
  <2> QED
    BY <1>1, <2>3 DEF Led
<1>2. FormInv => WizardLeadsThrough
  <2> SUFFICES ASSUME FormInv PROVE WizardLeadsThrough
    OBVIOUS
  <2>1. form[1] \in DOMAIN Manifests
    BY FormAssumption DEF FormInv
  <2> QED
    BY <1>1, <2>1 DEF WizardLeadsThrough
<1> QED
  BY <1>2, FormInvHolds, PTL

=============================================================================
