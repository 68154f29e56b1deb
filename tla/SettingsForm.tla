----------------------------- MODULE SettingsForm -----------------------------
(***************************************************************************)
(* The settings of one integration under partial and full saves and resets: *)
(* what a request brings is merged, pruned of what no condition shows, and  *)
(* validated as far as the request reaches.  "bad" stands for a value that  *)
(* the check of its field's type refuses.                                   *)
(***************************************************************************)
EXTENDS FiniteSets, Functions, Integers, SettingsManifest

CONSTANTS
  Studied,  \* the pairs of a provider and a tab that are edited (a bound)
  Offers,   \* the values a request may hold for a key (a bound)
  MaxKeys,  \* the keys a request has values for, at most (a bound)
  MASKED    \* a secret echoed back as it was shown

VARIABLES
  form,     \* the provider and the tab that are edited
  filled,   \* IntegrationSetting.values
  sealed,   \* IntegrationSetting.secretsEncrypted
  unchecked \* history: the secrets written while a condition hid them, and not checked since

formVars == <<form, filled, sealed, unchecked>>

-----------------------------------------------------------------------------
Manifest == Manifests[form[1]]
Known    == DOMAIN Manifest.fields
FieldAt(key) == Manifest.fields[key]

\* The values of f, and those of g that f does not have.
Overlaid(f, g) == [key \in DOMAIN f \cup DOMAIN g |-> IF key \in DOMAIN f THEN f[key] ELSE g[key]]

\* The value of a key: what is set, else the default of its field, else nothing.
At(key, set) ==
  IF key \in DOMAIN set THEN set[key] ELSE IF key \in Known THEN FieldAt(key).default ELSE {}

\* evaluateCondition; a value no field gives differs from every other.
Agrees(cond, actual) ==
  CASE cond.op = "eq"       -> actual = {cond.value}
    [] cond.op = "neq"      -> actual # {cond.value}
    [] cond.op = "contains" -> cond.value \in actual
    [] cond.op = "truthy"   -> actual \notin {{}, {"off"}}

Holds(cond, set) == Agrees(cond, At(cond.field, set))

Shown(key, set) == \A cond \in FieldAt(key).when : Holds(cond, set)

\* Mutant: what is hidden is kept.
KeepAll(set) == set

PruneInvisible(set) == Restrict(set, {key \in DOMAIN set : Shown(key, set)})

ValidField(key, set) ==
  IF At(key, set) = {} THEN ~FieldAt(key).required ELSE "bad" \notin At(key, set)

\* The numbers that prices and markups are given as.
Number(value) == CASE value = {"1"} -> 1 [] value = {"2"} -> 2 [] OTHER -> 0

Meets(rule, value, limit) ==
  CASE rule.needs = "entry"    -> value # {}
    [] rule.needs = "positive" -> Number(value) > 0
    [] rule.needs = "https"    -> value \notin {{}, {"http"}}
    [] rule.needs = "atMost"   -> value = {} \/ limit = {} \/ Number(value) <= Number(limit)

ValidRule(rule, set) ==
  (\A cond \in rule.when : Holds(cond, set)) => Meets(rule, At(rule.key, set), At(rule.other, set))

\* Mutant: a rule is asked only when the value it demands is written.
TouchesTarget(rule, scope) == scope \cap {rule.key, rule.other} # {}

\* The fields a rule reads.
Reads(rule) == {rule.key, rule.other} \cup {cond.field : cond \in rule.when}

TouchesScope(rule, scope) == scope \cap Reads(rule) # {}

\* validate, as far as the keys of the scope reach.
Valid(set, scope) ==
  /\ \A key \in scope : Shown(key, set) => ValidField(key, set)
  /\ \A rule \in CrossRules : TouchesScope(rule, scope) => ValidRule(rule, set)

-----------------------------------------------------------------------------
(* What the tables are like, and the validator relies on.  They are constants:  *)
(* evaluating these decides them.                                               *)

DefaultOf(fields, key) == IF key \in DOMAIN fields THEN fields[key].default ELSE {}

\* What a condition names is no secret and has no condition of its own; a reset
\* clears it together with what it shows, or its default shows that.
GatesOpen(fields) ==
  \A key \in DOMAIN fields : \A cond \in fields[key].when :
    cond.field \in DOMAIN fields =>
      /\ fields[cond.field].when = {} /\ ~fields[cond.field].secret
      /\ \/ fields[cond.field].section = fields[key].section
         \/ Agrees(cond, fields[cond.field].default)

\* The fields of a rule are no secrets, of one section, and hidden by fields of
\* the rule only; the rule holds of their defaults.
RulesFit(fields) ==
  \A rule \in CrossRules : rule.key \in DOMAIN fields =>
    /\ \A key \in Reads(rule) \cap DOMAIN fields :
         /\ ~fields[key].secret /\ fields[key].section = fields[rule.key].section
         /\ {cond.field : cond \in fields[key].when} \subseteq Reads(rule)
    /\ (\A cond \in rule.when : Agrees(cond, DefaultOf(fields, cond.field)))
         => Meets(rule, DefaultOf(fields, rule.key), DefaultOf(fields, rule.other))

ASSUME TablesAssumption ==
  \A p \in DOMAIN Manifests : GatesOpen(Manifests[p].fields) /\ RulesFit(Manifests[p].fields)

\* Forms are of providers.
ASSUME FormAssumption == \A s \in Studied : s[1] \in DOMAIN Manifests

-----------------------------------------------------------------------------
\* The requests that hold a value for each of the keys.
Holding(keys) ==
  {request \in [keys -> UNION {Offers[k] : k \in keys}] : \A k \in keys : request[k] \in Offers[k]}

\* The keys of a tab that a request may hold.
Offered(s) ==
  LET fields == Manifests[s[1]].fields IN {k \in DOMAIN Offers \cap DOMAIN fields : fields[k].tab = s[2]}

\* Every request with values for some keys of the tab.
Requests ==
  [s \in Studied |-> UNION {Holding(keys) : keys \in {ks \in SUBSET Offered(s) : Cardinality(ks) <= MaxKeys}}]

Secrets == {key \in Known : FieldAt(key).secret}

\* splitSecrets: a secret that comes masked, or blank over a stored one, stays.
NewSecrets(request) ==
  Restrict(request, {key \in DOMAIN request \cap Secrets :
                       request[key] # MASKED /\ (request[key] = {} => key \notin DOMAIN sealed)})

\* A partial save adds to what is stored, a full one replaces it; either is
\* refused whole when what it writes is invalid.
SaveForm(request, partial) ==
  LET userSet   == Overlaid(Restrict(request, DOMAIN request \ Secrets), IF partial THEN filled ELSE << >>)
      next      == PruneInvisible(userSet)
      secrets   == Overlaid(NewSecrets(request), sealed)
      effective == Overlaid(secrets, next)
  IN
  /\ Valid(effective, DOMAIN request)
  /\ filled' = next
  /\ sealed' = secrets
  /\ unchecked' = {key \in unchecked \cup DOMAIN NewSecrets(request) :
                    key \notin DOMAIN request \/ ~Shown(key, effective)}
  /\ UNCHANGED form

\* The keys a reset clears.
Cleared(section) == {key \in Known : FieldAt(key).section = section}

ResetSection(section) ==
  /\ filled' = Restrict(filled, DOMAIN filled \ Cleared(section))
  /\ sealed' = Restrict(sealed, DOMAIN sealed \ Cleared(section))
  /\ unchecked' = unchecked \ Cleared(section)
  /\ UNCHANGED form

ResetAll ==
  /\ filled' = << >> /\ sealed' = << >> /\ unchecked' = {}
  /\ UNCHANGED form

FormInit ==
  /\ form \in Studied
  /\ filled = << >> /\ sealed = << >> /\ unchecked = {}

FormNext ==
  \/ \E request \in Requests[form], partial \in BOOLEAN : SaveForm(request, partial)
  \/ \E key \in Known : FieldAt(key).tab = form[2] /\ ResetSection(FieldAt(key).section)
  \/ ResetAll

FormSpec == FormInit /\ [][FormNext]_formVars

-----------------------------------------------------------------------------
FormTypeOK ==
  /\ form \in Studied
  /\ DOMAIN filled \subseteq Known \ Secrets
  /\ DOMAIN sealed \subseteq Secrets /\ unchecked \subseteq DOMAIN sealed

\* Validating only what a request writes is enough: whatever the order of saves
\* and resets, the stored settings as a whole pass every check of a visible value
\* and every rule whose fields the provider has.  Only a secret that was written
\* while a condition hid it may be of no text, until a save names it again.
SavedIsValid ==
  LET stored == Overlaid(sealed, filled) IN
  /\ \A key \in DOMAIN stored \ unchecked : (Shown(key, stored) /\ stored[key] # {}) => ValidField(key, stored)
  /\ \A rule \in CrossRules : rule.key \in Known => ValidRule(rule, stored)

\* No plain value stays stored behind a condition that hides it, to come back
\* when the condition turns: not after a save of the condition's own field, nor
\* after a reset of its section.
HiddenIsForgotten == \A key \in DOMAIN filled : Shown(key, filled)

\* The providers whose wizard leads to tabs they have, and to every field that
\* must be filled in by hand.
Led ==
  {p \in DOMAIN Manifests :
     /\ Manifests[p].wizard \subseteq Manifests[p].tabs
     /\ \A key \in DOMAIN Manifests[p].fields :
          Demanded(Manifests[p].fields[key]) => Manifests[p].fields[key].tab \in Manifests[p].wizard}

\* Whoever follows the wizard comes to a screen at every step and past every
\* field the settings demand.  Amazon's marketplaces are on a tab it passes by.
WizardLeadsThrough == form[1] \in Led \cup {"amazon"}

\* What is stored stays valid and free of hidden values.
StoredIsSound == SavedIsValid /\ HiddenIsForgotten

=============================================================================
