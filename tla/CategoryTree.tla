----------------------------- MODULE CategoryTree -----------------------------
(***************************************************************************)
(* The categories, a tree of each agency, each with a slug of its own among  *)
(* those of one agency, client and store, and the categories the products   *)
(* are filed under.  CategoryService checks the new parent, walks up from   *)
(* it to rule out a cycle and checks the slug, one query after the other,   *)
(* and writes the row in a transaction of its own afterwards; other         *)
(* requests may write between any two of these queries.                     *)
(***************************************************************************)
EXTENDS Integers

CONSTANTS
  Categories,   \* the ids a category can have
  AgencyOf,     \* the agency of a scope: of the agencyId, clientId and storeId of a row
  CategorySlugs,
  Articles,     \* products ...
  ArticleScope, \* ... and the scope they belong to
  Editors,      \* concurrent requests (a bound)
  MaxEdits,     \* requests in all (a bound)
  ROOT,         \* no category: parentId or categoryId is null
  KEEP          \* a field the request does not carry

Scopes == DOMAIN AgencyOf

ASSUME CategoryAssumption ==
  /\ ROOT \notin Categories /\ KEEP \notin Categories \cup CategorySlugs \cup {ROOT}
  /\ ArticleScope \in Scopes /\ MaxEdits \in Nat

VARIABLES
  category,   \* category[c]: the row of c
  shelf,      \* shelf[a]: the category of a product
  editor,     \* editor[u]: what a request has read and checked
  edits,      \* requests begun
  clashes     \* history: what was written over, see Written

categoryVars == <<category, shelf, editor, edits, clashes>>

-----------------------------------------------------------------------------
(* Types *)

Place    == Categories \cup {ROOT}
Category == [state : {"absent", "live", "deleted"}, scope : Scopes,
             parent : Place, slug : CategorySlugs \cup {KEEP}]
Unborn   == [state |-> "absent", scope |-> ArticleScope, parent |-> ROOT, slug |-> KEEP]
Writes   == {"move", "slug", "delete"}

\* since: what others have written since the request began.
Editor ==
  [op : {"none", "create", "edit", "delete", "file"},
   stage : {"idle", "parent", "walk", "slug", "write"},
   cat : Place, scope : Scopes, article : Articles \cup {ROOT}, parent : Place \cup {KEEP},
   named : CategorySlugs \cup {KEEP}, slug : CategorySlugs \cup {KEEP},
   at : Place, visited : SUBSET Categories, since : SUBSET Writes]
Away ==
  [op |-> "none", stage |-> "idle", cat |-> ROOT, scope |-> ArticleScope, article |-> ROOT,
   parent |-> KEEP, named |-> KEEP, slug |-> KEEP, at |-> ROOT, visited |-> {}, since |-> {}]

CategoryTypeOK ==
  /\ category \in [Categories -> Category]
  /\ shelf \in [Articles -> Place]
  /\ editor \in [Editors -> Editor]
  /\ edits \in 0..MaxEdits
  /\ clashes \subseteq Writes

SameAgency(s, t) == AgencyOf[s] = AgencyOf[t]

Live(c) == c \in Categories /\ category[c].state = "live"

-----------------------------------------------------------------------------
(* The steps of a request *)

Advance(u, changed) == editor' = [editor EXCEPT ![u] = changed]

Arrive(u, request) ==
  /\ editor[u].stage = "idle" /\ edits < MaxEdits
  /\ edits' = edits + 1
  /\ Advance(u, request)
  /\ UNCHANGED <<category, shelf, clashes>>

\* u writes and is done; the requests under way learn what it wrote, and what
\* u itself has based its write on that was written meanwhile is a clash.
Written(u, what, trusted) ==
  /\ editor' = [v \in Editors |->
       IF v = u \/ editor[v].stage = "idle" THEN IF v = u THEN Away ELSE editor[v]
       ELSE [editor[v] EXCEPT !.since = @ \cup what]]
  /\ clashes' = clashes \cup (editor[u].since \cap trusted)
  /\ UNCHANGED edits

\* A check throws, or a database call fails.
Refuse(u) ==
  /\ editor[u].stage # "idle"
  /\ Advance(u, Away)
  /\ UNCHANGED <<category, shelf, edits, clashes>>

\* Only a named parent is looked up.
FirstCheck(parent) == IF parent \in {KEEP, ROOT} THEN "slug" ELSE "parent"

StartCreate(u, c, scope, parent, slug) ==
  /\ category[c].state = "absent" /\ \A v \in Editors : editor[v].cat # c
  /\ Arrive(u, [Away EXCEPT !.op = "create", !.stage = FirstCheck(parent), !.cat = c,
                            !.scope = scope, !.parent = parent, !.named = slug])

\* get(): only a category that is not deleted.  The slug it has is kept.
StartEdit(u, c, parent, slug) ==
  /\ Live(c)
  /\ Arrive(u, [Away EXCEPT !.op = "edit", !.stage = FirstCheck(parent), !.cat = c,
                            !.scope = category[c].scope, !.parent = parent,
                            !.named = slug, !.slug = category[c].slug])

StartDelete(u, c) ==
  /\ Live(c)
  /\ Arrive(u, [Away EXCEPT !.op = "delete", !.stage = "write", !.cat = c])

\* A product is created or edited with a category: live and of its agency.
StartFile(u, a, c) ==
  /\ c = ROOT \/ (Live(c) /\ SameAgency(category[c].scope, ArticleScope))
  /\ Arrive(u, [Away EXCEPT !.op = "file", !.stage = "write", !.article = a, !.cat = c])

\* The parent must be live and of the same agency; a move then walks up from it.
CheckParent(u) ==
  LET e == editor[u] IN
  /\ e.stage = "parent" /\ Live(e.parent) /\ SameAgency(category[e.parent].scope, e.scope)
  /\ Advance(u, IF e.op = "edit" THEN [e EXCEPT !.stage = "walk", !.at = e.parent]
                ELSE [e EXCEPT !.stage = "slug"])
  /\ UNCHANGED <<category, shelf, edits, clashes>>

\* Mutant: wouldCreateCycle() looks at the new parent only.
WalkOnce(u) ==
  LET e == editor[u] IN
  /\ e.stage = "walk" /\ e.at # e.cat
  /\ Advance(u, [e EXCEPT !.stage = "slug", !.at = ROOT, !.visited = {}])
  /\ UNCHANGED <<category, shelf, edits, clashes>>

\* wouldCreateCycle(): one query per ancestor, deleted or not, until the root or
\* a category it has already seen.  Meeting the moved category itself is refused.
Walk(u) ==
  LET e == editor[u] IN
  /\ e.stage = "walk" /\ e.at # e.cat
  /\ \/ /\ e.at \in e.visited \cup {ROOT}
        /\ Advance(u, [e EXCEPT !.stage = "slug", !.at = ROOT, !.visited = {}])
     \/ /\ e.at \notin e.visited \cup {ROOT}
        /\ Advance(u, [e EXCEPT !.at = category[e.at].parent, !.visited = @ \cup {e.at}])
  /\ UNCHANGED <<category, shelf, edits, clashes>>

\* Another live category of the same agency, client and store has the slug.
SlugTaken(c, scope, slug) ==
  \E d \in Categories \ {c} : Live(d) /\ category[d].scope = scope /\ category[d].slug = slug

\* Mutant: the slug is only checked when the category is created.
CheckSlugOfNew(u) ==
  LET e == editor[u] IN
  /\ e.stage = "slug"
  /\ e.op = "create" => ~SlugTaken(e.cat, e.scope, e.named)
  /\ Advance(u, [e EXCEPT !.stage = "write", !.slug = IF e.named = KEEP THEN @ ELSE e.named])
  /\ UNCHANGED <<category, shelf, edits, clashes>>

CheckSlug(u) ==
  LET e == editor[u] IN
  /\ e.stage = "slug"
  /\ e.named # KEEP => ~SlugTaken(e.cat, e.scope, e.named)
  /\ Advance(u, [e EXCEPT !.stage = "write", !.slug = IF e.named = KEEP THEN @ ELSE e.named])
  /\ UNCHANGED <<category, shelf, edits, clashes>>

\* The row is written by its id, deleted or not, with the slug checked or read.
SaveCategory(u) ==
  LET e      == editor[u]
      parent == IF e.parent = KEEP THEN category[e.cat].parent ELSE e.parent
      moves  == e.op = "edit" /\ e.parent # KEEP
  IN
  /\ e.stage = "write" /\ e.op \in {"create", "edit"}
  /\ category' = [category EXCEPT ![e.cat] =
       [state |-> IF e.op = "create" THEN "live" ELSE @.state, scope |-> e.scope,
        parent |-> parent, slug |-> e.slug]]
  /\ Written(u, {"slug"} \cup (IF moves THEN {"move"} ELSE {}),
                {"slug"} \cup (IF moves THEN {"move"} ELSE {})
                         \cup (IF e.parent \in {KEEP, ROOT} THEN {} ELSE {"delete"}))
  /\ UNCHANGED shelf

\* Mutant: the products keep the deleted category.
RemoveOnly(u) ==
  LET e == editor[u] IN
  /\ e.stage = "write" /\ e.op = "delete"
  /\ category' = [c \in Categories |->
       IF c = e.cat THEN [category[c] EXCEPT !.state = "deleted"]
       ELSE IF Live(c) /\ category[c].parent = e.cat THEN [category[c] EXCEPT !.parent = ROOT]
       ELSE category[c]]
  /\ Written(u, {"delete"}, {})
  /\ UNCHANGED shelf

\* One transaction: the live children move to the root, the products lose their
\* category and the row is marked deleted.
RemoveCategory(u) ==
  LET e == editor[u] IN
  /\ e.stage = "write" /\ e.op = "delete"
  /\ category' = [c \in Categories |->
       IF c = e.cat THEN [category[c] EXCEPT !.state = "deleted"]
       ELSE IF Live(c) /\ category[c].parent = e.cat THEN [category[c] EXCEPT !.parent = ROOT]
       ELSE category[c]]
  /\ shelf' = [a \in Articles |-> IF shelf[a] = e.cat THEN ROOT ELSE shelf[a]]
  /\ Written(u, {"delete"}, {})

\* The product's row is written; its category is not looked at again.
FileArticle(u) ==
  LET e == editor[u] IN
  /\ e.stage = "write" /\ e.op = "file"
  /\ shelf' = [shelf EXCEPT ![e.article] = e.cat]
  /\ Written(u, {}, IF e.cat = ROOT THEN {} ELSE {"delete"})
  /\ UNCHANGED category

CategoryInit ==
  /\ category = [c \in Categories |-> Unborn]
  /\ shelf = [a \in Articles |-> ROOT]
  /\ editor = [u \in Editors |-> Away]
  /\ edits = 0
  /\ clashes = {}

EditorStep(u) ==
  \/ \E c \in Categories :
       \/ \E parent \in Place \cup {KEEP} :
            \/ \E scope \in Scopes, slug \in CategorySlugs :
                 parent # KEEP /\ StartCreate(u, c, scope, parent, slug)
            \/ \E slug \in CategorySlugs \cup {KEEP} : StartEdit(u, c, parent, slug)
       \/ StartDelete(u, c)
  \/ \E a \in Articles, c \in Place : StartFile(u, a, c)
  \/ CheckParent(u) \/ Walk(u) \/ CheckSlug(u)
  \/ SaveCategory(u) \/ RemoveCategory(u) \/ FileArticle(u)
  \/ Refuse(u)

CategoryNext == \E u \in Editors : EditorStep(u)

CategorySpec == CategoryInit /\ [][CategoryNext]_categoryVars

-----------------------------------------------------------------------------
(* Properties *)

\* No category is its own ancestor, until two moves overlap: each is checked
\* against a tree without the other.
TreeIsAcyclic ==
  "move" \notin clashes =>
    \A group \in SUBSET Categories :
      group # {} => \E c \in group : category[c].parent \notin group

\* A live category has a live parent of its own agency and a product a live
\* category, until something is put under a category whose deletion overlaps.
NothingUnderDeleted ==
  "delete" \notin clashes =>
    /\ \A c \in Categories : Live(c) /\ category[c].parent # ROOT =>
         Live(category[c].parent) /\ SameAgency(category[category[c].parent].scope, category[c].scope)
    /\ \A a \in Articles : shelf[a] # ROOT =>
         Live(shelf[a]) /\ SameAgency(category[shelf[a]].scope, ArticleScope)

\* Two live categories of one scope, the same agency, client and store, have
\* different slugs, until requests that write a slug overlap; every edit does, if
\* only the one it has read.
SlugsDiffer ==
  "slug" \notin clashes => \A c \in Categories : Live(c) => ~SlugTaken(c, category[c].scope, category[c].slug)

\* The tree of an agency stands: no circles in it, and nothing hangs from what is
\* gone.
TreeStands == TreeIsAcyclic /\ NothingUnderDeleted

=============================================================================
