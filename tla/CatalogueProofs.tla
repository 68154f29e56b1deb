----------------------------- MODULE CatalogueProofs -----------------------------
(***************************************************************************)
(* The tree of categories and the SKUs of a store's products, for every set *)
(* of categories, agencies, slugs, products and concurrent requests.        *)
(***************************************************************************)
EXTENDS CategoryTree, ProductCatalogue, TLAPS

-----------------------------------------------------------------------------
(* Part 1.  Categories.                                                       *)

Exists(c) == category[c].state # "absent"

\* The parents of the categories in group are in it, or in rest, or there are none.
Closed(group, rest) ==
  /\ group \subseteq Categories
  /\ \A c \in group : Exists(c) /\ category[c].parent \in group \cup rest \cup {ROOT}

\* What a request e carries fits its stage.
SoundEdit(e) ==
  /\ e.stage = "idle" => e.op = "none"
  /\ e.op \in {"create", "edit", "delete"} => e.cat \in Categories
  /\ e.op = "create" => ~Exists(e.cat) /\ e.parent # KEEP /\ e.named # KEEP
  /\ e.op = "edit" => Exists(e.cat) /\ category[e.cat].scope = e.scope
  /\ e.op = "delete" => Exists(e.cat)
  /\ e.op = "file" => e.article \in Articles
  /\ e.stage \in {"parent", "walk", "slug"} => e.op \in {"create", "edit"}
  /\ e.stage \in {"parent", "walk"} => e.parent \in Categories
  /\ e.stage = "walk" => e.op = "edit"
  /\ e.stage = "parent" => e.visited = {}
  /\ e.op \in {"create", "edit"} /\ e.stage # "parent" /\ e.parent \in Categories => Exists(e.parent)

\* What it has checked holds until something of the kind is written by another.
ParentHolds(e) ==
  e.stage \in {"walk", "slug", "write"} /\ "delete" \notin e.since =>
    /\ e.op \in {"create", "edit"} /\ e.parent \in Categories =>
         Live(e.parent) /\ SameAgency(category[e.parent].scope, e.scope)
    /\ e.op = "file" /\ e.cat # ROOT => Live(e.cat) /\ SameAgency(category[e.cat].scope, ArticleScope)
SlugHolds(e) ==
  /\ "slug" \notin clashes /\ "slug" \notin e.since
  /\ \/ e.stage = "write" /\ e.op \in {"create", "edit"}
     \/ e.op = "edit" /\ e.named = KEEP
  => ~SlugTaken(e.cat, e.scope, e.slug)

\* The walk has been up from the new parent to where it is, and has not met the
\* category; when it is over, the new parent is in a group that has all its
\* ancestors and not the category.
Walking(e) ==
  e.stage = "walk" /\ "move" \notin e.since =>
    /\ e.cat \notin e.visited /\ e.parent \in e.visited \cup {e.at}
    /\ Closed(e.visited, {e.at}) /\ (e.at # ROOT => Exists(e.at))
Walked(e) ==
  e.stage \in {"slug", "write"} /\ e.op = "edit" /\ e.parent \in Categories /\ "move" \notin e.since =>
    \E group \in SUBSET Categories : e.cat \notin group /\ e.parent \in group /\ Closed(group, {})

FitsStage(e) == SoundEdit(e) /\ ParentHolds(e) /\ SlugHolds(e) /\ Walking(e) /\ Walked(e)

OneCreator ==
  \A u, v \in Editors : u # v /\ editor[u].op = "create" => editor[v].cat # editor[u].cat
RowsSound ==
  \A c \in Categories : category[c].parent # ROOT => Exists(c) /\ Exists(category[c].parent)

CategoryInv ==
  /\ CategoryTypeOK /\ (\A u \in Editors : FitsStage(editor[u])) /\ OneCreator /\ RowsSound
  /\ TreeIsAcyclic /\ NothingUnderDeleted /\ SlugsDiffer

-----------------------------------------------------------------------------
LEMMA AwayFits == Away \in Editor /\ FitsStage(Away)
<1>1. Away \in Editor
  BY CategoryAssumption DEF Away, Editor, Place
<1>2. Away.op = "none" /\ Away.stage = "idle"
  BY DEF Away
<1> QED
  BY <1>1, <1>2 DEF FitsStage, SoundEdit, ParentHolds, SlugHolds, Walking, Walked

LEMMA CategoryInitEstablishesInv == CategoryInit => CategoryInv
<1> SUFFICES ASSUME CategoryInit PROVE CategoryInv
  OBVIOUS
<1>1. Unborn \in Category /\ Unborn.parent = ROOT /\ Unborn.state = "absent"
  BY CategoryAssumption DEF Unborn, Category, Place
<1>2. CategoryTypeOK
  BY <1>1, AwayFits, CategoryAssumption DEF CategoryInit, CategoryTypeOK, Place
<1>3. (\A u \in Editors : FitsStage(editor[u])) /\ OneCreator
  BY AwayFits DEF CategoryInit, OneCreator, Away
<1>4. RowsSound /\ TreeIsAcyclic /\ NothingUnderDeleted /\ SlugsDiffer
  BY <1>1, CategoryAssumption DEF CategoryInit, RowsSound, TreeIsAcyclic, NothingUnderDeleted, SlugsDiffer, Live
<1> QED
  BY <1>2, <1>3, <1>4 DEF CategoryInv

\* A step of a request that writes no row leaves the others and the rows alone.
LEMMA AdvanceKeepsInv ==
  ASSUME NEW u \in Editors, NEW changed \in Editor, CategoryInv, Advance(u, changed), FitsStage(changed),
         UNCHANGED <<category, shelf, clashes>>, edits' \in 0..MaxEdits,
         \A v \in Editors \ {u} : /\ changed.op = "create" => editor[v].cat # changed.cat
                                  /\ editor[v].op = "create" => changed.cat # editor[v].cat
  PROVE  CategoryInv'
<1>1. /\ editor' \in [Editors -> Editor] /\ editor'[u] = changed
      /\ \A v \in Editors \ {u} : editor'[v] = editor[v]
  BY DEF Advance, CategoryInv, CategoryTypeOK
<1>2. CategoryTypeOK'
  BY <1>1 DEF CategoryInv, CategoryTypeOK
<1>3. \A v \in Editors : FitsStage(editor'[v])
  BY <1>1 DEF CategoryInv
<1>5. \A v \in Editors : FitsStage(editor[v])'
  BY <1>1, <1>3 DEF FitsStage, SoundEdit, ParentHolds, SlugHolds, SlugTaken, Live, Walking, Walked, Closed, Exists
<1>6. OneCreator'
  BY <1>1 DEF CategoryInv, OneCreator
<1>7. RowsSound' /\ TreeIsAcyclic' /\ NothingUnderDeleted' /\ SlugsDiffer'
  BY DEF CategoryInv, RowsSound, Exists, TreeIsAcyclic, NothingUnderDeleted, SlugsDiffer, SlugTaken, Live
<1> QED
  BY <1>2, <1>5, <1>6, <1>7 DEF CategoryInv

LEMMA StartsKeepInv ==
  ASSUME NEW u \in Editors, NEW changed \in Editor, CategoryInv, Arrive(u, changed), FitsStage(changed),
         \A v \in Editors \ {u} : /\ changed.op = "create" => editor[v].cat # changed.cat
                                  /\ editor[v].op = "create" => changed.cat # editor[v].cat
  PROVE  CategoryInv'
<1>1. edits' \in 0..MaxEdits
  BY CategoryAssumption DEF Arrive, CategoryInv, CategoryTypeOK
<1> QED
  BY <1>1, AdvanceKeepsInv DEF Arrive

LEMMA StartCreateKeepsInv ==
  ASSUME NEW u \in Editors, NEW c \in Categories, NEW scope \in Scopes, NEW parent \in Place,
         NEW slug \in CategorySlugs, CategoryInv, StartCreate(u, c, scope, parent, slug)
  PROVE  CategoryInv'
<1> DEFINE r == [Away EXCEPT !.op = "create", !.stage = FirstCheck(parent), !.cat = c,
                             !.scope = scope, !.parent = parent, !.named = slug]
<1>1. /\ r \in Editor /\ r.op = "create" /\ r.stage = FirstCheck(parent) /\ r.cat = c /\ r.parent = parent
      /\ r.visited = {}
      /\ r.named = slug
  BY CategoryAssumption DEF Away, Editor, Place, FirstCheck
<1>2. Arrive(u, r) /\ ~Exists(c) /\ \A v \in Editors : editor[v].cat # c
  BY DEF StartCreate, Exists
<1> HIDE DEF r
<1>3. FitsStage(r)
  BY <1>1, <1>2, CategoryAssumption
  DEF FitsStage, SoundEdit, ParentHolds, SlugHolds, Walking, Walked, FirstCheck, Place
<1> QED
  BY <1>1, <1>2, <1>3, StartsKeepInv

LEMMA StartEditKeepsInv ==
  ASSUME NEW u \in Editors, NEW c \in Categories, NEW parent \in Place \cup {KEEP},
         NEW slug \in CategorySlugs \cup {KEEP}, CategoryInv, StartEdit(u, c, parent, slug)
  PROVE  CategoryInv'
<1> DEFINE r == [Away EXCEPT !.op = "edit", !.stage = FirstCheck(parent), !.cat = c,
                             !.scope = category[c].scope, !.parent = parent,
                             !.named = slug, !.slug = category[c].slug]
<1>1. /\ r \in Editor /\ r.op = "edit" /\ r.stage = FirstCheck(parent) /\ r.cat = c /\ r.parent = parent
      /\ r.visited = {}
      /\ r.scope = category[c].scope /\ r.slug = category[c].slug
  BY CategoryAssumption DEF Away, Editor, Place, FirstCheck, CategoryInv, CategoryTypeOK, Category
<1>2. Arrive(u, r) /\ Live(c) /\ Exists(c)
  BY DEF StartEdit, Exists, Live
<1> HIDE DEF r
<1>3. "slug" \notin clashes => ~SlugTaken(c, category[c].scope, category[c].slug)
  BY <1>2 DEF CategoryInv, SlugsDiffer
<1>4. FitsStage(r)
  BY <1>1, <1>2, <1>3, CategoryAssumption
  DEF FitsStage, SoundEdit, ParentHolds, SlugHolds, Walking, Walked, FirstCheck, Place
<1>5. \A v \in Editors : editor[v].op = "create" => c # editor[v].cat
  BY <1>2 DEF CategoryInv, FitsStage, SoundEdit
<1> QED
  BY <1>1, <1>2, <1>4, <1>5, StartsKeepInv

LEMMA StartDeleteKeepsInv ==
  ASSUME NEW u \in Editors, NEW c \in Categories, CategoryInv, StartDelete(u, c)
  PROVE  CategoryInv'
<1> DEFINE r == [Away EXCEPT !.op = "delete", !.stage = "write", !.cat = c]
<1>1. r \in Editor /\ r.op = "delete" /\ r.stage = "write" /\ r.cat = c
  BY CategoryAssumption DEF Away, Editor, Place
<1>2. Arrive(u, r) /\ Exists(c)
  BY DEF StartDelete, Exists, Live
<1> HIDE DEF r
<1>3. FitsStage(r)
  BY <1>1, <1>2 DEF FitsStage, SoundEdit, ParentHolds, SlugHolds, Walking, Walked
<1>4. \A v \in Editors : editor[v].op = "create" => c # editor[v].cat
  BY <1>2 DEF CategoryInv, FitsStage, SoundEdit
<1> QED
  BY <1>1, <1>2, <1>3, <1>4, StartsKeepInv

LEMMA StartFileKeepsInv ==
  ASSUME NEW u \in Editors, NEW a \in Articles, NEW c \in Place, CategoryInv, StartFile(u, a, c)
  PROVE  CategoryInv'
<1> DEFINE r == [Away EXCEPT !.op = "file", !.stage = "write", !.article = a, !.cat = c]
<1>1. r \in Editor /\ r.op = "file" /\ r.stage = "write" /\ r.cat = c /\ r.article = a
  BY CategoryAssumption DEF Away, Editor, Place
<1>2. Arrive(u, r) /\ (c # ROOT => Live(c) /\ SameAgency(category[c].scope, ArticleScope))
  BY DEF StartFile
<1> HIDE DEF r
<1>3. FitsStage(r)
  BY <1>1, <1>2 DEF FitsStage, SoundEdit, ParentHolds, SlugHolds, Walking, Walked
<1>4. \A v \in Editors : editor[v].op = "create" => c # editor[v].cat
  BY <1>2, CategoryAssumption DEF CategoryInv, FitsStage, SoundEdit, Exists, Live
<1> QED
  BY <1>1, <1>2, <1>3, <1>4, StartsKeepInv

\* A check that succeeds changes the stage and what the walk has seen.
LEMMA CheckKeepsInv ==
  ASSUME NEW u \in Editors, NEW changed \in Editor, CategoryInv, Advance(u, changed), FitsStage(changed),
         changed.op = editor[u].op, changed.cat = editor[u].cat,
         UNCHANGED <<category, shelf, edits, clashes>>
  PROVE  CategoryInv'
BY AdvanceKeepsInv DEF CategoryInv, CategoryTypeOK, OneCreator

LEMMA CheckParentKeepsInv ==
  ASSUME NEW u \in Editors, CategoryInv, CheckParent(u)
  PROVE  CategoryInv'
<1> DEFINE e == editor[u]
<1>1. /\ e \in Editor /\ FitsStage(e) /\ e.stage = "parent" /\ e.op \in {"create", "edit"} /\ e.parent \in Categories
      /\ e.visited = {}
      /\ Live(e.parent) /\ SameAgency(category[e.parent].scope, e.scope) /\ Exists(e.parent)
      /\ UNCHANGED <<category, shelf, edits, clashes>>
  BY DEF CheckParent, CategoryInv, CategoryTypeOK, FitsStage, SoundEdit, Live, Exists
<1>2. CASE e.op = "edit"
  <2> DEFINE r == [e EXCEPT !.stage = "walk", !.at = e.parent]
  <2>1. /\ r \in Editor /\ r.op = "edit" /\ r.stage = "walk" /\ r.at = e.parent /\ r.cat = e.cat
        /\ r.scope = e.scope /\ r.parent = e.parent /\ r.named = e.named /\ r.slug = e.slug
        /\ r.visited = e.visited /\ r.since = e.since
    BY <1>1, <1>2 DEF Editor, Place
  <2>2. Advance(u, r)
    BY <1>2 DEF CheckParent
  <2> HIDE DEF r
  <2>3. SoundEdit(r) /\ ParentHolds(r) /\ SlugHolds(r) /\ Walked(r)
    BY <1>1, <1>2, <2>1 DEF FitsStage, SoundEdit, ParentHolds, SlugHolds, Walked
  <2>4. Walking(r)
    BY <1>1, <2>1 DEF Walking, Closed, FitsStage, SoundEdit
  <2> QED
    BY <1>1, <1>2, <2>1, <2>2, <2>3, <2>4, CheckKeepsInv DEF FitsStage
<1>3. CASE e.op = "create"
  <2> DEFINE r == [e EXCEPT !.stage = "slug"]
  <2>1. /\ r \in Editor /\ r.op = "create" /\ r.stage = "slug" /\ r.cat = e.cat
        /\ r.scope = e.scope /\ r.parent = e.parent /\ r.named = e.named /\ r.since = e.since
    BY <1>1, <1>3 DEF Editor
  <2>2. Advance(u, r)
    BY <1>3 DEF CheckParent
  <2> HIDE DEF r
  <2>3. FitsStage(r)
    BY <1>1, <1>3, <2>1 DEF FitsStage, SoundEdit, ParentHolds, SlugHolds, Walking, Walked
  <2> QED
    BY <1>1, <1>3, <2>1, <2>2, <2>3, CheckKeepsInv
<1> QED
  BY <1>1, <1>2, <1>3

LEMMA WalkKeepsInv ==
  ASSUME NEW u \in Editors, CategoryInv, Walk(u)
  PROVE  CategoryInv'
<1> DEFINE e == editor[u]
<1>1. /\ e \in Editor /\ FitsStage(e) /\ e.stage = "walk" /\ e.op = "edit" /\ e.parent \in Categories
      /\ e.at # e.cat /\ UNCHANGED <<category, shelf, edits, clashes>>
  BY DEF Walk, CategoryInv, CategoryTypeOK, FitsStage, SoundEdit
<1>2. CASE e.at \in e.visited \cup {ROOT}
  <2> DEFINE r == [e EXCEPT !.stage = "slug", !.at = ROOT, !.visited = {}]
  <2>1. /\ r \in Editor /\ r.op = "edit" /\ r.stage = "slug" /\ r.cat = e.cat
        /\ r.scope = e.scope /\ r.parent = e.parent /\ r.named = e.named /\ r.slug = e.slug
        /\ r.visited = {} /\ r.since = e.since
    BY <1>1 DEF Editor, Place
  <2>2. Advance(u, r)
    BY <1>2 DEF Walk
  <2> HIDE DEF r
  <2>3. SoundEdit(r) /\ ParentHolds(r) /\ SlugHolds(r) /\ Walking(r)
    BY <1>1, <2>1 DEF FitsStage, SoundEdit, ParentHolds, SlugHolds, Walking
  <2>4. Walked(r)
    <3> SUFFICES ASSUME "move" \notin e.since
                 PROVE  \E group \in SUBSET Categories : e.cat \notin group /\ e.parent \in group /\ Closed(group, {})
      BY <2>1 DEF Walked
    <3>1. /\ e.cat \notin e.visited /\ e.parent \in e.visited \cup {e.at} /\ Closed(e.visited, {e.at})
      BY <1>1 DEF FitsStage, Walking
    <3>2. e.parent \in e.visited /\ Closed(e.visited, {}) /\ e.visited \in SUBSET Categories
      BY <1>1, <1>2, <3>1, CategoryAssumption DEF Closed
    <3> QED
      BY <3>1, <3>2
  <2> QED
    BY <1>1, <2>1, <2>2, <2>3, <2>4, CheckKeepsInv DEF FitsStage
<1>3. CASE e.at \notin e.visited \cup {ROOT}
  <2> DEFINE r == [e EXCEPT !.at = category[e.at].parent, !.visited = @ \cup {e.at}]
  <2>0. e.at \in Categories /\ category[e.at].parent \in Place
    BY <1>1, <1>3 DEF Editor, Place, CategoryInv, CategoryTypeOK, Category
  <2>1. /\ r \in Editor /\ r.op = "edit" /\ r.stage = "walk" /\ r.cat = e.cat
        /\ r.scope = e.scope /\ r.parent = e.parent /\ r.named = e.named /\ r.slug = e.slug
        /\ r.visited = e.visited \cup {e.at} /\ r.at = category[e.at].parent /\ r.since = e.since
    BY <1>1, <2>0 DEF Editor
  <2>2. Advance(u, r)
    BY <1>3 DEF Walk
  <2> HIDE DEF r
  <2>3. SoundEdit(r) /\ ParentHolds(r) /\ SlugHolds(r) /\ Walked(r)
    BY <1>1, <2>1 DEF FitsStage, SoundEdit, ParentHolds, SlugHolds, Walked
  <2>4. Walking(r)
    <3> SUFFICES ASSUME "move" \notin e.since
                 PROVE  /\ e.cat \notin r.visited /\ e.parent \in r.visited \cup {r.at}
                        /\ Closed(r.visited, {r.at}) /\ (r.at # ROOT => Exists(r.at))
      BY <2>1 DEF Walking
    <3>1. /\ e.cat \notin e.visited /\ e.parent \in e.visited \cup {e.at} /\ Closed(e.visited, {e.at})
          /\ Exists(e.at)
      BY <1>1, <1>3 DEF FitsStage, Walking
    <3>2. r.at # ROOT => Exists(r.at)
      BY <2>0, <2>1 DEF CategoryInv, RowsSound
    <3> QED
      BY <1>1, <2>0, <2>1, <3>1, <3>2 DEF Closed
  <2> QED
    BY <1>1, <2>1, <2>2, <2>3, <2>4, CheckKeepsInv DEF FitsStage
<1> QED
  BY <1>2, <1>3

LEMMA CheckSlugKeepsInv ==
  ASSUME NEW u \in Editors, CategoryInv, CheckSlug(u)
  PROVE  CategoryInv'
<1> DEFINE e == editor[u]
           r == [e EXCEPT !.stage = "write", !.slug = IF e.named = KEEP THEN @ ELSE e.named]
<1>1. /\ e \in Editor /\ FitsStage(e) /\ e.stage = "slug" /\ e.op \in {"create", "edit"}
      /\ (e.named # KEEP => ~SlugTaken(e.cat, e.scope, e.named))
      /\ Advance(u, r) /\ UNCHANGED <<category, shelf, edits, clashes>>
  BY DEF CheckSlug, CategoryInv, CategoryTypeOK, FitsStage, SoundEdit
<1>2. /\ r \in Editor /\ r.op = e.op /\ r.stage = "write" /\ r.cat = e.cat
      /\ r.scope = e.scope /\ r.parent = e.parent /\ r.named = e.named /\ r.since = e.since
      /\ r.slug = IF e.named = KEEP THEN e.slug ELSE e.named
  BY <1>1 DEF Editor
<1> HIDE DEF r
<1>3. SoundEdit(r) /\ ParentHolds(r) /\ Walking(r) /\ Walked(r)
  BY <1>1, <1>2 DEF FitsStage, SoundEdit, ParentHolds, Walking, Walked
<1>4. SlugHolds(r)
  BY <1>1, <1>2 DEF FitsStage, SoundEdit, SlugHolds
<1> QED
  BY <1>1, <1>2, <1>3, <1>4, CheckKeepsInv DEF FitsStage

LEMMA RefuseKeepsInv ==
  ASSUME NEW u \in Editors, CategoryInv, Refuse(u)
  PROVE  CategoryInv'
<1>1. edits' \in 0..MaxEdits /\ Advance(u, Away) /\ UNCHANGED <<category, shelf, clashes>>
  BY DEF Refuse, CategoryInv, CategoryTypeOK
<1>2. \A v \in Editors : editor[v].op = "create" => editor[v].cat # ROOT
  BY CategoryAssumption DEF CategoryInv, FitsStage, SoundEdit
<1> QED
  BY <1>1, <1>2, AwayFits, AdvanceKeepsInv DEF Away

\* What the requests under way keep of a write by u.
SameRequest(v) ==
  /\ editor'[v].op = editor[v].op /\ editor'[v].stage = editor[v].stage /\ editor'[v].cat = editor[v].cat
  /\ editor'[v].scope = editor[v].scope /\ editor'[v].article = editor[v].article
  /\ editor'[v].parent = editor[v].parent /\ editor'[v].named = editor[v].named
  /\ editor'[v].slug = editor[v].slug /\ editor'[v].at = editor[v].at /\ editor'[v].visited = editor[v].visited

LEMMA WrittenEffect ==
  ASSUME NEW u \in Editors, NEW what \in SUBSET Writes, NEW trusted \in SUBSET Writes,
         CategoryTypeOK, Written(u, what, trusted)
  PROVE  /\ editor' \in [Editors -> Editor] /\ editor'[u] = Away
         /\ \A v \in Editors \ {u} : SameRequest(v) /\ editor[v].since \subseteq editor'[v].since
         /\ \A v \in Editors \ {u} : editor[v].stage # "idle" => what \subseteq editor'[v].since
         /\ clashes' \in SUBSET Writes /\ clashes \subseteq clashes' /\ edits' = edits
         /\ \A w \in trusted : w \in editor[u].since => w \in clashes'
<1>1. ASSUME NEW v \in Editors \ {u}, editor[v].stage = "idle"
      PROVE  editor'[v] = editor[v]
  BY <1>1 DEF Written
<1>2. ASSUME NEW v \in Editors \ {u}, editor[v].stage # "idle"
      PROVE  /\ editor'[v] \in Editor /\ SameRequest(v)
             /\ editor'[v].since = editor[v].since \cup what
  <2>1. editor'[v] = [editor[v] EXCEPT !.since = @ \cup what] /\ editor[v] \in Editor
    BY <1>2 DEF Written, CategoryTypeOK
  <2> QED
    BY <2>1 DEF Editor, SameRequest
<1>3. editor'[u] = Away
  BY DEF Written
<1>4. ASSUME NEW v \in Editors
      PROVE  editor'[v] \in Editor
  BY <1>1, <1>2, <1>3, AwayFits DEF CategoryTypeOK
<1>5. editor' \in [Editors -> Editor]
  BY <1>4 DEF Written
<1> QED
  BY <1>1, <1>2, <1>3, <1>5 DEF Written, CategoryTypeOK, SameRequest

LEMMA SaveCategoryKeepsInv ==
  ASSUME NEW u \in Editors, CategoryInv, SaveCategory(u)
  PROVE  CategoryInv'
<1> DEFINE e       == editor[u]
           moves   == e.op = "edit" /\ e.parent # KEEP
           what    == {"slug"} \cup (IF moves THEN {"move"} ELSE {})
           trusted == what \cup (IF e.parent \in {KEEP, ROOT} THEN {} ELSE {"delete"})
           parent  == IF e.parent = KEEP THEN category[e.cat].parent ELSE e.parent
           row     == category'[e.cat]
<1>1. /\ e \in Editor /\ FitsStage(e) /\ e.stage = "write" /\ e.op \in {"create", "edit"} /\ e.cat \in Categories
      /\ parent \in Place
  BY DEF SaveCategory, CategoryInv, CategoryTypeOK, Category, Editor, FitsStage, SoundEdit
<1>2. /\ what \in SUBSET Writes /\ trusted \in SUBSET Writes /\ Written(u, what, trusted) /\ UNCHANGED shelf
  BY DEF SaveCategory, Writes
<1>2a. /\ "slug" \in what /\ (moves => "move" \in what)
       /\ "slug" \in trusted /\ (moves => "move" \in trusted)
       /\ e.parent \notin {KEEP, ROOT} => "delete" \in trusted
  OBVIOUS
<1> HIDE DEF what, trusted
<1>3. /\ editor' \in [Editors -> Editor] /\ editor'[u] = Away
      /\ \A v \in Editors \ {u} : SameRequest(v) /\ editor[v].since \subseteq editor'[v].since
      /\ \A v \in Editors \ {u} : editor[v].stage # "idle" =>
           "slug" \in editor'[v].since /\ (moves => "move" \in editor'[v].since)
      /\ clashes' \in SUBSET Writes /\ clashes \subseteq clashes' /\ edits' = edits
      /\ \A w \in trusted : w \in e.since => w \in clashes'
  <2>1. /\ \A v \in Editors \ {u} : editor[v].stage # "idle" => what \subseteq editor'[v].since
        /\ editor' \in [Editors -> Editor] /\ editor'[u] = Away
        /\ \A v \in Editors \ {u} : SameRequest(v) /\ editor[v].since \subseteq editor'[v].since
        /\ clashes' \in SUBSET Writes /\ clashes \subseteq clashes' /\ edits' = edits
        /\ \A w \in trusted : w \in e.since => w \in clashes'
    BY <1>2, WrittenEffect DEF CategoryInv
  <2>2. ASSUME NEW v \in Editors \ {u}, editor[v].stage # "idle"
        PROVE  "slug" \in editor'[v].since
    BY <1>2a, <2>1, <2>2
  <2>3. ASSUME NEW v \in Editors \ {u}, editor[v].stage # "idle", moves
        PROVE  "move" \in editor'[v].since
    BY <1>2a, <2>1, <2>3
  <2> QED
    BY <2>1, <2>2, <2>3
<1>4. /\ category' = [category EXCEPT ![e.cat] = row]
      /\ row.state = IF e.op = "create" THEN "live" ELSE category[e.cat].state
      /\ row.scope = e.scope /\ row.parent = parent /\ row.slug = e.slug /\ row \in Category
  BY <1>1 DEF SaveCategory, CategoryInv, CategoryTypeOK, Category, Editor
<1>5. /\ category' \in [Categories -> Category] /\ category'[e.cat] = row
      /\ \A c \in Categories \ {e.cat} : category'[c] = category[c]
  BY <1>1, <1>4 DEF CategoryInv, CategoryTypeOK
<1>6. /\ parent # ROOT => Exists(parent) /\ parent \in Categories
      /\ Exists(e.cat) => row.scope = category[e.cat].scope /\ row.state = category[e.cat].state
      /\ Exists(e.cat) <=> e.op = "edit"
  BY <1>1, <1>4 DEF FitsStage, SoundEdit, CategoryInv, RowsSound, Place, Exists
<1>7. /\ row.state # "absent" /\ (Live(e.cat) => row.state = "live")
      /\ row.state = "live" => Live(e.cat) \/ e.op = "create"
      /\ \A c \in Categories : Exists(c) => Exists(c)'
  BY <1>1, <1>4, <1>5, <1>6 DEF Exists, Live
<1> HIDE DEF e, parent, row
<1>8. CategoryTypeOK'
  BY <1>2, <1>3, <1>5 DEF CategoryInv, CategoryTypeOK
<1>9. OneCreator'
  <2>1. \A v \in Editors : editor'[v].cat \in {editor[v].cat, ROOT}
    BY <1>3 DEF SameRequest, Away
  <2>2. \A v \in Editors : editor'[v].op = "create" =>
          v # u /\ editor[v].op = "create" /\ editor'[v].cat = editor[v].cat /\ editor[v].cat \in Categories
    BY <1>3 DEF SameRequest, Away, CategoryInv, FitsStage, SoundEdit
  <2> QED
    BY <2>1, <2>2, CategoryAssumption DEF CategoryInv, OneCreator
<1>10. RowsSound'
  BY <1>1, <1>4, <1>5, <1>6, <1>7 DEF CategoryInv, RowsSound, Exists, Place
<1>11. \A v \in Editors \ {u} : editor[v].op = "create" => editor[v].cat # e.cat
  BY DEF CategoryInv, OneCreator, e
<1>12. ASSUME NEW v \in Editors \ {u}
       PROVE  FitsStage(editor[v])'
  <2> DEFINE f == editor[v]
  <2>1. /\ f \in Editor /\ FitsStage(f) /\ SameRequest(v) /\ f.since \subseteq f'.since
        /\ (f.stage # "idle" => "slug" \in f'.since /\ (moves => "move" \in f'.since))
    BY <1>3 DEF CategoryInv, CategoryTypeOK
  <2>2. SoundEdit(f)'
    BY <2>1, <1>1, <1>4, <1>5, <1>6, <1>7, <1>11 DEF FitsStage, SoundEdit, SameRequest, Exists
  <2>3. ParentHolds(f)'
    BY <2>1, <1>1, <1>4, <1>5, <1>6, <1>7 DEF FitsStage, ParentHolds, SameRequest, Live, Exists
  <2>4. SlugHolds(f)'
    BY <2>1 DEF FitsStage, SoundEdit, SlugHolds, SameRequest
  <2>5. ASSUME NEW group \in SUBSET Categories, NEW rest, Closed(group, rest), ~moves
        PROVE  Closed(group, rest)'
    BY <1>1, <1>4, <1>5, <1>6, <1>7, <2>5 DEF Closed, Exists, parent
  <2>6. Walking(f)'
    BY <2>1, <2>5, <1>7 DEF FitsStage, Walking, SameRequest, Closed, Editor, Place
  <2>7. Walked(f)'
    BY <2>1, <2>5 DEF FitsStage, Walked, SameRequest
  <2> QED
    BY <2>2, <2>3, <2>4, <2>6, <2>7 DEF FitsStage
<1>13. FitsStage(editor[u])'
  BY <1>3, AwayFits DEF FitsStage, SoundEdit, ParentHolds, SlugHolds, Walking, Walked, Away
<1>14. TreeIsAcyclic'
  <2> SUFFICES ASSUME "move" \notin clashes', NEW group \in SUBSET Categories, group # {}
               PROVE  \E c \in group : category'[c].parent \notin group
    BY DEF TreeIsAcyclic
  <2>1. \A some \in SUBSET Categories : some # {} => \E c \in some : category[c].parent \notin some
    BY <1>3 DEF CategoryInv, TreeIsAcyclic
  <2>2. CASE e.cat \notin group \/ parent = category[e.cat].parent
    BY <2>1, <2>2, <1>4, <1>5
  <2>3. CASE e.cat \in group /\ parent = ROOT
    BY <2>3, <1>4, <1>5, CategoryAssumption
  <2>4. CASE e.cat \in group /\ e.op = "create" /\ parent # ROOT
    <3>1. CASE group = {e.cat}
      BY <2>4, <3>1, <1>4, <1>5, <1>6
    <3>2. CASE group \ {e.cat} # {}
      <4>1. PICK c \in group \ {e.cat} : category[c].parent \notin group \ {e.cat}
        BY <2>1, <3>2
      <4>2. category[c].parent # e.cat
        BY <2>4, <1>1, <1>6, CategoryAssumption DEF CategoryInv, RowsSound
      <4> QED
        BY <4>1, <4>2, <1>5
    <3> QED
      BY <2>4, <3>1, <3>2
  <2>5. CASE e.cat \in group /\ moves /\ parent # ROOT
    <3>1. "move" \notin e.since /\ parent = e.parent /\ e.op = "edit"
      BY <2>5, <1>3, <1>2a DEF parent
    <3>2. PICK up \in SUBSET Categories : e.cat \notin up /\ parent \in up /\ Closed(up, {})
      BY <3>1, <2>5, <1>1, <1>6 DEF FitsStage, Walked
    <3>3. CASE group \cap up = {}
      BY <2>5, <3>2, <3>3, <1>4, <1>5
    <3>4. CASE group \cap up # {}
      <4>1. PICK c \in group \cap up : category[c].parent \notin group \cap up
        BY <2>1, <3>4
      <4>2. category[c].parent \in up \cup {ROOT} /\ c # e.cat
        BY <3>2, <4>1 DEF Closed
      <4> QED
        BY <4>1, <4>2, <1>5, CategoryAssumption
    <3> QED
      BY <3>3, <3>4
  <2> QED
    BY <2>2, <2>3, <2>4, <2>5, <1>1 DEF parent
<1>15. NothingUnderDeleted'
  <2> SUFFICES ASSUME "delete" \notin clashes'
               PROVE  /\ \A c \in Categories : Live(c)' /\ category'[c].parent # ROOT =>
                           Live(category[c].parent)'
                           /\ SameAgency(category'[category'[c].parent].scope, category'[c].scope)
                      /\ \A a \in Articles : shelf[a] # ROOT =>
                           Live(shelf[a])' /\ SameAgency(category'[shelf[a]].scope, ArticleScope)
    BY <1>2 DEF NothingUnderDeleted
  <2>1. NothingUnderDeleted /\ "delete" \notin clashes
    BY <1>3 DEF CategoryInv
  <2>2. \A c \in Categories : Live(c) => Live(c)' /\ category'[c].scope = category[c].scope
    BY <1>4, <1>5, <1>6, <1>7 DEF Live, Exists
  <2>3. \A a \in Articles : shelf[a] # ROOT => Live(shelf[a])' /\ SameAgency(category'[shelf[a]].scope, ArticleScope)
    BY <1>2, <2>1, <2>2 DEF NothingUnderDeleted, Live
  <2>4. \A c \in Categories \ {e.cat} : Live(c)' /\ category'[c].parent # ROOT =>
          Live(category[c].parent)' /\ SameAgency(category'[category'[c].parent].scope, category'[c].scope)
    BY <2>1, <2>2, <1>5 DEF NothingUnderDeleted, Live
  <2>5. ASSUME row.state = "live", parent # ROOT
        PROVE  Live(parent) /\ SameAgency(category[parent].scope, row.scope)
    <3>1. CASE e.parent = KEEP
      <4>1. e.op = "edit" /\ Live(e.cat) /\ parent = category[e.cat].parent
        BY <3>1, <2>5, <1>1, <1>7 DEF FitsStage, SoundEdit, parent
      <4> QED
        BY <4>1, <2>1, <2>5, <1>1, <1>6 DEF NothingUnderDeleted, Live, Exists
    <3>2. CASE e.parent # KEEP
      <4>1. "delete" \notin e.since /\ parent = e.parent /\ e.parent \in Categories
        BY <3>2, <2>5, <1>3, <1>6, <1>2a DEF parent
      <4> QED
        BY <4>1, <1>1, <1>4 DEF FitsStage, ParentHolds
    <3> QED
      BY <3>1, <3>2
  <2>6. row.state = "live" /\ row.parent # ROOT =>
          category'[row.parent].state = "live" /\ SameAgency(category'[row.parent].scope, row.scope)
    BY <2>2, <2>5, <1>4, <1>6 DEF Live
  <2>7. ASSUME NEW c \in Categories, category'[c].state = "live", category'[c].parent # ROOT
        PROVE  Live(category[c].parent)' /\ SameAgency(category'[category'[c].parent].scope, category'[c].scope)
    <3>1. CASE c = e.cat
      BY <2>6, <2>7, <3>1, <1>4, <1>5, <1>6 DEF Live
    <3>2. CASE c # e.cat
      BY <2>4, <2>7, <3>2 DEF Live
    <3> QED
      BY <3>1, <3>2
  <2> QED
    BY <2>3, <2>7 DEF Live
<1>16. SlugsDiffer'
  <2> SUFFICES ASSUME "slug" \notin clashes', NEW c \in Categories, NEW d \in Categories \ {c},
                      category'[c].state = "live", category'[d].state = "live",
                      category'[c].scope = category'[d].scope, category'[c].slug = category'[d].slug
               PROVE  FALSE
    BY DEF SlugsDiffer, SlugTaken, Live
  <2>1. SlugsDiffer /\ "slug" \notin clashes /\ ~SlugTaken(e.cat, e.scope, e.slug)
    BY <1>1, <1>3, <1>2a DEF CategoryInv, FitsStage, SlugHolds
  <2>2. CASE c # e.cat /\ d # e.cat
    BY <2>1, <2>2, <1>5 DEF SlugsDiffer, SlugTaken, Live
  <2>3. CASE c = e.cat \/ d = e.cat
    BY <2>1, <2>3, <1>4, <1>5 DEF SlugTaken, Live, row
  <2> QED
    BY <2>2, <2>3
<1> QED
  BY <1>8, <1>9, <1>10, <1>12, <1>13, <1>14, <1>15, <1>16 DEF CategoryInv

LEMMA RemoveCategoryKeepsInv ==
  ASSUME NEW u \in Editors, CategoryInv, RemoveCategory(u)
  PROVE  CategoryInv'
<1> DEFINE gone == editor[u].cat
<1>1. gone \in Categories /\ Written(u, {"delete"}, {})
  BY DEF RemoveCategory, CategoryInv, FitsStage, SoundEdit
<1>2. /\ editor' \in [Editors -> Editor] /\ editor'[u] = Away
      /\ \A v \in Editors \ {u} : SameRequest(v) /\ editor[v].since \subseteq editor'[v].since
      /\ \A v \in Editors \ {u} : editor[v].stage # "idle" => "delete" \in editor'[v].since
      /\ clashes' \in SUBSET Writes /\ clashes \subseteq clashes' /\ edits' = edits
  <2>1. {"delete"} \in SUBSET Writes /\ {} \in SUBSET Writes
    BY DEF Writes
  <2> QED
    BY <1>1, <2>1, WrittenEffect DEF CategoryInv
<1>3. ASSUME NEW c \in Categories
      PROVE  /\ category'[c] \in Category /\ category'[c].scope = category[c].scope
             /\ category'[c].slug = category[c].slug /\ category'[c].parent \in {category[c].parent, ROOT}
             /\ c # gone => category'[c].state = category[c].state
             /\ c = gone => category'[c].state = "deleted"
             /\ c # gone /\ Live(c) => category'[c].parent # gone
             /\ c # gone /\ ~Live(c) => category'[c] = category[c]
  <2>1. category[c] \in Category /\ gone # ROOT /\ ROOT \in Place
    BY <1>1, CategoryAssumption DEF CategoryInv, CategoryTypeOK, Place
  <2>2. CASE c = gone
    <3>1. category'[c] = [category[c] EXCEPT !.state = "deleted"]
      BY <2>2 DEF RemoveCategory
    <3> QED
      BY <2>1, <2>2, <3>1 DEF Category
  <2>3. CASE c # gone /\ Live(c) /\ category[c].parent = gone
    <3>1. category'[c] = [category[c] EXCEPT !.parent = ROOT]
      BY <2>3 DEF RemoveCategory
    <3> QED
      BY <2>1, <2>3, <3>1 DEF Category
  <2>4. CASE c # gone /\ ~(Live(c) /\ category[c].parent = gone)
    <3>1. category'[c] = category[c]
      BY <2>4 DEF RemoveCategory
    <3> QED
      BY <2>1, <2>4, <3>1
  <2> QED
    BY <2>2, <2>3, <2>4
<1>4. category' \in [Categories -> Category]
  BY <1>3 DEF RemoveCategory
<1>5. /\ shelf' \in [Articles -> Place]
      /\ \A a \in Articles : shelf'[a] # gone /\ (shelf'[a] # ROOT => shelf'[a] = shelf[a])
  BY <1>1, CategoryAssumption DEF RemoveCategory, CategoryInv, CategoryTypeOK, Place
<1>6. \A c \in Categories : (Live(c)' => Live(c) /\ c # gone) /\ (Exists(c) => Exists(c)')
  BY <1>3 DEF Live, Exists
<1>7. Exists(gone) /\ \A c \in Categories : Exists(c)' => Exists(c)
  <2>1. Exists(gone)
    BY DEF RemoveCategory, CategoryInv, FitsStage, SoundEdit
  <2> QED
    BY <2>1, <1>3 DEF Exists
<1> HIDE DEF gone
<1>8. CategoryTypeOK'
  BY <1>2, <1>4, <1>5 DEF CategoryInv, CategoryTypeOK
<1>9. OneCreator'
  <2>1. \A v \in Editors : editor'[v].cat \in {editor[v].cat, ROOT}
    BY <1>2 DEF SameRequest, Away
  <2>2. \A v \in Editors : editor'[v].op = "create" =>
          v # u /\ editor[v].op = "create" /\ editor'[v].cat = editor[v].cat /\ editor[v].cat \in Categories
    BY <1>2 DEF SameRequest, Away, CategoryInv, FitsStage, SoundEdit
  <2> QED
    BY <2>1, <2>2, CategoryAssumption DEF CategoryInv, OneCreator
<1>10. RowsSound'
  BY <1>3, <1>6, <1>7 DEF CategoryInv, CategoryTypeOK, Category, Place, RowsSound
<1>11. ASSUME NEW v \in Editors \ {u}
       PROVE  FitsStage(editor[v])'
  <2> DEFINE f == editor[v]
  <2>1. /\ f \in Editor /\ FitsStage(f) /\ SameRequest(v) /\ f.since \subseteq f'.since
        /\ (f.stage # "idle" => "delete" \in f'.since)
    BY <1>2 DEF CategoryInv, CategoryTypeOK
  <2>2. SoundEdit(f)'
    BY <2>1, <1>3, <1>6, <1>7 DEF FitsStage, SoundEdit, SameRequest
  <2>3. ParentHolds(f)'
    BY <2>1 DEF ParentHolds, SameRequest
  <2>4. SlugHolds(f)'
    BY <2>1, <1>2, <1>3, <1>6 DEF FitsStage, SlugHolds, SlugTaken, SameRequest
  <2>5. ASSUME NEW group \in SUBSET Categories, NEW rest, Closed(group, rest)
        PROVE  Closed(group, rest)'
    BY <1>3, <1>6, <2>5 DEF Closed
  <2>6. Walking(f)'
    BY <2>1, <2>5, <1>6 DEF FitsStage, Walking, SameRequest, Closed, Editor, Place
  <2>7. Walked(f)'
    BY <2>1, <2>5 DEF FitsStage, Walked, SameRequest
  <2> QED
    BY <2>2, <2>3, <2>4, <2>6, <2>7 DEF FitsStage
<1>12. FitsStage(editor[u])'
  BY <1>2, AwayFits DEF FitsStage, SoundEdit, ParentHolds, SlugHolds, Walking, Walked, Away
<1>13. TreeIsAcyclic'
  BY <1>2, <1>3, CategoryAssumption DEF CategoryInv, TreeIsAcyclic
<1>14. NothingUnderDeleted'
  BY <1>2, <1>3, <1>5, <1>6 DEF CategoryInv, CategoryTypeOK, Category, Place, NothingUnderDeleted, Live
<1>15. SlugsDiffer'
  BY <1>2, <1>3, <1>6 DEF CategoryInv, SlugsDiffer, SlugTaken
<1> QED
  BY <1>8, <1>9, <1>10, <1>11, <1>12, <1>13, <1>14, <1>15 DEF CategoryInv

LEMMA FileArticleKeepsInv ==
  ASSUME NEW u \in Editors, CategoryInv, FileArticle(u)
  PROVE  CategoryInv'
<1> DEFINE e       == editor[u]
           trusted == IF e.cat = ROOT THEN {} ELSE {"delete"}
<1>1. /\ e \in Editor /\ FitsStage(e) /\ e.stage = "write" /\ e.op = "file" /\ e.article \in Articles
      /\ Written(u, {}, trusted) /\ category' = category /\ shelf' = [shelf EXCEPT ![e.article] = e.cat]
  BY DEF FileArticle, CategoryInv, CategoryTypeOK, FitsStage, SoundEdit
<1>2. /\ editor' \in [Editors -> Editor] /\ editor'[u] = Away
      /\ \A v \in Editors \ {u} : SameRequest(v) /\ editor[v].since \subseteq editor'[v].since
      /\ clashes' \in SUBSET Writes /\ clashes \subseteq clashes' /\ edits' = edits
      /\ e.cat # ROOT /\ "delete" \in e.since => "delete" \in clashes'
  <2>1. {} \in SUBSET Writes /\ trusted \in SUBSET Writes /\ (e.cat # ROOT => "delete" \in trusted)
    BY DEF Writes
  <2> HIDE DEF trusted
  <2> QED
    BY <1>1, <2>1, WrittenEffect DEF CategoryInv
<1> HIDE DEF e, trusted
<1>3. /\ shelf' \in [Articles -> Place] /\ shelf'[e.article] = e.cat
      /\ \A a \in Articles \ {e.article} : shelf'[a] = shelf[a]
  BY <1>1 DEF CategoryInv, CategoryTypeOK, Editor
<1>4. CategoryTypeOK'
  BY <1>1, <1>2, <1>3 DEF CategoryInv, CategoryTypeOK
<1>5. OneCreator'
  <2>1. \A v \in Editors : editor'[v].cat \in {editor[v].cat, ROOT}
    BY <1>2 DEF SameRequest, Away
  <2>2. \A v \in Editors : editor'[v].op = "create" =>
          v # u /\ editor[v].op = "create" /\ editor'[v].cat = editor[v].cat /\ editor[v].cat \in Categories
    BY <1>2 DEF SameRequest, Away, CategoryInv, FitsStage, SoundEdit
  <2> QED
    BY <2>1, <2>2, CategoryAssumption DEF CategoryInv, OneCreator
<1>6. ASSUME NEW v \in Editors \ {u}
      PROVE  FitsStage(editor[v])'
  BY <1>1, <1>2
  DEF CategoryInv, FitsStage, SoundEdit, ParentHolds, SlugHolds, SlugTaken, Walking, Walked, Closed, Live, Exists,
      SameRequest
<1>7. FitsStage(editor[u])'
  BY <1>2, AwayFits DEF FitsStage, SoundEdit, ParentHolds, SlugHolds, Walking, Walked, Away
<1>8. RowsSound' /\ TreeIsAcyclic' /\ SlugsDiffer'
  BY <1>1, <1>2 DEF CategoryInv, RowsSound, Exists, TreeIsAcyclic, SlugsDiffer, SlugTaken, Live
<1>9. NothingUnderDeleted'
  BY <1>1, <1>2, <1>3 DEF CategoryInv, FitsStage, ParentHolds, NothingUnderDeleted, Live
<1> QED
  BY <1>4, <1>5, <1>6, <1>7, <1>8, <1>9 DEF CategoryInv

LEMMA CategoryNextKeepsInv == CategoryInv /\ [CategoryNext]_categoryVars => CategoryInv'
<1> SUFFICES ASSUME CategoryInv, [CategoryNext]_categoryVars
             PROVE  CategoryInv'
  OBVIOUS
<1>1. ASSUME NEW u \in Editors, NEW c \in Categories, NEW scope \in Scopes, NEW parent \in Place,
             NEW slug \in CategorySlugs, StartCreate(u, c, scope, parent, slug)
      PROVE  CategoryInv'
  BY <1>1, StartCreateKeepsInv
<1>2. ASSUME NEW u \in Editors, NEW c \in Categories, NEW parent \in Place \cup {KEEP},
             NEW slug \in CategorySlugs \cup {KEEP}, StartEdit(u, c, parent, slug)
      PROVE  CategoryInv'
  BY <1>2, StartEditKeepsInv
<1>3. ASSUME NEW u \in Editors, NEW c \in Categories, StartDelete(u, c)
      PROVE  CategoryInv'
  BY <1>3, StartDeleteKeepsInv
<1>4. ASSUME NEW u \in Editors, NEW a \in Articles, NEW c \in Place, StartFile(u, a, c)
      PROVE  CategoryInv'
  BY <1>4, StartFileKeepsInv
<1>5. ASSUME NEW u \in Editors, CheckParent(u) \/ Walk(u) \/ CheckSlug(u) \/ Refuse(u)
      PROVE  CategoryInv'
  BY <1>5, CheckParentKeepsInv, WalkKeepsInv, CheckSlugKeepsInv, RefuseKeepsInv
<1>6. ASSUME NEW u \in Editors, SaveCategory(u) \/ RemoveCategory(u) \/ FileArticle(u)
      PROVE  CategoryInv'
  BY <1>6, SaveCategoryKeepsInv, RemoveCategoryKeepsInv, FileArticleKeepsInv
<1>7. CASE UNCHANGED categoryVars
  BY <1>7
  DEF categoryVars, CategoryInv, CategoryTypeOK, FitsStage, SoundEdit, ParentHolds, SlugHolds, Walking, Walked,
      Closed,
      OneCreator, RowsSound, Exists, TreeIsAcyclic, NothingUnderDeleted, SlugsDiffer, SlugTaken, Live
<1> QED
  BY <1>1, <1>2, <1>3, <1>4, <1>5, <1>6, <1>7 DEF CategoryNext, EditorStep, Place

\* The inductive invariant: with no other write in between, what a request has
\* checked or walked through still holds when it writes.
THEOREM CategoryInvariant == CategorySpec => []CategoryInv
BY CategoryInitEstablishesInv, CategoryNextKeepsInv, PTL DEF CategorySpec

\* Every state is of the declared types, for every set of categories and requests.
THEOREM CategoryTypeCorrect == CategorySpec => []CategoryTypeOK
<1>1. CategoryInv => CategoryTypeOK
  BY DEF CategoryInv
<1> QED
  BY <1>1, CategoryInvariant, PTL

\* The categories form a tree, unless two moves overlap, and nothing hangs from a
\* deleted category, unless it is put there while the deletion runs.
THEOREM TreeAlwaysStands == CategorySpec => []TreeStands
<1>1. CategoryInv => TreeStands
  BY DEF CategoryInv, TreeStands
<1> QED
  BY <1>1, CategoryInvariant, PTL

\* The live categories of one agency, client and store have different slugs, unless writes of a slug overlap.
THEOREM SlugsAlwaysDiffer == CategorySpec => []SlugsDiffer
<1>1. CategoryInv => SlugsDiffer
  BY DEF CategoryInv
<1> QED
  BY <1>1, CategoryInvariant, PTL

-----------------------------------------------------------------------------
(* Part 2.  Products and their SKUs.                                          *)

\* The table: no SKU twice, no row without a product, and what was ordered is there.
TableSound ==
  /\ \A p, q \in Products : p # q /\ product[p].sku = product[q].sku => product[p].sku = TOMB
  /\ \A p \in Products : product[p].state = "none" => product[p] = NoRow
  /\ \A p \in ordered : product[p] # NoRow

\* A request e names what it needs.
Named(e) ==
  /\ e.op \in {"create", "edit"} => \E p \in Products : e.chosen = {p}
  /\ e.op = "create" => e.sku # ABSENT

\* What it has found still holds unless a product changed since.
Unraced(e) ==
  ~e.raced =>
    /\ e.op = "edit" => \A p \in e.chosen : OnSale(p)
    /\ e.op \in {"create", "edit"} /\ e.checked /\ e.sku # ABSENT => \A p \in Holders(e.sku) : ~OnSale(p)

CatalogueInv ==
  /\ CatalogueTypeOK /\ TableSound /\ (\A u \in Clerks : Named(clerk[u]) /\ Unraced(clerk[u]))
  /\ DeletedFreesSku /\ RefusedWithReason

-----------------------------------------------------------------------------
LEMMA RowsAndRequestsTyped ==
  /\ NoRow \in Product /\ NoRow.state = "none" /\ NoRow.sku = TOMB
  /\ Off \in Clerk /\ Off.op = "none"
<1>1. NoRow \in Product /\ NoRow.state = "none" /\ NoRow.sku = TOMB
  BY DEF NoRow, Product
<1>2. {ABSENT} \in (SUBSET Skus) \cup {{ABSENT}}
  OBVIOUS
<1>3. Off \in Clerk /\ Off.op = "none"
  BY <1>2, Z3 DEF Off, Clerk
<1> QED
  BY <1>1, <1>3

LEMMA CatalogueInitEstablishesInv == CatalogueInit => CatalogueInv
<1> SUFFICES ASSUME CatalogueInit PROVE CatalogueInv
  OBVIOUS
<1>1. CatalogueTypeOK
  BY RowsAndRequestsTyped, ProductAssumption DEF CatalogueInit, CatalogueTypeOK
<1>2. TableSound /\ DeletedFreesSku /\ RefusedWithReason
  BY RowsAndRequestsTyped DEF CatalogueInit, TableSound, DeletedFreesSku, RefusedWithReason
<1>3. \A u \in Clerks : Named(clerk[u]) /\ Unraced(clerk[u])
  BY RowsAndRequestsTyped DEF CatalogueInit, Named, Unraced
<1> QED
  BY <1>1, <1>2, <1>3 DEF CatalogueInv

\* A request is entered, or has passed its check.
LEMMA RequestKeepsInv ==
  ASSUME NEW u \in Clerks, NEW changed \in Clerk, CatalogueInv, clerk' = [clerk EXCEPT ![u] = changed],
         Named(changed), Unraced(changed), calls' \in 0..MaxCalls, UNCHANGED <<product, lines, ordered, lapses>>
  PROVE  CatalogueInv'
<1>1. /\ clerk' \in [Clerks -> Clerk] /\ clerk'[u] = changed
      /\ \A v \in Clerks \ {u} : clerk'[v] = clerk[v]
  BY DEF CatalogueInv, CatalogueTypeOK
<1>2. \A v \in Clerks : Named(clerk'[v]) /\ Unraced(clerk'[v])
  BY <1>1 DEF CatalogueInv
<1>3. \A v \in Clerks : Named(clerk[v])' /\ Unraced(clerk[v])'
  BY <1>2 DEF Named, Unraced, OnSale, Holders
<1> QED
  BY <1>1, <1>3 DEF CatalogueInv, CatalogueTypeOK, TableSound, DeletedFreesSku, RefusedWithReason

LEMMA CallKeepsInv ==
  ASSUME NEW u \in Clerks, NEW request \in Clerk, CatalogueInv, Call(u, request), Named(request), Unraced(request)
  PROVE  CatalogueInv'
<1>1. calls' \in 0..MaxCalls
  BY ProductAssumption DEF Call, CatalogueInv, CatalogueTypeOK
<1> QED
  BY <1>1, RequestKeepsInv DEF Call

LEMMA CallsKeepInv ==
  ASSUME NEW u \in Clerks, NEW p \in Products, NEW variants \in VariantLists, NEW chosen \in SUBSET Products,
         NEW sku \in Skus \cup {ABSENT}, CatalogueInv,
         \/ sku \in Skus /\ CallCreate(u, p, sku, variants)
         \/ CallEdit(u, p, sku, variants) \/ CallDelete(u, p) \/ CallBulk(u, chosen)
  PROVE  CatalogueInv'
<1>1. CASE sku \in Skus /\ CallCreate(u, p, sku, variants)
  <2> DEFINE r == [Off EXCEPT !.op = "create", !.chosen = {p}, !.sku = sku, !.variants = variants]
  <2>1. r \in Clerk /\ r.op = "create" /\ r.chosen = {p} /\ r.sku = sku /\ ~r.checked
    BY <1>1 DEF Off, Clerk, VariantLists
  <2>2. Call(u, r)
    BY <1>1 DEF CallCreate
  <2> HIDE DEF r
  <2>3. Named(r) /\ Unraced(r)
    BY <1>1, <2>1, ProductAssumption DEF Named, Unraced
  <2> QED
    BY <2>1, <2>2, <2>3, CallKeepsInv
<1>2. CASE CallEdit(u, p, sku, variants)
  <2> DEFINE r == [Off EXCEPT !.op = "edit", !.chosen = {p}, !.variants = variants,
                              !.sku = IF sku = product[p].sku THEN ABSENT ELSE sku]
  <2>1. r \in Clerk /\ r.op = "edit" /\ r.chosen = {p} /\ ~r.checked
    BY DEF Off, Clerk, VariantLists
  <2>2. Call(u, r) /\ OnSale(p)
    BY <1>2 DEF CallEdit
  <2> HIDE DEF r
  <2>3. Named(r) /\ Unraced(r)
    BY <2>1, <2>2 DEF Named, Unraced
  <2> QED
    BY <2>1, <2>2, <2>3, CallKeepsInv
<1>3. CASE CallDelete(u, p)
  <2> DEFINE r == [Off EXCEPT !.op = "delete", !.chosen = {p}, !.checked = TRUE]
  <2>1. r \in Clerk /\ r.op = "delete"
    BY RowsAndRequestsTyped DEF Clerk
  <2>2. Call(u, r)
    BY <1>3 DEF CallDelete
  <2> HIDE DEF r
  <2> QED
    BY <2>1, <2>2, CallKeepsInv DEF Named, Unraced
<1>4. CASE CallBulk(u, chosen)
  <2> DEFINE r == [Off EXCEPT !.op = "bulk", !.chosen = chosen, !.checked = TRUE]
  <2>1. r \in Clerk /\ r.op = "bulk"
    BY RowsAndRequestsTyped DEF Clerk
  <2>2. Call(u, r)
    BY <1>4 DEF CallBulk
  <2> HIDE DEF r
  <2> QED
    BY <2>1, <2>2, CallKeepsInv DEF Named, Unraced
<1> QED
  BY <1>1, <1>2, <1>3, <1>4

LEMMA CheckSkuKeepsInv ==
  ASSUME NEW u \in Clerks, CatalogueInv, CheckSku(u)
  PROVE  CatalogueInv'
<1> DEFINE e == clerk[u]
           r == [e EXCEPT !.checked = TRUE]
<1>1. /\ e \in Clerk /\ Named(e) /\ Unraced(e) /\ clerk' = [clerk EXCEPT ![u] = r]
      /\ e.sku # ABSENT => \A p \in Holders(e.sku) : ~OnSale(p)
      /\ UNCHANGED <<product, lines, ordered, calls, lapses>>
  BY DEF CheckSku, CatalogueInv, CatalogueTypeOK
<1>2. r \in Clerk /\ r.op = e.op /\ r.chosen = e.chosen /\ r.sku = e.sku /\ r.raced = e.raced
  BY <1>1 DEF Clerk
<1> HIDE DEF r
<1>3. Named(r) /\ Unraced(r)
  BY <1>1, <1>2 DEF Named, Unraced
<1> QED
  BY <1>1, <1>2, <1>3, RequestKeepsInv DEF CatalogueInv, CatalogueTypeOK

\* A request is over.
Untouched(v) ==
  /\ clerk'[v].op = clerk[v].op /\ clerk'[v].chosen = clerk[v].chosen /\ clerk'[v].sku = clerk[v].sku
  /\ clerk'[v].variants = clerk[v].variants /\ clerk'[v].checked = clerk[v].checked

LEMMA RacedOnly ==
  ASSUME NEW e \in Clerk, NEW b \in BOOLEAN, NEW f, f = [e EXCEPT !.raced = b]
  PROVE  /\ f \in Clerk /\ f.op = e.op /\ f.chosen = e.chosen /\ f.sku = e.sku /\ f.variants = e.variants
         /\ f.checked = e.checked /\ (f.raced <=> b)
BY DEF Clerk

LEMMA DoneEffect ==
  ASSUME NEW u \in Clerks, NEW changed \in BOOLEAN, CatalogueTypeOK, Done(u, changed)
  PROVE  /\ clerk' \in [Clerks -> Clerk] /\ clerk'[u] = Off /\ calls' = calls
         /\ \A v \in Clerks \ {u} : Untouched(v) /\ (clerk[v].raced => clerk'[v].raced)
         /\ changed => \A v \in Clerks \ {u} : clerk[v].op # "none" => clerk'[v].raced
<1>1. clerk'[u] = Off /\ calls' = calls
  BY DEF Done
<1>2. ASSUME NEW v \in Clerks \ {u}
      PROVE  /\ clerk'[v] \in Clerk /\ Untouched(v)
             /\ clerk'[v].raced <=> clerk[v].raced \/ (changed /\ clerk[v].op # "none")
  <2> DEFINE b == clerk[v].raced \/ (changed /\ clerk[v].op # "none")
  <2>1. clerk'[v] = [clerk[v] EXCEPT !.raced = b] /\ clerk[v] \in Clerk
    BY DEF Done, CatalogueTypeOK
  <2>2. b \in BOOLEAN
    OBVIOUS
  <2> HIDE DEF b
  <2>3. clerk'[v] \in Clerk /\ Untouched(v) /\ (clerk'[v].raced <=> b)
    BY <2>1, <2>2, RacedOnly DEF Untouched
  <2> QED
    BY <2>3, Zenon DEF b
<1>3. clerk' \in [Clerks -> Clerk]
  <2>1. \A v \in Clerks : clerk'[v] \in Clerk
    BY <1>1, <1>2, RowsAndRequestsTyped
  <2> QED
    BY <2>1 DEF Done
<1> QED
  BY <1>1, <1>2, <1>3

\* A step that changes products tells everybody who is under way.
LEMMA ChangeKeepsRequests ==
  ASSUME NEW u \in Clerks, CatalogueInv, Done(u, TRUE)
  PROVE  /\ clerk' \in [Clerks -> Clerk] /\ calls' \in 0..MaxCalls
         /\ \A v \in Clerks : Named(clerk[v])' /\ Unraced(clerk[v])'
<1>1. /\ clerk' \in [Clerks -> Clerk] /\ clerk'[u] = Off /\ calls' = calls
      /\ \A v \in Clerks \ {u} : Untouched(v) /\ (clerk[v].op # "none" => clerk'[v].raced)
  BY DoneEffect DEF CatalogueInv
<1>2. ASSUME NEW v \in Clerks \ {u}
      PROVE  Named(clerk[v])' /\ Unraced(clerk[v])'
  BY <1>1 DEF CatalogueInv, Named, Unraced, Untouched
<1>3. Named(clerk[u])' /\ Unraced(clerk[u])'
  BY <1>1, RowsAndRequestsTyped DEF Named, Unraced
<1> QED
  BY <1>1, <1>2, <1>3 DEF CatalogueInv, CatalogueTypeOK

LEMMA NoChangeKeepsRequests ==
  ASSUME NEW u \in Clerks, CatalogueInv, Done(u, FALSE), UNCHANGED product
  PROVE  /\ clerk' \in [Clerks -> Clerk] /\ calls' \in 0..MaxCalls
         /\ \A v \in Clerks : Named(clerk[v])' /\ Unraced(clerk[v])'
<1>1. /\ clerk' \in [Clerks -> Clerk] /\ clerk'[u] = Off /\ calls' = calls
      /\ \A v \in Clerks \ {u} : Untouched(v) /\ (clerk[v].raced => clerk'[v].raced)
  BY DoneEffect DEF CatalogueInv
<1>2. ASSUME NEW v \in Clerks \ {u}
      PROVE  Named(clerk[v])' /\ Unraced(clerk[v])'
  BY <1>1 DEF CatalogueInv, Named, Unraced, Untouched, OnSale, Holders
<1>3. Named(clerk[u])' /\ Unraced(clerk[u])'
  BY <1>1, RowsAndRequestsTyped DEF Named, Unraced
<1> QED
  BY <1>1, <1>2, <1>3 DEF CatalogueInv, CatalogueTypeOK

\* What an accepted write leaves.
LEMMA WrittenKeepsInv ==
  ASSUME NEW u \in Clerks, CatalogueInv, Done(u, TRUE), product' \in [Products -> Product], TableSound',
         lines' \subseteq Products, ordered' \subseteq Products, lapses' \subseteq Lapses, DeletedFreesSku',
         RefusedWithReason'
  PROVE  CatalogueInv'
BY ChangeKeepsRequests DEF CatalogueInv, CatalogueTypeOK

LEMMA SaveProductKeepsInv ==
  ASSUME NEW u \in Clerks, CatalogueInv, SaveProduct(u)
  PROVE  CatalogueInv'
<1> DEFINE e   == clerk[u]
           p   == CHOOSE q \in e.chosen : TRUE
           new == e.variants \ {ABSENT}
<1>1. /\ e \in Clerk /\ e.op \in {"create", "edit"} /\ e.checked /\ e.chosen = {p} /\ p \in Products
      /\ e.op = "create" => e.sku # ABSENT
      /\ e.sku \in Skus \cup {ABSENT} /\ e.variants \in (SUBSET Skus) \cup {{ABSENT}}
      /\ lines' = lines /\ ordered' = ordered
  <2>1. /\ e \in Clerk /\ e.op \in {"create", "edit"} /\ e.checked /\ Named(e)
        /\ lines' = lines /\ ordered' = ordered
    BY DEF SaveProduct, CatalogueInv, CatalogueTypeOK
  <2>2. PICK q \in Products : e.chosen = {q}
    BY <2>1 DEF Named
  <2>3. p = q
    BY <2>2
  <2> HIDE DEF e, p
  <2> QED
    BY <2>1, <2>2, <2>3 DEF Named, Clerk
<1>2. PICK used \in SUBSET Products :
        /\ p \notin used
        /\ \E ids \in [used -> new] :
             LET rows == Saved(e, p, ids)
                 ok   == Accepted(rows) /\ (e.op = "edit" => product[p] # NoRow)
             IN  /\ {ids[q] : q \in used} = new
                 /\ \/ /\ ok
                       /\ product' = rows
                       /\ lapses' = lapses \cup Lapse(e.op = "edit" /\ ~OnSale(p), "late")
                       /\ Done(u, TRUE)
                    \/ /\ ~ok
                       /\ lapses' = lapses \cup Lapse(e.variants = {ABSENT} /\ ~e.raced, "refused")
                       /\ Done(u, FALSE)
                       /\ UNCHANGED product
  BY Zenon DEF SaveProduct
<1>2b. PICK ids \in [used -> new] :
        LET rows == Saved(e, p, ids)
            ok   == Accepted(rows) /\ (e.op = "edit" => product[p] # NoRow)
        IN  /\ {ids[q] : q \in used} = new
            /\ \/ /\ ok
                  /\ product' = rows
                  /\ lapses' = lapses \cup Lapse(e.op = "edit" /\ ~OnSale(p), "late")
                  /\ Done(u, TRUE)
               \/ /\ ~ok
                  /\ lapses' = lapses \cup Lapse(e.variants = {ABSENT} /\ ~e.raced, "refused")
                  /\ Done(u, FALSE)
                  /\ UNCHANGED product
  BY <1>2
<1> DEFINE rows == Saved(e, p, ids)
           row  == IF e.op = "create" THEN NewRow(e.sku, ABSENT)
                   ELSE [product[p] EXCEPT !.sku = IF e.sku = ABSENT THEN @ ELSE e.sku]
           gone == IF e.op = "edit" /\ e.variants # {ABSENT} THEN Variants(p) ELSE {}
<1>3. /\ product \in [Products -> Product] /\ lapses \subseteq Lapses /\ TableSound /\ DeletedFreesSku
      /\ RefusedWithReason /\ Unraced(e) /\ lines \subseteq Products /\ ordered \subseteq Products
  BY DEF CatalogueInv, CatalogueTypeOK
<1>4. new \subseteq Skus
  BY <1>1, ProductAssumption
<1>5. /\ rows = [q \in Products |-> IF q = p THEN row ELSE IF q \in used THEN NewRow(ids[q], p)
                                    ELSE IF q \in gone THEN NoRow ELSE product[q]]
  <2>1. DOMAIN ids = used
    OBVIOUS
  <2> QED
    BY <2>1 DEF Saved
<1>6. row \in Product /\ row.sku = (IF e.sku = ABSENT THEN product[p].sku ELSE e.sku)
  <2>1. CASE e.op = "create"
    <3>1. row = NewRow(e.sku, ABSENT) /\ e.sku \in Skus
      BY <1>1, <2>1
    <3> QED
      BY <3>1, <1>1, <2>1 DEF NewRow, Product
  <2>2. CASE e.op = "edit"
    <3> DEFINE s == IF e.sku = ABSENT THEN product[p].sku ELSE e.sku
    <3>1. row = [product[p] EXCEPT !.sku = s] /\ s \in Skus \cup {TOMB} /\ product[p] \in Product
      BY <1>1, <1>3, <2>2 DEF Product
    <3> HIDE DEF s, row
    <3>2. row \in Product /\ row.sku = s
      BY <3>1 DEF Product
    <3> QED
      BY <3>2 DEF s
  <2> QED
    BY <1>1, <2>1, <2>2
<1>7. e.op = "create" => row.state = "live"
  BY DEF NewRow
<1>8. e.op = "edit" => row.state = product[p].state
  <2>1. product[p] \in Product
    BY <1>1, <1>3
  <2> QED
    BY <2>1 DEF Product
<1> HIDE DEF row
<1>9. \A q \in used : NewRow(ids[q], p) \in Product /\ NewRow(ids[q], p).state = "live"
  <2>1. \A q \in used : ids[q] \in Skus
    BY <1>4
  <2> QED
    BY <1>1, <2>1 DEF NewRow, Product
<1> HIDE DEF e, p, new, rows, gone
<1>10. rows \in [Products -> Product]
  <2>1. \A q \in Products : product[q] \in Product
    BY <1>3
  <2>2. \A q \in Products :
          (IF q = p THEN row ELSE IF q \in used THEN NewRow(ids[q], p)
           ELSE IF q \in gone THEN NoRow ELSE product[q]) \in Product
    BY <1>6, <1>9, <2>1, RowsAndRequestsTyped
  <2> QED
    BY <1>5, <2>2
<1>11. CASE /\ Accepted(rows) /\ (e.op = "edit" => product[p] # NoRow) /\ product' = rows
            /\ lapses' = lapses \cup Lapse(e.op = "edit" /\ ~OnSale(p), "late") /\ Done(u, TRUE)
  <2>1. TableSound'
    <3>1. ASSUME NEW q \in Products, rows[q].state = "none" PROVE rows[q] = NoRow
      <4>1. CASE q = p
        <5>1. row.state = "none" /\ product[p].state = "none" /\ e.op = "edit"
          BY <1>1, <1>5, <1>7, <1>8, <3>1, <4>1
        <5> QED
          BY <1>1, <1>3, <1>11, <5>1 DEF TableSound
      <4>2. CASE q # p /\ q \in used
        BY <1>5, <1>9, <3>1, <4>2
      <4>3. CASE q # p /\ q \notin used
        BY <1>3, <1>5, <3>1, <4>3 DEF TableSound
      <4> QED
        BY <4>1, <4>2, <4>3
    <3> QED
      BY <1>1, <1>11, <3>1 DEF TableSound, Accepted
  <2>2. lapses' \subseteq Lapses /\ ("refused" \in lapses' => "refused" \in lapses)
        /\ ("buried" \in lapses' => "buried" \in lapses) /\ lapses \subseteq lapses'
    BY <1>3, <1>11 DEF Lapse, Lapses
  <2>3. DeletedFreesSku'
    <3> SUFFICES ASSUME lapses' \cap {"bulk", "late"} = {}
                 PROVE  /\ \A q \in Products : rows[q].state = "deleted" => rows[q].sku = TOMB
                        /\ "buried" \notin lapses'
      BY <1>11 DEF DeletedFreesSku
    <3>1. lapses \cap {"bulk", "late"} = {} /\ (e.op = "edit" => OnSale(p))
      BY <1>11, <2>2 DEF Lapse
    <3>2. row.state = "live"
      BY <1>1, <1>7, <1>8, <3>1 DEF OnSale
    <3>3. ASSUME NEW q \in Products, rows[q].state = "deleted" PROVE rows[q].sku = TOMB
      <4>1. q # p /\ q \notin used
        BY <1>5, <1>9, <3>2, <3>3
      <4> QED
        BY <1>3, <1>5, <3>1, <3>3, <4>1, RowsAndRequestsTyped DEF DeletedFreesSku
    <3> QED
      BY <1>3, <2>2, <3>1, <3>3 DEF DeletedFreesSku
  <2>4. RefusedWithReason'
    BY <1>3, <2>2 DEF RefusedWithReason
  <2> QED
    BY <1>1, <1>3, <1>10, <1>11, <2>1, <2>2, <2>3, <2>4, WrittenKeepsInv
<1>12. CASE /\ ~(Accepted(rows) /\ (e.op = "edit" => product[p] # NoRow)) /\ UNCHANGED product
            /\ lapses' = lapses \cup Lapse(e.variants = {ABSENT} /\ ~e.raced, "refused") /\ Done(u, FALSE)
  <2>1. ASSUME e.variants = {ABSENT}, ~e.raced, lapses \cap {"bulk", "late"} = {}
        PROVE  FALSE
    <3>1. used = {} /\ gone = {}
      BY <1>2b, <2>1 DEF new, gone
    <3>2. \A q \in Products : rows[q] = IF q = p THEN row ELSE product[q]
      BY <1>5, <3>1
    <3>3. e.op = "edit" => OnSale(p) /\ product[p] # NoRow
      BY <1>1, <1>3, <2>1, RowsAndRequestsTyped DEF Unraced, OnSale
    <3>4. row # NoRow
      BY <1>1, <1>7, <1>8, <3>3, RowsAndRequestsTyped DEF OnSale
    <3>5. ASSUME NEW q \in Products, q # p, product[q].sku = row.sku
          PROVE  row.sku = TOMB
      <4>1. CASE e.sku = ABSENT
        BY <1>1, <1>3, <1>6, <3>5, <4>1 DEF TableSound
      <4>2. CASE e.sku # ABSENT
        <5>1. row.sku = e.sku /\ q \in Holders(e.sku) /\ ~OnSale(q)
          BY <1>1, <1>3, <1>6, <2>1, <3>5, <4>2 DEF Holders, Unraced
        <5>2. product[q].state \in {"none", "deleted"}
          BY <1>3, <5>1 DEF OnSale, Product
        <5> QED
          BY <1>3, <2>1, <3>5, <5>2, RowsAndRequestsTyped DEF TableSound, DeletedFreesSku
      <4> QED
        BY <4>1, <4>2
    <3>6. Accepted(rows)
      <4>1. \A q, r \in Products : q # r /\ rows[q].sku = rows[r].sku => rows[q].sku = TOMB
        BY <1>1, <1>3, <3>2, <3>5 DEF TableSound
      <4>2. \A q \in ordered : rows[q] # NoRow
        BY <1>3, <3>2, <3>4 DEF TableSound
      <4> QED
        BY <4>1, <4>2 DEF Accepted
    <3> QED
      BY <1>12, <3>3, <3>6
  <2>2. /\ lapses' \subseteq Lapses /\ lapses \subseteq lapses' /\ ("buried" \in lapses' => "buried" \in lapses)
        /\ (lapses' \cap {"bulk", "late"} = {} => lapses' = lapses)
    BY <1>3, <1>12, <2>1 DEF Lapse, Lapses
  <2>3. DeletedFreesSku' /\ RefusedWithReason'
    BY <1>3, <1>12, <2>2 DEF DeletedFreesSku, RefusedWithReason
  <2> QED
    BY <1>1, <1>3, <1>12, <2>2, <2>3, NoChangeKeepsRequests DEF CatalogueInv, CatalogueTypeOK, TableSound
<1> QED
  BY <1>2b, <1>11, <1>12 DEF rows

LEMMA DeleteProductKeepsInv ==
  ASSUME NEW u \in Clerks, CatalogueInv, DeleteProduct(u)
  PROVE  CatalogueInv'
<1> DEFINE hit(p) == p \in clerk[u].chosen /\ product[p] # NoRow
<1>1. /\ product' = [p \in Products |->
             IF hit(p) THEN [product[p] EXCEPT !.state = "deleted", !.sku = TOMB] ELSE product[p]]
      /\ Done(u, TRUE) /\ UNCHANGED <<lines, ordered, lapses>>
  BY DEF DeleteProduct
<1>2. /\ product \in [Products -> Product] /\ lapses \subseteq Lapses /\ TableSound /\ DeletedFreesSku
      /\ RefusedWithReason /\ lines \subseteq Products /\ ordered \subseteq Products
  BY DEF CatalogueInv, CatalogueTypeOK
<1>3. ASSUME NEW p \in Products
      PROVE  /\ product'[p] \in Product
             /\ hit(p) => product'[p].state = "deleted" /\ product'[p].sku = TOMB
             /\ ~hit(p) => product'[p] = product[p]
  BY <1>1, <1>2 DEF Product
<1>4. product' \in [Products -> Product]
  BY <1>1, <1>3
<1>5. \A p \in Products : hit(p) => product[p] # NoRow
  OBVIOUS
<1> HIDE DEF hit
<1>6. TableSound'
  <2>1. \A p, q \in Products : p # q /\ product'[p].sku = product'[q].sku => product'[p].sku = TOMB
    BY <1>2, <1>3 DEF TableSound
  <2>2. \A p \in Products : product'[p].state = "none" => product'[p] = NoRow
    BY <1>2, <1>3 DEF TableSound
  <2>3. \A p \in ordered' : product'[p] # NoRow
    BY <1>1, <1>2, <1>3, RowsAndRequestsTyped DEF TableSound
  <2> QED
    BY <2>1, <2>2, <2>3, RowsAndRequestsTyped DEF TableSound, NoRow
<1>7. DeletedFreesSku' /\ RefusedWithReason'
  BY <1>1, <1>2, <1>3 DEF DeletedFreesSku, RefusedWithReason
<1> QED
  BY <1>1, <1>2, <1>4, <1>6, <1>7, WrittenKeepsInv

LEMMA DeleteInBulkKeepsInv ==
  ASSUME NEW u \in Clerks, CatalogueInv, DeleteInBulk(u)
  PROVE  CatalogueInv'
<1> DEFINE hit(p) == p \in clerk[u].chosen /\ product[p] # NoRow
<1>1. /\ product' = [p \in Products |->
             IF hit(p) THEN [product[p] EXCEPT !.state = "deleted"] ELSE product[p]]
      /\ Done(u, TRUE) /\ UNCHANGED <<lines, ordered>> /\ lapses' = lapses \cup {"bulk"}
  BY DEF DeleteInBulk
<1>2. /\ product \in [Products -> Product] /\ lapses \subseteq Lapses /\ TableSound
      /\ lines \subseteq Products /\ ordered \subseteq Products
  BY DEF CatalogueInv, CatalogueTypeOK
<1>3. ASSUME NEW p \in Products
      PROVE  /\ product'[p] \in Product /\ product'[p].sku = product[p].sku
             /\ hit(p) => product'[p].state = "deleted"
             /\ ~hit(p) => product'[p] = product[p]
  BY <1>1, <1>2 DEF Product
<1>4. product' \in [Products -> Product]
  BY <1>1, <1>3
<1> HIDE DEF hit
<1>5. TableSound'
  <2>1. \A p, q \in Products : p # q /\ product'[p].sku = product'[q].sku => product'[p].sku = TOMB
    BY <1>2, <1>3 DEF TableSound
  <2>2. \A p \in Products : product'[p].state = "none" => product'[p] = NoRow
    BY <1>2, <1>3 DEF TableSound
  <2>3. \A p \in ordered' : product'[p] # NoRow
    BY <1>1, <1>2, <1>3, RowsAndRequestsTyped DEF TableSound
  <2> QED
    BY <2>1, <2>2, <2>3, RowsAndRequestsTyped DEF TableSound, NoRow
<1>6. lapses' \subseteq Lapses /\ DeletedFreesSku' /\ RefusedWithReason'
  BY <1>1, <1>2 DEF DeletedFreesSku, RefusedWithReason, Lapses
<1> QED
  BY <1>1, <1>2, <1>4, <1>5, <1>6, WrittenKeepsInv

LEMMA AbandonKeepsInv ==
  ASSUME NEW u \in Clerks, CatalogueInv, Abandon(u)
  PROVE  CatalogueInv'
<1>1. Done(u, FALSE) /\ UNCHANGED <<product, lines, ordered, lapses>>
  BY DEF Abandon
<1> QED
  BY <1>1, NoChangeKeepsRequests
     DEF CatalogueInv, CatalogueTypeOK, TableSound, DeletedFreesSku, RefusedWithReason

\* An import reaches the one holder of the SKU, live unless the exceptions apply.
LEMMA ReachKeepsInv ==
  ASSUME NEW sku \in Skus, NEW p \in Products, CatalogueInv, Reach(sku, p), lines' \subseteq Products,
         UNCHANGED ordered
  PROVE  CatalogueInv'
<1>1. /\ product \in [Products -> Product] /\ lapses \subseteq Lapses /\ TableSound /\ DeletedFreesSku
      /\ RefusedWithReason /\ lines \subseteq Products /\ ordered \subseteq Products /\ calls \in 0..MaxCalls
      /\ clerk \in [Clerks -> Clerk] /\ \A v \in Clerks : Named(clerk[v])
  BY DEF CatalogueInv, CatalogueTypeOK
<1>2. /\ calls' = calls + 1 /\ calls < MaxCalls
      /\ ordered' = ordered
      /\ lapses' = lapses \cup Lapse(product[p].state = "deleted", "buried")
      /\ clerk' = [u \in Clerks |-> [clerk[u] EXCEPT !.raced = @ \/ clerk[u].op # "none"]]
      /\ \/ Holders(sku) = {p} /\ UNCHANGED product
         \/ /\ Holders(sku) = {} /\ product[p] = NoRow
            /\ product' = [product EXCEPT ![p] = NewRow(sku, ABSENT)]
  BY DEF Reach
<1>3. calls' \in 0..MaxCalls /\ ordered' \subseteq Products /\ lapses' \subseteq Lapses /\ lapses \subseteq lapses'
      /\ ("refused" \in lapses' => "refused" \in lapses)
      /\ ("bulk" \in lapses' => "bulk" \in lapses) /\ ("late" \in lapses' => "late" \in lapses)
  BY <1>1, <1>2, ProductAssumption DEF Lapse, Lapses
<1>4. NewRow(sku, ABSENT) \in Product /\ NewRow(sku, ABSENT).state = "live" /\ NewRow(sku, ABSENT).sku = sku
  BY DEF NewRow, Product
<1>5. \A v \in Clerks : clerk'[v] \in Clerk /\ Named(clerk[v])' /\ Unraced(clerk[v])'
  <2> SUFFICES ASSUME NEW v \in Clerks
               PROVE  clerk'[v] \in Clerk /\ Named(clerk[v])' /\ Unraced(clerk[v])'
    OBVIOUS
  <2> DEFINE b == clerk[v].raced \/ clerk[v].op # "none"
  <2>1. clerk'[v] = [clerk[v] EXCEPT !.raced = b] /\ clerk[v] \in Clerk /\ Named(clerk[v])
    BY <1>1, <1>2
  <2>2. b \in BOOLEAN /\ (clerk[v].op # "none" => b)
    OBVIOUS
  <2> HIDE DEF b
  <2>3. /\ clerk'[v] \in Clerk /\ Untouched(v) /\ (clerk[v].op # "none" => clerk'[v].raced)
    BY <2>1, <2>2, RacedOnly DEF Untouched
  <2> QED
    BY <2>1, <2>3 DEF Named, Unraced, Untouched
<1>6. clerk' \in [Clerks -> Clerk]
  BY <1>2, <1>5
<1>7. CASE Holders(sku) = {p} /\ UNCHANGED product
  <2>1. product[p].sku = sku /\ product[p] # NoRow
    BY <1>7, RowsAndRequestsTyped, ProductAssumption DEF Holders
  <2>2. TableSound'
    BY <1>1, <1>2, <1>7, <2>1 DEF TableSound
  <2>3. DeletedFreesSku'
    BY <1>1, <1>2, <1>3, <1>7, <2>1, ProductAssumption DEF DeletedFreesSku, Lapse
  <2>4. RefusedWithReason' /\ product' \in [Products -> Product]
    BY <1>1, <1>3, <1>7 DEF RefusedWithReason
  <2> QED
    BY <1>3, <1>5, <1>6, <2>2, <2>3, <2>4 DEF CatalogueInv, CatalogueTypeOK
<1>8. CASE /\ Holders(sku) = {} /\ product[p] = NoRow
           /\ product' = [product EXCEPT ![p] = NewRow(sku, ABSENT)]
  <2>1. /\ product' \in [Products -> Product] /\ product'[p] = NewRow(sku, ABSENT)
        /\ \A q \in Products : q # p => product'[q] = product[q]
    BY <1>1, <1>4, <1>8
  <2>2. \A q \in Products : product[q].sku # sku
    BY <1>8 DEF Holders
  <2>3. TableSound'
    <3>1. \A q, r \in Products : q # r /\ product'[q].sku = product'[r].sku => product'[q].sku = TOMB
      BY <1>1, <1>4, <2>1, <2>2 DEF TableSound
    <3>2. \A q \in Products : product'[q].state = "none" => product'[q] = NoRow
      BY <1>1, <1>4, <2>1 DEF TableSound
    <3>3. \A q \in ordered' : product'[q] # NoRow
      BY <1>1, <1>2, <1>4, <2>1, RowsAndRequestsTyped DEF TableSound
    <3> QED
      BY <3>1, <3>2, <3>3, RowsAndRequestsTyped DEF TableSound, NoRow
  <2>4. DeletedFreesSku'
    <3>1. lapses' = lapses
      BY <1>2, <1>8, RowsAndRequestsTyped DEF Lapse
    <3> QED
      BY <1>1, <1>4, <2>1, <3>1 DEF DeletedFreesSku
  <2>5. RefusedWithReason'
    BY <1>1, <1>3 DEF RefusedWithReason
  <2> QED
    BY <1>3, <1>5, <1>6, <2>1, <2>3, <2>4, <2>5 DEF CatalogueInv, CatalogueTypeOK
<1> QED
  BY <1>2, <1>7, <1>8

LEMMA ImportsKeepInv ==
  ASSUME NEW sku \in Skus, NEW p \in Products, CatalogueInv, ImportSku(sku, p) \/ FindForLine(sku, p)
  PROVE  CatalogueInv'
<1>1. Reach(sku, p) /\ lines' \subseteq Products /\ UNCHANGED ordered
  BY DEF ImportSku, FindForLine, CatalogueInv, CatalogueTypeOK
<1> QED
  BY <1>1, ReachKeepsInv

\* An order is created only of products that are still there.
LEMMA CreateOrderKeepsInv ==
  ASSUME NEW items \in SUBSET Products, CatalogueInv, CreateOrder(items)
  PROVE  CatalogueInv'
<1>1. /\ lines' \subseteq Products /\ ordered' \subseteq Products /\ UNCHANGED <<product, clerk, calls, lapses>>
      /\ \A p \in ordered' : p \in ordered \/ product[p] # NoRow
  BY DEF CreateOrder, CatalogueInv, CatalogueTypeOK
<1>2. \A v \in Clerks : Named(clerk[v])' /\ Unraced(clerk[v])'
  BY <1>1 DEF CatalogueInv, Named, Unraced, OnSale, Holders
<1> QED
  BY <1>1, <1>2 DEF CatalogueInv, CatalogueTypeOK, TableSound, DeletedFreesSku, RefusedWithReason

LEMMA CatalogueStutterKeepsInv ==
  ASSUME CatalogueInv, UNCHANGED catalogueVars
  PROVE  CatalogueInv'
BY DEF CatalogueInv, CatalogueTypeOK, catalogueVars, TableSound, Named, Unraced, OnSale, Holders,
       DeletedFreesSku, RefusedWithReason

LEMMA CatalogueNextKeepsInv == CatalogueInv /\ [CatalogueNext]_catalogueVars => CatalogueInv'
<1> SUFFICES ASSUME CatalogueInv, [CatalogueNext]_catalogueVars PROVE CatalogueInv'
  OBVIOUS
<1>1. ASSUME NEW u \in Clerks, NEW p \in Products, NEW variants \in VariantLists, NEW sku \in Skus,
             CallCreate(u, p, sku, variants)
      PROVE  CatalogueInv'
  BY <1>1, CallsKeepInv
<1>2. ASSUME NEW u \in Clerks, NEW p \in Products, NEW variants \in VariantLists,
             NEW sku \in Skus \cup {ABSENT}, CallEdit(u, p, sku, variants)
      PROVE  CatalogueInv'
  BY <1>2, CallsKeepInv
<1>3. ASSUME NEW u \in Clerks, NEW p \in Products, CallDelete(u, p)
      PROVE  CatalogueInv'
  <2>1. {ABSENT} \in VariantLists /\ ABSENT \in Skus \cup {ABSENT} /\ {} \in SUBSET Products
    BY DEF VariantLists
  <2> QED
    BY <1>3, <2>1, CallsKeepInv
<1>4. ASSUME NEW u \in Clerks, NEW chosen \in SUBSET Products, CallBulk(u, chosen)
      PROVE  CatalogueInv'
  <2>1. {ABSENT} \in VariantLists /\ ABSENT \in Skus \cup {ABSENT}
    BY DEF VariantLists
  <2>2. PICK p \in Products : p \in chosen
    BY <1>4 DEF CallBulk
  <2> QED
    BY <1>4, <2>1, <2>2, CallsKeepInv
<1>5. ASSUME NEW u \in Clerks, CheckSku(u) \/ SaveProduct(u) \/ DeleteProduct(u) \/ DeleteInBulk(u) \/ Abandon(u)
      PROVE  CatalogueInv'
  BY <1>5, CheckSkuKeepsInv, SaveProductKeepsInv, DeleteProductKeepsInv, DeleteInBulkKeepsInv, AbandonKeepsInv
<1> QED
  BY <1>1, <1>2, <1>3, <1>4, <1>5, ImportsKeepInv, CreateOrderKeepsInv, CatalogueStutterKeepsInv, Zenon
     DEF CatalogueNext

-----------------------------------------------------------------------------
\* However requests and imports interleave: no SKU is held twice, an order never
\* loses its product, and what a request has found holds unless it was raced.
THEOREM CatalogueInvariant == CatalogueSpec => []CatalogueInv
<1>1. CatalogueInit => CatalogueInv
  BY CatalogueInitEstablishesInv
<1>2. CatalogueInv /\ [CatalogueNext]_catalogueVars => CatalogueInv'
  BY CatalogueNextKeepsInv
<1> QED
  BY <1>1, <1>2, PTL DEF CatalogueSpec

\* Rows, requests and histories keep their types, for any products, SKUs, requests.
THEOREM CatalogueTypeCorrect == CatalogueSpec => []CatalogueTypeOK
<1>1. CatalogueInv => CatalogueTypeOK
  BY DEF CatalogueInv
<1> QED
  BY <1>1, CatalogueInvariant, PTL

\* Of bulkAction() and of an edit that comes late apart, a deleted product never
\* holds an SKU, and no import or order of the sync worker ends at a deleted one.
THEOREM DeletionFreesSku == CatalogueSpec => []DeletedFreesSku
<1>1. CatalogueInv => DeletedFreesSku
  BY DEF CatalogueInv
<1> QED
  BY <1>1, CatalogueInvariant, PTL

\* Save for the same two, the table refuses a checked product, one without
\* variants, only when somebody else's request came between.
THEOREM NoRefusalWithoutReason == CatalogueSpec => []RefusedWithReason
<1>1. CatalogueInv => RefusedWithReason
  BY DEF CatalogueInv
<1> QED
  BY <1>1, CatalogueInvariant, PTL

=============================================================================
