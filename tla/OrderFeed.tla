------------------------------ MODULE OrderFeed ------------------------------
(***************************************************************************)
(* A connector walks the pages of a marketplace's list of orders while the  *)
(* list changes under it, and keeps the orders whose status the settings    *)
(* name.  Each connector has a loop of its own and words of its own for the *)
(* status.                                                                  *)
(***************************************************************************)
EXTENDS Integers, SequencesExt

CONSTANTS
  FeedOrders,  \* orders, numbered from 1 as the list has them at first (a bound)
  PageSize,
  MaxPages,    \* MAX_PAGES of the connectors
  MaxShifts,   \* changes of the list during the walk (a bound)
  ImportChoices, \* what orders.importStatuses may be
  UNCOUNTED    \* the answer carries no total

ASSUME FeedAssumption ==
  /\ FeedOrders \subseteq Nat \ {0} /\ \A n \in FeedOrders : 1..n \subseteq FeedOrders
  /\ PageSize \in Nat \ {0} /\ MaxPages \in Nat \ {0} /\ MaxShifts \in Nat /\ UNCOUNTED \notin Int

VARIABLES
  market,     \* whose list it is
  wanted,     \* orders.importStatuses
  feed,       \* the list
  page,       \* pages read
  collected,  \* orders read
  walking,    \* the walk goes on
  mark,       \* how many entries of the list precede what is unread
  shifts,     \* changes of the list so far
  there,      \* history: orders in the list from beginning to end
  hitches     \* history: what came in the way

feedVars == <<market, wanted, feed, page, collected, walking, mark, shifts, there, hitches>>

-----------------------------------------------------------------------------
(* When to ask for another page: n rows came, the read-th page is done, got     *)
(* orders are collected, and the answer told the total or not.                  *)

PagesOf(total) == (total + PageSize - 1) \div PageSize
Full(n) == n = PageSize

\* A total of no pages, or none at all, counts as one page.
Counted(read, total) == total # UNCOUNTED /\ read < PagesOf(total)

Trendyol(n, read, got, total)    == Counted(read, total)
N11(n, read, got, total)         == Counted(read, total)
Idefix(n, read, got, total)      == Counted(read, total)
CicekSepeti(n, read, got, total) == Counted(read, total) /\ Full(n)

\* Mutant: the page is counted before it is compared.
PttAvmSkips(n, read, got, total) == Full(n) /\ (total # UNCOUNTED => read + 1 < PagesOf(total))

PttAvm(n, read, got, total)      == Full(n) /\ (total # UNCOUNTED => read < PagesOf(total))
Pazarama(n, read, got, total)    == Full(n) /\ (total # UNCOUNTED => got < total)
Hepsiburada(n, read, got, total) == Full(n) /\ (total # UNCOUNTED => read * PageSize < total)
Etsy(n, read, got, total)        == Full(n) /\ (total # UNCOUNTED => read * PageSize < total)

Allegro(n, read, got, total) == Full(n)
Ebay(n, read, got, total)    == Full(n)
Zalando(n, read, got, total) == Full(n)
Temu(n, read, got, total)    == Full(n)

\* One request, and what it answers.
Shopify(n, read, got, total)     == FALSE
WooCommerce(n, read, got, total) == FALSE

\* The answer names the next page until there is none.
Amazon(n, read, got, total, rest) == rest > 0

GoesOn(n, read, got, total, rest) ==
  CASE market = "trendyol"    -> Trendyol(n, read, got, total)
    [] market = "n11"         -> N11(n, read, got, total)
    [] market = "idefix"      -> Idefix(n, read, got, total)
    [] market = "ciceksepeti" -> CicekSepeti(n, read, got, total)
    [] market = "pttavm"      -> PttAvm(n, read, got, total)
    [] market = "pazarama"    -> Pazarama(n, read, got, total)
    [] market = "hepsiburada" -> Hepsiburada(n, read, got, total)
    [] market = "etsy"        -> Etsy(n, read, got, total)
    [] market = "allegro"     -> Allegro(n, read, got, total)
    [] market = "ebay"        -> Ebay(n, read, got, total)
    [] market = "zalando"     -> Zalando(n, read, got, total)
    [] market = "temu"        -> Temu(n, read, got, total)
    [] market = "shopify"     -> Shopify(n, read, got, total)
    [] market = "woocommerce" -> WooCommerce(n, read, got, total)
    [] market = "amazon"      -> Amazon(n, read, got, total, rest)

Markets == {"trendyol", "n11", "idefix", "ciceksepeti", "pttavm", "pazarama", "hepsiburada", "etsy",
            "allegro", "ebay", "zalando", "temu", "shopify", "woocommerce", "amazon"}

-----------------------------------------------------------------------------
(* Words for the status of an order: what the marketplace means, the word of    *)
(* the settings that the filter compares, the status the order is stored with.  *)

\* The last is a status of the marketplace's own for which the settings have no
\* option (Trendyol's Awaiting, UnPacked and UnDelivered).
Meanings == {"new", "preparing", "invoiced", "shipped", "delivered", "cancelled", "returned", "other"}

\* The settings' own word.
SettingsWord(meaning) ==
  CASE meaning = "new" -> "created" [] meaning = "preparing" -> "picking" [] OTHER -> meaning

\* What a connector that knows these statuses only makes of one.
WordAmong(known, meaning) == IF meaning \in known THEN SettingsWord(meaning) ELSE "created"

\* Mutant: "Picking" has no case of its own.
IdefixFolded(meaning) == WordAmong({"shipped", "delivered", "cancelled"}, meaning)

\* The raw status in small letters.
TrendyolWord(meaning)    == SettingsWord(meaning)
HepsiburadaWord(meaning) == SettingsWord(meaning)

IdefixWord(meaning)   == WordAmong({"preparing", "shipped", "delivered", "cancelled"}, meaning)
PttAvmWord(meaning)   == WordAmong({"preparing", "shipped", "delivered", "cancelled"}, meaning)
PazaramaWord(meaning) == WordAmong({"preparing", "shipped", "delivered", "cancelled"}, meaning)

\* These know no order that is being prepared.
N11Word(meaning)         == WordAmong({"shipped", "delivered", "cancelled"}, meaning)
CicekSepetiWord(meaning) == WordAmong({"shipped", "delivered", "cancelled"}, meaning)
AmazonWord(meaning)      == IF meaning = "preparing" THEN "created" ELSE SettingsWord(meaning)

\* A refunded receipt keeps the flag of the parcel that left.
EtsyWord(meaning) ==
  IF meaning = "returned" THEN "shipped" ELSE WordAmong({"shipped", "delivered", "cancelled"}, meaning)

\* These compare the status the order is stored with.
AllegroWord(meaning) == CASE meaning \in {"new", "other"} -> "pending" [] meaning = "cancelled" -> "cancelled"
                          [] OTHER -> "processing"
EbayWord(meaning)    == CASE meaning \in {"new", "cancelled", "other"} -> "pending"
                          [] meaning \in {"preparing", "invoiced"} -> "processing" [] OTHER -> "shipped"
ZalandoWord(meaning) == CASE meaning \in {"new", "other"} -> "pending"
                          [] meaning \in {"preparing", "invoiced"} -> "processing"
                          [] meaning \in {"cancelled", "returned"} -> meaning [] OTHER -> "shipped"

Unfiltered == {"temu", "shopify", "woocommerce"}

Word(meaning) ==
  CASE market = "trendyol"    -> TrendyolWord(meaning)
    [] market = "n11"         -> N11Word(meaning)
    [] market = "idefix"      -> IdefixWord(meaning)
    [] market = "ciceksepeti" -> CicekSepetiWord(meaning)
    [] market = "pttavm"      -> PttAvmWord(meaning)
    [] market = "pazarama"    -> PazaramaWord(meaning)
    [] market = "hepsiburada" -> HepsiburadaWord(meaning)
    [] market = "etsy"        -> EtsyWord(meaning)
    [] market = "amazon"      -> AmazonWord(meaning)
    [] market = "allegro"     -> AllegroWord(meaning)
    [] market = "ebay"        -> EbayWord(meaning)
    [] market = "zalando"     -> ZalandoWord(meaning)

\* An empty list of statuses keeps every order.
Kept(meaning) == market \in Unfiltered \/ wanted = {} \/ Word(meaning) \in wanted

-----------------------------------------------------------------------------
Hitches == {"removed", "added", "cut", "uncounted", "failed"}

FeedTypeOK ==
  /\ market \in Markets
  /\ wanted \in ImportChoices
  /\ feed \in Seq(FeedOrders) /\ collected \in Seq(FeedOrders)
  /\ page \in 0..MaxPages /\ mark \in Nat /\ shifts \in 0..MaxShifts
  /\ walking \in BOOLEAN
  /\ there \subseteq FeedOrders
  /\ hitches \subseteq Hitches

\* A token stays with what is unread; a page number or an offset does not.
StartOfPage == IF market = "amazon" THEN mark ELSE page * PageSize

\* At most a page of the list, after its first n entries.
PageAfter(n) == SubSeq(feed, n + 1, IF n + PageSize < Len(feed) THEN n + PageSize ELSE Len(feed))

\* Mutant: the offset advances by one less than a page.
RowsOverlapping == PageAfter(page * (PageSize - 1))

Rows == PageAfter(StartOfPage)

\* One request for a page; the answer may lack the total.
FetchPage(total) ==
  LET rows  == Rows
      rest  == Len(feed) - StartOfPage - Len(rows)
      goes  == GoesOn(Len(rows), page + 1, Len(collected) + Len(rows), total, rest)
      ended == ~(goes /\ page + 1 < MaxPages)
  IN
  /\ walking
  /\ collected' = collected \o rows
  /\ page' = page + 1
  /\ mark' = StartOfPage + PageSize
  /\ walking' = ~ended
  /\ hitches' = hitches
       \cup (IF ended /\ (goes \/ (market \in {"shopify", "woocommerce"} /\ rest > 0)) THEN {"cut"} ELSE {})
       \cup (IF total = UNCOUNTED THEN {"uncounted"} ELSE {})
  /\ UNCHANGED <<market, wanted, feed, shifts, there>>

\* A request fails for good, and with it the whole walk.
FetchFails ==
  /\ walking
  /\ walking' = FALSE
  /\ hitches' = hitches \cup {"failed"}
  /\ UNCHANGED <<market, wanted, feed, page, collected, mark, shifts, there>>

\* The list changes while the walk goes on.
Shift == walking /\ shifts < MaxShifts /\ shifts' = shifts + 1

\* The list gains an order, the first of those it does not hold ...
AddOrder(i) ==
  LET others == FeedOrders \ (ToSet(feed) \cup ToSet(collected)) IN
  /\ Shift
  /\ others # {}
  /\ feed' = InsertAt(feed, i, CHOOSE o \in others : \A p \in others : o <= p)
  /\ mark' = IF i <= mark THEN mark + 1 ELSE mark
  /\ hitches' = IF i <= mark THEN hitches \cup {"added"} ELSE hitches
  /\ UNCHANGED <<market, wanted, page, collected, walking, there>>

\* ... or loses one.
DropOrder(i) ==
  /\ Shift
  /\ feed' = RemoveAt(feed, i)
  /\ there' = there \ {feed[i]}
  /\ mark' = IF i <= mark THEN mark - 1 ELSE mark
  /\ hitches' = IF i <= mark THEN hitches \cup {"removed"} ELSE hitches
  /\ UNCHANGED <<market, wanted, page, collected, walking>>

FeedInit ==
  /\ market \in Markets
  /\ wanted \in ImportChoices
  /\ \E n \in {0} \cup FeedOrders : feed = [i \in 1..n |-> i]
  /\ there = ToSet(feed)
  /\ page = 0 /\ mark = 0 /\ shifts = 0
  /\ collected = << >>
  /\ walking = TRUE
  /\ hitches = {}

FeedNext ==
  \/ FetchPage(Len(feed)) \/ FetchPage(UNCOUNTED) \/ FetchFails
  \/ \E i \in 1..(Len(feed) + 1) : AddOrder(i)
  \/ \E i \in DOMAIN feed : DropOrder(i)

FeedSpec == FeedInit /\ [][FeedNext]_feedVars

-----------------------------------------------------------------------------
\* These ask for another page only when the answer tells how many there are.
Counting == {"trendyol", "n11", "idefix", "ciceksepeti"}

\* What makes a walk miss an order.
Losses ==
  {"cut", "failed"}
    \cup (IF market = "amazon" THEN {} ELSE {"removed"})
    \cup (IF market \in Counting THEN {"uncounted"} ELSE {})

\* A walk that no limit cut short, and under which no order that was already
\* read left the list, has read every order that was in the list throughout:
\* an order that arrives meanwhile hides none.
FetchMissesNothing ==
  (~walking /\ hitches \cap Losses = {}) => there \subseteq ToSet(collected)

\* Only an order that arrives in the part already read makes a walk read one
\* twice, and following the marketplace's own token not even that.
FetchRepeatsNothing ==
  ("added" \notin hitches \/ market = "amazon") =>
    \A i, j \in DOMAIN collected : collected[i] = collected[j] => i = j

\* The statuses for which a connector has no word, and which it counts as another.
Folded ==
  CASE market \in {"idefix", "pttavm", "pazarama"} -> {"invoiced", "returned", "other"}
    [] market \in {"n11", "ciceksepeti", "etsy"}   -> {"preparing", "invoiced", "returned", "other"}
    [] market = "amazon"                           -> {"preparing"}
    [] OTHER                                       -> {}

\* A new one, but at Etsy what was returned stays what was sent.
CountedAs(meaning) == IF market = "etsy" /\ meaning = "returned" THEN "shipped" ELSE "created"

\* An order whose status the settings name survives the connector's filter, one
\* of a status the connector has no word for provided they also name the status
\* it is counted as; and of the orders whose status they do not name only such
\* ones come through.  Allegro, eBay and Zalando compare other words.
FilterKeepsWanted ==
  market \notin {"allegro", "ebay", "zalando"} =>
    \A meaning \in Meanings :
      /\ /\ SettingsWord(meaning) \in wanted
         /\ meaning \in Folded => CountedAs(meaning) \in wanted
         => Kept(meaning)
      /\ Kept(meaning) /\ wanted # {} /\ market \notin Unfiltered =>
           SettingsWord(meaning) \in wanted \/ meaning \in Folded

\* A walk reads the orders of the list, each of them once.
FetchIsExact == FetchMissesNothing /\ FetchRepeatsNothing

=============================================================================
