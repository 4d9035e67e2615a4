----------------------------- MODULE Marketplace -----------------------------
(***************************************************************************)
(* What buyers are shown while the seller's requests are at work: the      *)
(* search of live sales, their list with the number of items (landing),    *)
(* the public page of a sale, and the page of an item.                     *)
(*                                                                         *)
(* A page is put together from several queries: the sale, its bundles, the *)
(* items of each bundle.  Nothing keeps the seller from changing the       *)
(* inventory between two of them.                                          *)
(*                                                                         *)
(* Left out: other sales, the buyer's filters, the order of the results    *)
(* and what is computed of the items read (totals, counts, signed URLs).   *)
(* An item has a listing price or has none throughout.                     *)
(***************************************************************************)
EXTENDS InventoryLifecycle

CONSTANTS
  Visitors,  \* buyers' requests in flight at the same time
  Pages,     \* the pages they ask for
  Priced     \* the items that have a listing price

ASSUME MarketplaceAssumption ==
  /\ Pages \subseteq {"search", "landing", "sale", "item"}
  /\ Priced \subseteq Items

VARIABLE visit  \* the request of each visitor

mvars == <<sale, shelf, docs, ledger, req, dirty, visit>>

Spots == Bundles \X Items

\* A visit: the query it makes next, the bundles whose items are yet to be
\* read, and the places its answer shows.  History: the places whose standing
\* has not changed since the visit began.
Visit ==
  [page : Pages, step : {"listBundles", "listItems", "context", "answer"},
   rest : SUBSET Bundles, shown : SUBSET Spots, steady : SUBSET Spots]

MarketTypeOK == visit \in [Visitors -> {Idle} \cup Visit]

\* The search: items with a price that are not withdrawn.
InSearch(i, d) == d.status # "withdrawn" /\ i \in Priced

\* The page of a sale: priced or not.
OnSalePage(d) == d.status # "withdrawn"

\* Mutant: withdrawn items are shown.
ShowsWithdrawn(page, i, d) ==
  d.status \notin Missing /\ (page = "search" => i \in Priced)

\* Whether a page shows or counts item i, given its document: the list of
\* sales counts, and the page of an item shows, whatever is there.
Shows(page, i, d) ==
  /\ d.status \notin Missing
  /\ page = "search" => InSearch(i, d)
  /\ page = "sale" => OnSalePage(d)

MarketInit == Init /\ visit = [v \in Visitors |-> Idle]
-----------------------------------------------------------------------------
(***************************************************************************)
(* Visits.                                                                 *)
(***************************************************************************)
VisitAt(v, step) == visit[v] # Idle /\ visit[v].step = step

Arrived(page, step, shown) ==
  [page |-> page, step |-> step, rest |-> {}, shown |-> shown,
   steady |-> Spots]

\* Search and list query the sales on offer, the page of a sale reads it; all
\* end here if the sale is not on offer.
VisitSale(v) ==
  /\ visit[v] = Idle
  /\ sale.status \in ActiveStatuses
  /\ \E page \in Pages \ {"item"} :
       visit' = [visit EXCEPT ![v] = Arrived(page, "listBundles", {})]
  /\ UNCHANGED vars

\* The page of an item tests nothing but that the item is there.
VisitItem(v) ==
  /\ visit[v] = Idle /\ "item" \in Pages
  /\ \E p \in {q \in Spots : Shows("item", q[2], docs[q[1]][q[2]])} :
       visit' = [visit EXCEPT ![v] = Arrived("item", "context", {p})]
  /\ UNCHANGED vars

\* Bundle and sale of the item, for their names; then the answer, whether or
\* not they are there.
ReadContext(v) ==
  /\ VisitAt(v, "context")
  /\ visit' = [visit EXCEPT ![v] = Idle]
  /\ UNCHANGED vars

VisitBundles(v) ==
  /\ VisitAt(v, "listBundles")
  /\ visit' = [visit EXCEPT ![v].rest = Shelved,
                            ![v].step = IF Shelved = {} THEN "answer" ELSE "listItems"]
  /\ UNCHANGED vars

\* The queries of all bundles are under way at the same time; each is answered
\* at once.
VisitItems(v) ==
  /\ VisitAt(v, "listItems")
  /\ \E b \in visit[v].rest :
       visit' = [visit EXCEPT
         ![v].shown = @ \cup {<<b, i>> : i \in
                        {i \in Items : Shows(visit[v].page, i, docs[b][i])}},
         ![v].rest = @ \ {b},
         ![v].step = IF visit[v].rest = {b} THEN "answer" ELSE "listItems"]
  /\ UNCHANGED vars

Answer(v) ==
  /\ VisitAt(v, "answer")
  /\ visit' = [visit EXCEPT ![v] = Idle]
  /\ UNCHANGED vars

Browse(v) == \/ VisitSale(v) \/ VisitItem(v) \/ ReadContext(v)
             \/ VisitBundles(v) \/ VisitItems(v) \/ Answer(v)

\* What buyers are to find of a place: whether its bundle is there, and its
\* item for sale, reserved or sold, with a price if they search; in the list
\* of sales withdrawn items count too.
Standing ==
  [page \in Pages |->
     [p \in Spots |->
        [bundle |-> p[1] \in Shelved,
         item   |-> /\ docs[p[1]][p[2]].status \in
                         {"available", "reserved", "sold"} \cup
                         (IF page = "landing" THEN {"withdrawn"} ELSE {})
                    /\ page = "search" => p[2] \in Priced]]]

OnShow(page, p) == Standing[page][p].bundle /\ Standing[page][p].item

\* A visit goes on while the standing of some places changes.
Watched(t) ==
  IF t = Idle \/ t.page = "item" THEN t
  ELSE [t EXCEPT !.steady = {p \in @ : Standing[t.page][p] = Standing'[t.page][p]}]

\* A step of one of the seller's requests.
Seller == Next /\ visit' = [v \in Visitors |-> Watched(visit[v])]

MarketNext == Seller \/ \E v \in Visitors : Browse(v)

MarketSpec == MarketInit /\ [][MarketNext]_mvars
-----------------------------------------------------------------------------
(***************************************************************************)
(* Properties.                                                             *)
(***************************************************************************)

\* An answer put together from several queries is right about everything that
\* did not change meanwhile: an item is shown just if it is on offer, whatever
\* became of other items, of other bundles and of the sale during the visit.
\* (marketplace_repo.py 32-88, 219-269)
AnswerIsRight ==
  \A v \in Visitors : VisitAt(v, "answer") =>
    \A p \in visit[v].steady :
      p \in visit[v].shown <=> OnShow(visit[v].page, p)
=============================================================================
