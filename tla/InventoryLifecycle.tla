------------------------- MODULE InventoryLifecycle -------------------------
(***************************************************************************)
(* The sold-state machine of one sale: the seller's reserve, release, sell,*)
(* withdraw and relist requests on items, bundles and the whole sale, the  *)
(* roll-up each of them ends with, the requests that publish, unpublish or *)
(* archive the sale, and the edits of its bundles and items.               *)
(*                                                                         *)
(* The code uses no Firestore transaction: a handler is a sequence of      *)
(* single-document reads and writes, and between two of them any other     *)
(* handler (on this or on another instance) may run.  Each of these calls  *)
(* is one step here.  A handler works on what it read: the items it still  *)
(* has to write, and the roll-up it computed from a query.                 *)
(*                                                                         *)
(* Left out: prices, buyers, notes, the reserved/released/withdrawn audit  *)
(* records, notifications, and rejected requests (they change nothing).    *)
(***************************************************************************)
EXTENDS Rollup

CONSTANTS
  Bundles, Items,  \* document ids
  Handlers,        \* requests in flight at the same time
  Home,            \* the bundle each item starts in, or NoBundle
  NoBundle,
  SaleDoc,         \* names the sale document beside the bundle documents
  EnabledOps,      \* the requests clients send
  MayFail,         \* whether a Firestore call may raise, or an instance die
  MaxSoldTx        \* bound: no sell request once an item has this many records

ItemOps   == {"reserve_item", "release_reservation", "mark_item_sold",
              "withdraw_item", "relist_item"}
BundleOps == {"mark_bundle_sold", "withdraw_bundle"}
SaleOps   == {"mark_sale_sold", "withdraw_sale"}
StatusOps == {"publish_sale", "unpublish_sale", "archive_sale",
              "republish_sale"}
EditOps   == {"add_bundle", "remove_bundle", "add_manual_item",
              "remove_item", "move_item"}
LifecycleOps == ItemOps \cup BundleOps \cup SaleOps
Ops == LifecycleOps \cup StatusOps \cup EditOps

SellOps == {"mark_item_sold", "mark_bundle_sold", "mark_sale_sold"}

ASSUME ConstantsAssumption ==
  /\ IsFiniteSet(Bundles) /\ IsFiniteSet(Items)
  /\ Bundles # {}
  /\ NoBundle \notin Bundles
  /\ SaleDoc \notin Bundles
  /\ Home \in [Items -> Bundles \cup {NoBundle}]
  /\ EnabledOps \subseteq Ops
  /\ MayFail \in BOOLEAN
  /\ MaxSoldTx \in Nat

VARIABLES
  sale,    \* the sale document: status and the item counts
  shelf,   \* bundles/{b}: the cached roll-up
  docs,    \* bundles/{b}/items/{i}: sale_status and sold_as
  ledger,  \* how many "sold" records of the transaction log name each item
  req,     \* the request each handler is executing
  dirty    \* history: documents whose roll-up no finished request vouches for

vars == <<sale, shelf, docs, ledger, req, dirty>>
-----------------------------------------------------------------------------
\* "absent": the id was never used.  "deleted": a document was there.  Both
\* read the same; Firestore never hands out an id twice.
Missing == {Absent, "deleted"}

ItemDoc   == [status : ItemStatuses \cup Missing,
              soldAs : {"none", "item", "bundle", "sale"}]
BundleDoc == [status : BundleStatuses \cup Missing, sold : Nat, total : Nat]
SaleDocument == [status : SaleStatuses, sold : Nat, total : Nat]

Gone(d)  == [d EXCEPT !.status = IF @ = Absent THEN Absent ELSE "deleted"]
NewItem  == [status |-> "available", soldAs |-> "none"]
NoItem   == [status |-> Absent, soldAs |-> "none"]
NoShelf  == [status |-> Absent, sold |-> 0, total |-> 0]

\* What a query of the sub-collection bundles/{b}/items, and of the
\* collection bundles, returns.
ItemsIn(b)    == {i \in Items : docs[b][i].status \notin Missing}
StatusesIn(b) == [i \in ItemsIn(b) |-> docs[b][i].status]
Shelved       == {b \in Bundles : shelf[b].status \notin Missing}
ShelfView     == [b \in Shelved |-> shelf[b]]
Sellable(b)   == {i \in Items : docs[b][i].status \in {"available", "reserved"}}

Idle == [step |-> "idle"]

\* A request: the operation and its next step, the bundle it is at, the items
\* it still has to write (todo) and those its audit record names (hit), the
\* bundles it has not reached yet (rest), what it last computed or read
\* (view), the documents it is about (touches) and, of those, the ones
\* another request was about at the same time (contended).
Steps == {"read", "listBundles", "listItems", "write", "record",
          "listForRollup", "rollBundle", "listForSale", "readSale",
          "moveSale", "countSale", "setStatus", "setBundle", "setItem",
          "deleteItem", "readSource", "setTarget", "deleteSource",
          "listDoomed", "deleteItems", "deleteBundle"}

Nothing == [nothing |-> TRUE]

Request ==
  [op : Ops, step : Steps, bundle : Bundles, todo : SUBSET Items,
   hit : SUBSET Items, rest : SUBSET Bundles,
   view : {Nothing} \cup BundleRollup \cup SaleRollup \cup ItemDoc,
   touches : SUBSET (Bundles \cup {SaleDoc}),
   contended : SUBSET (Bundles \cup {SaleDoc})]

Busy == {h \in Handlers : req[h] # Idle}

TypeOK ==
  /\ sale \in SaleDocument
  /\ shelf \in [Bundles -> BundleDoc]
  /\ docs \in [Bundles -> [Items -> ItemDoc]]
  /\ ledger \in [Items -> Nat]
  /\ req \in [Handlers -> {Idle} \cup Request]
  /\ dirty \subseteq Bundles \cup {SaleDoc}
-----------------------------------------------------------------------------
(***************************************************************************)
(* A reviewed sale: its bundles as the pipeline left them, every item      *)
(* available and no roll-up written yet; or one still to be filled by hand.*)
(***************************************************************************)
Init ==
  /\ sale = [status |-> "ready_for_review", sold |-> 0, total |-> 0]
  /\ shelf = [b \in Bundles |-> IF \E i \in Items : Home[i] = b
                                THEN FreshBundle ELSE NoShelf]
  /\ docs = [b \in Bundles |->
               [i \in Items |-> IF Home[i] = b THEN NewItem ELSE NoItem]]
  /\ ledger = [i \in Items |-> 0]
  /\ req = [h \in Handlers |-> Idle]
  /\ dirty = {}

\* Requests that change what a roll-up would compute and do not roll up.
Unrolled == EditOps \cup {"publish_sale", "republish_sale"}

\* Handler h takes the request: authentication and the ownership check, whose
\* read of the sale is the one the status guards test.
Begin(h, op, step, b, todo, rest, touches) ==
  LET others == UNION {req[g].touches : g \in Busy}
  IN /\ op \in EnabledOps
     /\ req[h] = Idle
     /\ req' = [g \in Handlers |->
          IF g = h
          THEN [op |-> op, step |-> step, bundle |-> b, todo |-> todo,
                hit |-> {}, rest |-> rest, view |-> Nothing,
                touches |-> touches, contended |-> touches \cap others]
          ELSE IF g \in Busy
          THEN [req[g] EXCEPT !.contended = @ \cup (touches \cap req[g].touches)]
          ELSE req[g]]
     /\ dirty' = dirty \cup (touches \cap others)
                       \cup (IF op \in Unrolled THEN touches ELSE {})
     /\ UNCHANGED <<sale, shelf, docs, ledger>>

\* The request of h is answered.
End(h) == req' = [req EXCEPT ![h] = Idle]

\* A call of h raised: the request stops where it is, what it wrote stays.
Abort(h) ==
  /\ End(h)
  /\ dirty' = dirty \cup req[h].touches
  /\ UNCHANGED <<sale, shelf, docs, ledger>>

Goto(h, step) == req' = [req EXCEPT ![h].step = step]

At(h, step) == req[h] # Idle /\ req[h].step = step

\* The bundle of a request that is not at one (yet).
NoneYet == CHOOSE b \in Bundles : TRUE

\* The bound on sell requests.
BelowBound(op) == op \in SellOps => \A i \in Items : ledger[i] < MaxSoldTx
-----------------------------------------------------------------------------
(***************************************************************************)
(* Items: reserve, release, mark sold, withdraw, relist.                   *)
(***************************************************************************)
Ungated == {"release_reservation", "relist_item"}

BeginItemOp(h) ==
  \E op \in ItemOps, b \in Bundles, i \in Items :
    /\ op \notin Ungated => sale.status \in ActiveStatuses
    /\ BelowBound(op)
    /\ Begin(h, op, "read", b, {i}, {}, {b, SaleDoc})

\* Mutant: the status checks are missing.
AcceptsAnything(op) == ItemStatuses

\* The item statuses each operation accepts; it refuses the others.
Accepts(op) ==
  CASE op = "reserve_item"        -> {"available"}
    [] op = "release_reservation" -> {"reserved"}
    [] op = "mark_item_sold"      -> {"available", "reserved"}
    [] op = "withdraw_item"       -> {"available", "reserved", "withdrawn"}
    [] op = "relist_item"         -> {"withdrawn"}

ReadItem(h) ==
  LET r == req[h]
      accepted == \A i \in r.todo : docs[r.bundle][i].status \in Accepts(r.op)
  IN /\ At(h, "read")
     /\ IF accepted
        THEN req' = [req EXCEPT ![h].step = "write", ![h].hit = r.todo]
        ELSE End(h)
     /\ UNCHANGED <<sale, shelf, docs, ledger, dirty>>
-----------------------------------------------------------------------------
(***************************************************************************)
(* Bundles and the whole sale: mark sold, withdraw.                        *)
(***************************************************************************)
BeginBundleOp(h) ==
  \E op \in BundleOps, b \in Bundles :
    /\ sale.status \in ActiveStatuses
    /\ BelowBound(op)
    /\ Begin(h, op, "listItems", b, {}, {}, {b, SaleDoc})

BeginSaleOp(h) ==
  \E op \in SaleOps :
    /\ sale.status \in ActiveStatuses
    /\ BelowBound(op)
    /\ Begin(h, op, "listBundles", NoneYet, {}, {}, Bundles \cup {SaleDoc})

\* Mutant: the loop ends after the first bundle.
AdvanceOnce(r, rest) ==
  IF r.step # "listBundles"
  THEN {[r EXCEPT !.step = "record"]}
  ELSE {[r EXCEPT !.step = "listItems", !.bundle = b, !.rest = rest \ {b}] :
          b \in rest}

\* The loop of a sale-wide request: the next bundle of its query, or, after
\* the last one, the audit record.
Advance(r, rest) ==
  IF rest = {}
  THEN {[r EXCEPT !.step = "record"]}
  ELSE {[r EXCEPT !.step = "listItems", !.bundle = b, !.rest = rest \ {b}] :
          b \in rest}

ListBundles(h) ==
  /\ At(h, "listBundles")
  /\ \E r \in Advance(req[h], Shelved) : req' = [req EXCEPT ![h] = r]
  /\ UNCHANGED <<sale, shelf, docs, ledger, dirty>>

\* Mutants: the bundle's roll-up, or the audit record, is forgotten.
AfterWritesNoRollup(op) == "listForSale"
AfterWritesNoRecord(op) == "listForRollup"

\* After the last item: an item or bundle request writes its audit record
\* (relisting has none), a sale-wide one rolls the bundle up.
AfterWrites(op) == IF op \in SaleOps \cup {"relist_item"}
                   THEN "listForRollup" ELSE "record"

ListItems(h) ==
  LET r == req[h]
      todo == Sellable(r.bundle)
  IN /\ At(h, "listItems")
     /\ IF r.op = "mark_bundle_sold" /\ todo = {}
        THEN End(h)
        ELSE req' = [req EXCEPT
               ![h].todo = todo,
               ![h].hit  = IF r.op \in BundleOps THEN todo ELSE {},
               ![h].step = IF todo = {} THEN AfterWrites(r.op) ELSE "write"]
     /\ UNCHANGED <<sale, shelf, docs, ledger, dirty>>

\* The update each operation makes to an item document, whatever the
\* document holds by now.
Updated(op, d) ==
  CASE op = "reserve_item" -> [d EXCEPT !.status = "reserved"]
    [] op \in {"release_reservation", "relist_item"}
                           -> [d EXCEPT !.status = "available"]
    [] op \in {"withdraw_item", "withdraw_bundle", "withdraw_sale"}
                           -> [d EXCEPT !.status = "withdrawn"]
    [] op = "mark_item_sold"   -> [status |-> "sold", soldAs |-> "item"]
    [] op = "mark_bundle_sold" -> [status |-> "sold", soldAs |-> "bundle"]
    [] op = "mark_sale_sold"   -> [status |-> "sold", soldAs |-> "sale"]

WriteItem(h) ==
  LET r == req[h]
  IN /\ At(h, "write")
     /\ \E i \in r.todo :
          /\ docs[r.bundle][i].status \notin Missing
          /\ docs' = [docs EXCEPT ![r.bundle][i] = Updated(r.op, @)]
          /\ req' = [req EXCEPT
               ![h].todo = r.todo \ {i},
               ![h].step = IF r.todo = {i} THEN AfterWrites(r.op) ELSE "write"]
     /\ UNCHANGED <<sale, shelf, ledger, dirty>>

\* update() of a document that was deleted in the meantime raises NotFound.
WriteMissing(h) ==
  /\ At(h, "write")
  /\ \E i \in req[h].todo : docs[req[h].bundle][i].status \in Missing
  /\ Abort(h)

\* One audit record.  A sold record names an item, or the items of a bundle;
\* that of a sale-wide request names none.
Record(h) ==
  LET r == req[h]
  IN /\ At(h, "record")
     /\ ledger' = [i \in Items |->
          IF r.op \in SellOps /\ i \in r.hit THEN ledger[i] + 1 ELSE ledger[i]]
     /\ Goto(h, IF r.op \in SaleOps THEN "listForSale" ELSE "listForRollup")
     /\ UNCHANGED <<sale, shelf, docs, dirty>>
-----------------------------------------------------------------------------
(***************************************************************************)
(* The roll-up: bundle, then sale.                                         *)
(***************************************************************************)
AfterRollup(r) == IF r.op \in SaleOps
                  THEN Advance(r, r.rest)
                  ELSE {[r EXCEPT !.step = "listForSale"]}

\* A bundle without items is not rolled up.
ListForRollup(h) ==
  LET r == req[h]
  IN /\ At(h, "listForRollup")
     /\ IF ItemsIn(r.bundle) = {}
        THEN \E n \in AfterRollup(r) : req' = [req EXCEPT ![h] = n]
        ELSE req' = [req EXCEPT ![h].view = RollupBundle(StatusesIn(r.bundle)),
                                ![h].step = "rollBundle"]
     /\ UNCHANGED <<sale, shelf, docs, ledger, dirty>>

RollBundle(h) ==
  LET r == req[h]
  IN /\ At(h, "rollBundle")
     /\ r.bundle \in Shelved
     /\ shelf' = [shelf EXCEPT ![r.bundle] = r.view]
     /\ dirty' = IF r.bundle \in r.contended THEN dirty ELSE dirty \ {r.bundle}
     /\ \E n \in AfterRollup(r) : req' = [req EXCEPT ![h] = n]
     /\ UNCHANGED <<sale, docs, ledger>>

RollMissing(h) ==
  /\ At(h, "rollBundle")
  /\ req[h].bundle \notin Shelved
  /\ Abort(h)

ListForSale(h) ==
  /\ At(h, "listForSale")
  /\ IF Shelved = {}
     THEN End(h)
     ELSE req' = [req EXCEPT ![h].view = RollupSale(ShelfView),
                             ![h].step = "readSale"]
  /\ UNCHANGED <<sale, shelf, docs, ledger, dirty>>

\* Mutant: a partly sold sale is left alone.
ReadPartlySold(h) ==
  /\ At(h, "readSale")
  /\ IF sale.status \notin RolledUpStatuses
     THEN End(h)
     ELSE Goto(h, IF req[h].view.status \in {sale.status, "partially_sold"}
                  THEN "countSale" ELSE "moveSale")
  /\ UNCHANGED <<sale, shelf, docs, ledger, dirty>>

ReadSale(h) ==
  /\ At(h, "readSale")
  /\ IF sale.status \notin RolledUpStatuses
     THEN End(h)
     ELSE Goto(h, IF sale.status = req[h].view.status
                  THEN "countSale" ELSE "moveSale")
  /\ UNCHANGED <<sale, shelf, docs, ledger, dirty>>

\* Writes the status decided two calls ago, whatever the sale's status is now.
MoveSale(h) ==
  /\ At(h, "moveSale")
  /\ sale' = [sale EXCEPT !.status = req[h].view.status]
  /\ Goto(h, "countSale")
  /\ UNCHANGED <<shelf, docs, ledger, dirty>>

CountSale(h) ==
  LET r == req[h]
  IN /\ At(h, "countSale")
     /\ sale' = [sale EXCEPT !.sold = r.view.sold, !.total = r.view.total]
     /\ dirty' = IF SaleDoc \in r.contended THEN dirty ELSE dirty \ {SaleDoc}
     /\ End(h)
     /\ UNCHANGED <<shelf, docs, ledger>>
-----------------------------------------------------------------------------
(***************************************************************************)
(* The status of the sale: publish, unpublish, archive, republish.         *)
(***************************************************************************)

\* The statuses the guard of each endpoint lets through.
Permits(op) ==
  CASE op = "publish_sale"   -> SaleStatuses
    [] op = "unpublish_sale" -> ActiveStatuses
    [] op = "archive_sale"   -> SaleStatuses \ PipelineStatuses
    [] op = "republish_sale" -> {"ready_for_review"}

Becomes(op) ==
  CASE op \in {"publish_sale", "republish_sale"} -> "live"
    [] op = "unpublish_sale" -> "ready_for_review"
    [] op = "archive_sale"   -> "archived"

BeginStatusOp(h) ==
  \E op \in StatusOps :
    /\ sale.status \in Permits(op)
    /\ Begin(h, op, "setStatus", NoneYet, {}, {}, {SaleDoc})

SetStatus(h) ==
  /\ At(h, "setStatus")
  /\ sale' = [sale EXCEPT !.status = Becomes(req[h].op)]
  /\ End(h)
  /\ UNCHANGED <<shelf, docs, ledger, dirty>>
-----------------------------------------------------------------------------
(***************************************************************************)
(* Edits of the inventory.  None of them rolls up.  Adding and removing    *)
(* test no status.                                                         *)
(***************************************************************************)
BeginEdit(h) ==
  \E op \in EditOps, b \in Bundles, i \in Items :
    \/ /\ op = "add_bundle"
       /\ shelf[b].status = Absent
       /\ Begin(h, op, "setBundle", b, {}, {}, {b, SaleDoc})
    \/ /\ op = "remove_bundle"
       /\ Begin(h, op, "listDoomed", b, {}, {}, {b, SaleDoc})
    \/ /\ op = "add_manual_item"
       /\ \A c \in Bundles : docs[c][i].status = Absent
       /\ Begin(h, op, "setItem", b, {i}, {}, {b})
    \/ /\ op = "remove_item"
       /\ Begin(h, op, "deleteItem", b, {i}, {}, {b})
    \/ /\ op = "move_item"
       /\ sale.status \in EditableStatuses
       /\ \E to \in Bundles \ {b} :
            Begin(h, op, "readSource", b, {i}, {to}, {b, to})

SetBundle(h) ==
  /\ At(h, "setBundle")
  /\ shelf' = [shelf EXCEPT ![req[h].bundle] = FreshBundle]
  /\ End(h)
  /\ UNCHANGED <<sale, docs, ledger, dirty>>

SetItem(h) ==
  /\ At(h, "setItem")
  /\ \E i \in req[h].todo :
       docs' = [docs EXCEPT ![req[h].bundle][i] = NewItem]
  /\ End(h)
  /\ UNCHANGED <<sale, shelf, ledger, dirty>>

DeleteItem(h) ==
  /\ At(h, "deleteItem")
  /\ \E i \in req[h].todo : docs' = [docs EXCEPT ![req[h].bundle][i] = Gone(@)]
  /\ End(h)
  /\ UNCHANGED <<sale, shelf, ledger, dirty>>

\* Mutant: the original is deleted before the copy is written.
CutSource(h) ==
  /\ At(h, "readSource")
  /\ \E i \in req[h].todo :
       IF docs[req[h].bundle][i].status \in Missing
       THEN End(h) /\ UNCHANGED docs
       ELSE /\ req' = [req EXCEPT ![h].view = docs[req[h].bundle][i],
                                  ![h].step = "setTarget"]
            /\ docs' = [docs EXCEPT ![req[h].bundle][i] = Gone(@)]
  /\ UNCHANGED <<sale, shelf, ledger, dirty>>

\* Moving an item: read it, write the copy, delete the original.
ReadSource(h) ==
  /\ At(h, "readSource")
  /\ \E i \in req[h].todo :
       IF docs[req[h].bundle][i].status \in Missing
       THEN End(h)
       ELSE req' = [req EXCEPT ![h].view = docs[req[h].bundle][i],
                               ![h].step = "setTarget"]
  /\ UNCHANGED <<sale, shelf, docs, ledger, dirty>>

SetTarget(h) ==
  /\ At(h, "setTarget")
  /\ \E i \in req[h].todo, to \in req[h].rest :
       docs' = [docs EXCEPT ![to][i] = req[h].view]
  /\ Goto(h, "deleteSource")
  /\ UNCHANGED <<sale, shelf, ledger, dirty>>

DeleteSource(h) ==
  /\ At(h, "deleteSource")
  /\ \E i \in req[h].todo : docs' = [docs EXCEPT ![req[h].bundle][i] = Gone(@)]
  /\ End(h)
  /\ UNCHANGED <<sale, shelf, ledger, dirty>>

\* Removing a bundle: list its items, delete them one by one, then the bundle.
ListDoomed(h) ==
  LET doomed == ItemsIn(req[h].bundle)
  IN /\ At(h, "listDoomed")
     /\ req' = [req EXCEPT
          ![h].todo = doomed,
          ![h].step = IF doomed = {} THEN "deleteBundle" ELSE "deleteItems"]
     /\ UNCHANGED <<sale, shelf, docs, ledger, dirty>>

DeleteItems(h) ==
  LET r == req[h]
  IN /\ At(h, "deleteItems")
     /\ \E i \in r.todo :
          /\ docs' = [docs EXCEPT ![r.bundle][i] = Gone(@)]
          /\ req' = [req EXCEPT
               ![h].todo = r.todo \ {i},
               ![h].step = IF r.todo = {i} THEN "deleteBundle" ELSE "deleteItems"]
     /\ UNCHANGED <<sale, shelf, ledger, dirty>>

DeleteBundle(h) ==
  /\ At(h, "deleteBundle")
  /\ shelf' = [shelf EXCEPT ![req[h].bundle] = Gone(@)]
  /\ End(h)
  /\ UNCHANGED <<sale, docs, ledger, dirty>>
-----------------------------------------------------------------------------
\* A Firestore call raises, or the instance dies, anywhere in a request.
Fail(h) == MayFail /\ req[h] # Idle /\ Abort(h)

BeginRequest(h) == \/ BeginItemOp(h) \/ BeginBundleOp(h) \/ BeginSaleOp(h)
                   \/ BeginStatusOp(h) \/ BeginEdit(h)

Proceed(h) ==
  \/ ReadItem(h) \/ ListBundles(h) \/ ListItems(h) \/ WriteItem(h)
  \/ WriteMissing(h) \/ Record(h) \/ ListForRollup(h) \/ RollBundle(h)
  \/ RollMissing(h) \/ ListForSale(h) \/ ReadSale(h) \/ MoveSale(h)
  \/ CountSale(h) \/ SetStatus(h) \/ SetBundle(h) \/ SetItem(h)
  \/ DeleteItem(h) \/ ReadSource(h) \/ SetTarget(h) \/ DeleteSource(h)
  \/ ListDoomed(h) \/ DeleteItems(h) \/ DeleteBundle(h)

Next == \E h \in Handlers : BeginRequest(h) \/ Proceed(h) \/ Fail(h)

Spec == Init /\ [][Next]_vars

\* Every Firestore call returns or raises, and the event loop resumes the
\* handler: a request in flight goes on.
FairSpec == Spec /\ \A h \in Handlers : WF_vars(Proceed(h))
-----------------------------------------------------------------------------
(***************************************************************************)
(* Properties.                                                             *)
(***************************************************************************)
CachedRight(b) ==
  (b \in Shelved /\ ItemsIn(b) # {}) =>
     /\ shelf[b].status = BundleStatusOf(StatusesIn(b))
     /\ shelf[b].sold = Count(StatusesIn(b), "sold")

SaleRight ==
  (sale.status \in RolledUpStatuses /\ Shelved # {}) =>
     sale.status = SaleStatusOf(ShelfView)

\* Roll-ups heal: a bundle's cached sale_status and sold_count are those of
\* its items whenever no request about it is in flight, unless an edit, a
\* failure, or two overlapping requests about that bundle came after the last
\* request that had the bundle to itself.  (inventory_lifecycle.py 480-512)
BundleSynced ==
  \A b \in Bundles \ dirty :
    (\A h \in Busy : b \notin req[h].touches) => CachedRight(b)

\* The same for the sale: a published sale's status is the one its bundle
\* documents give, unless a publish, a failure or an overlap came after the
\* last undisturbed roll-up.  (inventory_lifecycle.py 514-557)
SaleSynced ==
  (SaleDoc \notin dirty /\ \A h \in Busy : SaleDoc \notin req[h].touches)
     => SaleRight

\* An item is sold once: at most one "sold" record names it.
\* (mark_item_sold refuses an item that is already sold)
NoDoubleSale == \A i \in Items : ledger[i] <= 1

\* The transaction log never reports the sale of an item that is not sold:
\* the item is written before the record, and a sold item stays sold.
LedgerTruthful ==
  \A i \in Items, b \in Bundles :
    ledger[i] > 0 => docs[b][i].status \in {"sold"} \cup Missing

\* Once no request is in flight, every item sold by itself or with its bundle
\* has its record in the transaction log.
LedgerComplete ==
  Busy = {} => \A b \in Bundles, i \in Items :
    (docs[b][i].status = "sold" /\ docs[b][i].soldAs # "sale") => ledger[i] > 0

\* The status buyers see of an item: that of its document, wherever it is.
Places(i) == {b \in Bundles : docs[b][i].status \notin Missing}
ItemState ==
  [i \in Items |->
     IF Places(i) # {} THEN docs[CHOOSE b \in Places(i) : TRUE][i].status
     ELSE IF \E b \in Bundles : docs[b][i].status = "deleted"
     THEN "gone" ELSE "absent"]

Ledger == INSTANCE ItemLedger WITH status <- ItemState

\* The handlers, one request at a time, implement the life of an item: each
\* item goes through the moves of ItemLedger and no other.
ImplementsItemLedger == Ledger!Spec

\* Moving an item never loses it: its last document disappears only in a
\* request that removes it, even if a move stops half way.  (move_item writes
\* the copy before it deletes the original)
LastCopyKept ==
  [][\A i \in Items :
       Places(i) # {} =>
          \/ \E b \in Bundles : docs'[b][i].status \notin Missing
          \/ \E h \in Busy : req[h].op \in {"remove_item", "remove_bundle"}]_vars

\* "Item reserve/sell/withdraw; bundle/sale sold-status rolls up automatically"
\* (README.md:63): between requests, a bundle's cached status is the one its
\* items call for, and a published sale's the one all its items call for,
\* unless an edit or a publish came after the last roll-up.
RollsUpAutomatically ==
  LET filled == {b \in Shelved : ItemsIn(b) # {}}
  IN Busy = {} =>
       /\ \A b \in filled \ dirty :
            shelf[b].status = DeclaredBundleStatus(StatusesIn(b))
       /\ (SaleDoc \notin dirty /\ dirty = {} /\ Shelved # {}
             /\ filled = Shelved /\ sale.status \in RolledUpStatuses) =>
            sale.status = DeclaredSaleStatus([b \in Shelved |-> StatusesIn(b)])

\* Marking the whole sale sold makes it sold, when every bundle has items and
\* something is left to sell.  (mark_sale_sold)
SaleSoldCompletes ==
  \A h \in Handlers :
    (/\ At(h, "listBundles") /\ req[h].op = "mark_sale_sold"
     /\ \E b \in Shelved : Sellable(b) # {}
     /\ \A b \in Shelved : ItemsIn(b) # {})
    ~> sale.status = "sold"
-----------------------------------------------------------------------------
(***************************************************************************)
(* Why BundleSynced and SaleSynced hold: the inductive invariant.          *)
(***************************************************************************)
LifecycleSteps == {"read", "listBundles", "listItems", "write", "record",
                   "listForRollup", "rollBundle", "listForSale", "readSale",
                   "moveSale", "countSale"}
SaleSteps == {"readSale", "moveSale", "countSale"}
BundleEditSteps == {"setBundle", "listDoomed", "deleteItems", "deleteBundle"}

\* A request is at a step of its operation, is about the documents it writes,
\* and holds what it read for the step it is at.
Shaped(r) ==
  /\ r.op \in LifecycleOps <=> r.step \in LifecycleSteps
  /\ r.op \in StatusOps <=> r.step = "setStatus"
  /\ r.step = "listBundles" => r.op \in SaleOps
  /\ r.op \notin EditOps => SaleDoc \in r.touches
  /\ r.step \in BundleEditSteps => SaleDoc \in r.touches
  /\ r.op \in SaleOps => Bundles \subseteq r.touches
  /\ r.op \notin StatusOps => r.bundle \in r.touches
  /\ r.op \in EditOps => r.rest \subseteq r.touches
  /\ r.step = "rollBundle" => r.view \in BundleRollup
  /\ r.step \in SaleSteps => r.view \in SaleRollup
  /\ r.step = "setTarget" => r.view \in ItemDoc

\* What a request may leave unvouched is marked.
Marked(r) == /\ r.op \in Unrolled => r.touches \subseteq dirty
             /\ r.contended \subseteq r.touches \cap dirty

WellFormed(r) == Shaped(r) /\ Marked(r)

\* Two requests about a document both know that it is contended.
OverlapsKnown ==
  \A g, h \in Busy :
    g # h => req[g].touches \cap req[h].touches \subseteq req[h].contended

\* Request r has written items of its bundle and will roll the bundle up.
Owes(r) == \/ r.step \in {"write", "listForRollup", "rollBundle"}
           \/ r.step = "record" /\ r.op \notin SaleOps

\* What an undisturbed request is about to write to its bundle is right.
RollsRight(r) ==
  (r.step = "rollBundle" /\ r.bundle \notin r.contended)
     => r.view = RollupBundle(StatusesIn(r.bundle))

\* Every bundle no one disturbed is right, or a request owes it a roll-up.
BundlesVouched ==
  \A b \in Bundles \ dirty :
    CachedRight(b) \/ \E h \in Busy : Owes(req[h]) /\ req[h].bundle = b

BundleInv ==
  /\ \A h \in Busy : WellFormed(req[h]) /\ RollsRight(req[h])
  /\ OverlapsKnown
  /\ BundlesVouched

\* Request r may have rolled a bundle up and will roll the sale up.
OwesSale(r) == /\ r.op \in LifecycleOps
               /\ r.step \notin {"read", "listBundles"}
               /\ r.op \in BundleOps => r.step # "listItems"

SaleRollsRight(r) ==
  (r.step \in SaleSteps /\ SaleDoc \notin r.contended) =>
     /\ r.view = RollupSale(ShelfView)
     /\ r.step = "countSale" => sale.status = r.view.status

\* The published status is right, or a request will set it.
SaleVouched == SaleDoc \notin dirty =>
                 SaleRight \/ \E h \in Busy : OwesSale(req[h])

SaleInv == BundleInv /\ SaleVouched /\ \A h \in Busy : SaleRollsRight(req[h])
=============================================================================
