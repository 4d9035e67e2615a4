--------------------------- MODULE SoldOnce_proofs ---------------------------
(***************************************************************************)
(* An item is sold once, the log of sales is true and complete, every item *)
(* follows the life ItemLedger allows it, and none is lost: proofs about   *)
(* InventoryLifecycle, for one request at a time.                          *)
(*                                                                         *)
(* Two requests sell one item twice (the code has no transaction), and a   *)
(* move that stops half way leaves two copies of it: hence OneAtATime.     *)
(* Other requests may stop at any call, except where the log is to be      *)
(* complete.                                                               *)
(***************************************************************************)
EXTENDS InventoryLifecycle_proofs

\* One request at a time, and no move that stops half way.
OneAtATime == /\ \A g, h \in Handlers : g = h
              /\ MayFail => "move_item" \notin EnabledOps

ItemDocs == [Bundles -> [Items -> ItemDoc]]

\* Item i is in no other bundle than b.
PlacedAt(d, b, i) == \A c \in Bundles : d[c][i].status \notin Missing => c = b

SinglePlace(d) ==
  \A i \in Items, b, c \in Bundles :
    d[b][i].status \notin Missing /\ d[c][i].status \notin Missing => b = c

\* Documents d once that of item i in bundle b is x.
With(d, b, i, x) == [d EXCEPT ![b][i] = x]

\* An item that was recorded as sold is, or was removed since.
Recorded ==
  \A i \in Items : ledger[i] > 0 =>
    /\ ledger[i] = 1
    /\ \A b \in Bundles : docs[b][i].status \in {"sold"} \cup Missing
    /\ \E b \in Bundles : docs[b][i].status # Absent

\* The statuses from which a request changes an item.
From(op) == IF op \in ItemOps THEN Accepts(op) ELSE {"available", "reserved"}

\* A move: it has read the item; then there are two copies, one of which goes.
Carries(r) ==
  \E i \in Items, to \in Bundles \ {r.bundle} :
    /\ r.todo = {i} /\ r.rest = {to}
    /\ r.step = "setTarget" => /\ r.view = docs[r.bundle][i]
                               /\ docs[r.bundle][i].status \notin Missing
    /\ r.step = "deleteSource" =>
         /\ docs[to][i] = docs[r.bundle][i]
         /\ docs[to][i].status \notin Missing
         /\ SinglePlace(With(docs, r.bundle, i, Gone(docs[r.bundle][i])))

\* What a request has found, or done, when it comes to a step.
Stage(r) ==
  /\ r.op \in EnabledOps
  /\ r.step = "read" => r.op \in ItemOps
  /\ r.step = "listItems" => r.op \in BundleOps \cup SaleOps
  /\ r.step \in {"readSource", "setTarget", "deleteSource"} =>
       r.op = "move_item" /\ Carries(r)
  /\ r.step = "setItem" => \A i \in r.todo, b \in Bundles : docs[b][i].status = Absent
  /\ r.step = "write" => \A i \in r.todo : docs[r.bundle][i].status \in From(r.op)
  /\ r.op \in SaleOps => r.hit = {}
  /\ r.step \in {"write", "record"} /\ r.op \in SellOps =>
       \A i \in r.hit : /\ ledger[i] = 0
                        /\ \/ docs[r.bundle][i].status = "sold"
                           \/ r.step = "write" /\ i \in r.todo

\* A move has written the copy.
Copied == \E h \in Busy : req[h].step = "deleteSource"

SoldInv == /\ Copied \/ SinglePlace(docs)
           /\ Recorded
           /\ \A h \in Busy : Stage(req[h])
-----------------------------------------------------------------------------
(***************************************************************************)
(* The status buyers see, and how it changes with a document.              *)
(***************************************************************************)
Shown(status) == IF status = "deleted" THEN "gone" ELSE status

\* ItemState, of any documents.
StateIn(d, i) ==
  LET places == {b \in Bundles : d[b][i].status \notin Missing}
  IN IF places # {} THEN d[CHOOSE b \in places : TRUE][i].status
     ELSE IF \E b \in Bundles : d[b][i].status = "deleted"
     THEN "gone" ELSE "absent"

LEMMA StateIs ==
  /\ ItemState = [i \in Items |-> StateIn(docs, i)]
  /\ ItemState' = [i \in Items |-> StateIn(docs', i)]
BY DEF ItemState, Places, StateIn

\* All copies of an item that are left have the same status.
LEMMA StateOfCopies ==
  ASSUME NEW d \in ItemDocs, NEW i \in Items, NEW b \in Bundles,
         d[b][i].status \notin Missing,
         \A c \in Bundles : d[c][i].status \notin Missing =>
            d[c][i].status = d[b][i].status
  PROVE  StateIn(d, i) = d[b][i].status
<1> DEFINE places == {c \in Bundles : d[c][i].status \notin Missing}
<1>1. b \in places
  OBVIOUS
<1>2. (CHOOSE c \in places : TRUE) \in places
  BY <1>1
<1> QED
  BY <1>1, <1>2 DEF StateIn

LEMMA StateOfPlace ==
  ASSUME NEW d \in ItemDocs, NEW b \in Bundles, NEW i \in Items, PlacedAt(d, b, i),
         d[b][i].status # Absent \/ \A c \in Bundles : d[c][i].status = Absent
  PROVE  StateIn(d, i) = Shown(d[b][i].status)
<1> DEFINE places == {c \in Bundles : d[c][i].status \notin Missing}
<1>1. CASE d[b][i].status \in Missing
  <2>1. places = {}
    BY <1>1 DEF PlacedAt
  <2>2. (\E c \in Bundles : d[c][i].status = "deleted") <=> d[b][i].status = "deleted"
    BY <1>1 DEF Missing, Absent
  <2> QED
    BY <1>1, <2>1, <2>2 DEF StateIn, Shown, Missing, Absent
<1>2. CASE d[b][i].status \notin Missing
  BY <1>2, StateOfCopies DEF PlacedAt, Shown, Missing
<1> QED
  BY <1>1, <1>2

\* The other items keep their state.
LEMMA OtherStates ==
  ASSUME NEW d \in ItemDocs, NEW b \in Bundles, NEW i \in Items, NEW x \in ItemDoc
  PROVE  \A j \in Items : j # i => StateIn(With(d, b, i, x), j) = StateIn(d, j)
<1> DEFINE e == With(d, b, i, x)
<1> SUFFICES ASSUME NEW j \in Items, j # i PROVE StateIn(e, j) = StateIn(d, j)
  OBVIOUS
<1>1. \A c \in Bundles : e[c][j] = d[c][j]
  BY DEF ItemDocs, With
<1> HIDE DEF e
<1>2. {c \in Bundles : e[c][j].status \notin Missing} =
      {c \in Bundles : d[c][j].status \notin Missing}
  BY <1>1
<1>3. (\E c \in Bundles : e[c][j].status = "deleted") <=>
      (\E c \in Bundles : d[c][j].status = "deleted")
  BY <1>1
<1> DEFINE places(f) == {c \in Bundles : f[c][j].status \notin Missing}
           place(f) == CHOOSE c \in places(f) : TRUE
<1>4. CASE places(d) # {}
  <2>1. place(d) \in Bundles /\ place(e) = place(d)
    BY <1>2, <1>4
  <2>2. StateIn(e, j) = e[place(e)][j].status /\ StateIn(d, j) = d[place(d)][j].status
    BY <1>2, <1>4 DEF StateIn
  <2> QED
    BY <1>1, <2>1, <2>2
<1>5. CASE places(d) = {}
  BY <1>2, <1>3, <1>5 DEF StateIn
<1> QED
  BY <1>4, <1>5

\* The document of an item in its only place is rewritten.
LEMMA Rewritten ==
  ASSUME NEW d \in ItemDocs, SinglePlace(d), NEW b \in Bundles, NEW i \in Items,
         NEW x \in ItemDoc, PlacedAt(d, b, i), x.status # Absent
  PROVE  SinglePlace(With(d, b, i, x)) /\ StateIn(With(d, b, i, x), i) = Shown(x.status)
<1> DEFINE e == With(d, b, i, x)
<1>1. e \in ItemDocs
  BY DEF ItemDocs, With
<1>2. /\ e[b][i] = x
      /\ \A c \in Bundles, j \in Items : (c # b \/ j # i) => e[c][j] = d[c][j]
  BY DEF ItemDocs, With
<1> HIDE DEF e
<1>3. SinglePlace(e)
  BY <1>2 DEF SinglePlace, PlacedAt
<1>4. PlacedAt(e, b, i)
  BY <1>2 DEF PlacedAt
<1>5. StateIn(e, i) = Shown(x.status)
  BY <1>1, <1>2, <1>4, StateOfPlace
<1> QED
  BY <1>3, <1>5 DEF e
-----------------------------------------------------------------------------
(***************************************************************************)
(* The ways a step may change the documents.                               *)
(***************************************************************************)

\* What a step of the invariant, and of the refinement, has to show of the
\* documents; and of its request, the only one.
DocsKept == SinglePlace(docs') /\ Recorded' /\ [Ledger!Next]_ItemState

LEMMA Alone ==
  ASSUME OneAtATime, NEW h \in Handlers, DocsKept, req'[h] # Idle => Stage(req[h])'
  PROVE  SoldInv' /\ [Ledger!Next]_ItemState
<1>1. \A g \in Busy' : g = h /\ req'[h] # Idle
  BY DEF Busy, OneAtATime
<1>2. \A g \in Busy' : Stage(req[g])'
  BY <1>1
<1> QED
  BY <1>2 DEF SoldInv, DocsKept

\* Only a move has an item in two places.
LEMMA Settled ==
  ASSUME OneAtATime, SoldInv, NEW h \in Handlers,
         req[h] = Idle \/ req[h].step # "deleteSource"
  PROVE  SinglePlace(docs)
BY DEF OneAtATime, SoldInv, Copied, Busy

LEMMA DocsSame ==
  ASSUME SoldInv, SinglePlace(docs), UNCHANGED <<docs, ledger>>
  PROVE  DocsKept
BY StateIs DEF SoldInv, DocsKept, Recorded

LEMMA InPlace ==
  ASSUME SinglePlace(docs), NEW b \in Bundles, NEW i \in Items,
         \/ docs[b][i].status \notin Missing
         \/ \A c \in Bundles : docs[c][i].status = Absent
  PROVE  PlacedAt(docs, b, i)
BY DEF SinglePlace, PlacedAt, Missing

\* What was recorded as sold still is.
LEMMA StillRecorded ==
  ASSUME TypeOK, SoldInv, NEW b \in Bundles, NEW i \in Items, NEW x \in ItemDoc,
         docs' = With(docs, b, i, x), ledger' = ledger,
         ledger[i] > 0 => x.status \in {"sold", "deleted"} \/ x = docs[b][i]
  PROVE  Recorded'
<1> SUFFICES ASSUME NEW j \in Items, ledger[j] > 0
             PROVE  /\ ledger[j] = 1
                    /\ \A c \in Bundles : docs'[c][j].status \in {"sold"} \cup Missing
                    /\ \E c \in Bundles : docs'[c][j].status # Absent
  BY DEF Recorded
<1>1. /\ docs'[b][i] = x
      /\ \A c \in Bundles, k \in Items : (c # b \/ k # i) => docs'[c][k] = docs[c][k]
  BY DEF TypeOK, With
<1>2. /\ ledger[j] = 1
      /\ \A c \in Bundles : docs[c][j].status \in {"sold"} \cup Missing
      /\ \E c \in Bundles : docs[c][j].status # Absent
  BY DEF SoldInv, Recorded
<1> QED
  BY <1>1, <1>2 DEF Missing, Absent

\* The document of item i in its only place becomes x.
LEMMA RewriteStep ==
  ASSUME TypeOK, SoldInv, SinglePlace(docs),
         NEW b \in Bundles, NEW i \in Items, NEW x \in ItemDoc, PlacedAt(docs, b, i),
         docs[b][i].status # Absent \/ \A c \in Bundles : docs[c][i].status = Absent,
         x.status # Absent, docs' = With(docs, b, i, x), ledger' = ledger,
         ledger[i] > 0 => x.status \in {"sold", "deleted"}
  PROVE  /\ SinglePlace(docs') /\ Recorded'
         /\ ItemState[i] = Shown(docs[b][i].status)
         /\ ItemState' = [ItemState EXCEPT ![i] = Shown(x.status)]
<1>1. docs \in ItemDocs
  BY DEF TypeOK, ItemDocs
<1>2. SinglePlace(docs') /\ StateIn(docs', i) = Shown(x.status)
  BY <1>1, Rewritten
<1>3. \A j \in Items : j # i => StateIn(docs', j) = StateIn(docs, j)
  BY <1>1, OtherStates
<1>4. StateIn(docs, i) = Shown(docs[b][i].status)
  BY <1>1, StateOfPlace
<1>5. Recorded'
  BY StillRecorded
<1> QED
  BY <1>2, <1>3, <1>4, <1>5, StateIs

\* A document is deleted, if it is there.
LEMMA GoneStep ==
  ASSUME TypeOK, SoldInv, SinglePlace(docs), NEW b \in Bundles, NEW i \in Items,
         docs' = With(docs, b, i, Gone(docs[b][i])), ledger' = ledger
  PROVE  DocsKept
<1> DEFINE d == docs[b][i]
<1>1. d \in ItemDoc /\ Gone(d) \in ItemDoc
  BY GoneType DEF TypeOK
<1>2. CASE d.status \in Missing
  <2>1. Gone(d) = d
    BY <1>1, <1>2 DEF Gone, ItemDoc, Missing
  <2>2. docs' = docs
    BY <2>1 DEF TypeOK, With
  <2> QED
    BY <2>2, DocsSame
<1>3. CASE d.status \notin Missing
  <2>1. Gone(d).status = "deleted" /\ d.status # Absent
    BY <1>1, <1>3 DEF Gone, ItemDoc, Missing
  <2>2. PlacedAt(docs, b, i)
    BY <1>3, InPlace
  <2>3. /\ SinglePlace(docs') /\ Recorded'
        /\ ItemState[i] = Shown(d.status)
        /\ ItemState' = [ItemState EXCEPT ![i] = "gone"]
    <3> DEFINE x == Gone(d)
    <3>1. x \in ItemDoc /\ x.status = "deleted" /\ docs' = With(docs, b, i, x)
      BY <1>1, <2>1
    <3> HIDE DEF x
    <3> QED
      BY <2>1, <2>2, <3>1, RewriteStep DEF Shown, Absent
  <2>4. d.status \in ItemStatuses
    BY <1>1, <1>3 DEF ItemDoc
  <2>5. ItemState[i] \in Ledger!States \ {"absent", "gone"}
    BY <2>3, <2>4 DEF Shown, ItemStatuses, Ledger!States
  <2>6. Ledger!Remove(i)
    BY <2>3, <2>5 DEF Ledger!Remove, Ledger!Change
  <2> QED
    BY <2>3, <2>6 DEF DocsKept, Ledger!Next
<1> QED
  BY <1>2, <1>3
-----------------------------------------------------------------------------
(***************************************************************************)
(* Steps that leave the items alone.                                       *)
(***************************************************************************)
Later == {"listForRollup", "rollBundle", "listForSale", "readSale", "moveSale",
          "countSale", "deleteItems", "deleteBundle"}

\* A request that has written its items, or goes on to the next bundle.
LEMMA LaterStage ==
  ASSUME NEW h \in Handlers, Stage(req[h]),
         req'[h].op = req[h].op, req'[h].hit = req[h].hit,
         \/ req'[h].step \in Later
         \/ req'[h].step \in {"record", "listItems"} /\ req[h].op \in SaleOps
  PROVE  Stage(req[h])'
<1>1. CASE req'[h].step \in Later
  BY <1>1 DEF Stage, Later
<1>2. CASE req'[h].step \in {"record", "listItems"} /\ req[h].op \in SaleOps
  BY <1>2 DEF Stage
<1> QED
  BY <1>1, <1>2

\* The loop over bundles, and what follows a roll-up.
LEMMA AdvanceStage ==
  ASSUME TypeOK, NEW h \in Handlers, req[h] \in Request, Stage(req[h]),
         NEW rest \in SUBSET Bundles, NEW n \in Advance(req[h], rest),
         req[h].op \in SaleOps, req' = [req EXCEPT ![h] = n]
  PROVE  Stage(req[h])'
<1>1. /\ n.op = req[h].op /\ n.hit = req[h].hit
      /\ n.step \in {"record", "listItems"}
  <2>1. CASE rest = {}
    BY <2>1 DEF Advance, Request
  <2>2. CASE rest # {}
    BY <2>2 DEF Advance, Request
  <2> QED
    BY <2>1, <2>2
<1>2. req'[h] = n
  BY DEF TypeOK
<1> QED
  BY <1>1, <1>2, LaterStage

LEMMA AfterRollupStage ==
  ASSUME TypeOK, NEW h \in Handlers, req[h] \in Request, Stage(req[h]),
         NEW n \in AfterRollup(req[h]), req' = [req EXCEPT ![h] = n]
  PROVE  Stage(req[h])'
<1>1. CASE req[h].op \in SaleOps
  <2>1. n \in Advance(req[h], req[h].rest) /\ req[h].rest \in SUBSET Bundles
    BY <1>1 DEF AfterRollup, Request
  <2> QED
    BY <1>1, <2>1, AdvanceStage
<1>2. CASE req[h].op \notin SaleOps
  <2>1. n = [req[h] EXCEPT !.step = "listForSale"] /\ req'[h] = n
    BY <1>2 DEF AfterRollup, TypeOK
  <2>2. n.op = req[h].op /\ n.hit = req[h].hit /\ n.step = "listForSale"
    BY <2>1 DEF Request
  <2> QED
    BY <2>1, <2>2, LaterStage DEF Later
<1> QED
  BY <1>1, <1>2

LEMMA CalmSteps ==
  ASSUME Frame, OneAtATime, SoldInv, NEW h \in Handlers,
         \/ ListBundles(h) \/ ListForRollup(h) \/ RollBundle(h) \/ ListForSale(h)
         \/ ReadSale(h) \/ MoveSale(h) \/ CountSale(h) \/ SetStatus(h)
         \/ SetBundle(h) \/ ListDoomed(h) \/ DeleteBundle(h)
         \/ WriteMissing(h) \/ RollMissing(h) \/ Fail(h)
  PROVE  SoldInv' /\ [Ledger!Next]_ItemState
<1> DEFINE r == req[h]
<1>0. UNCHANGED <<docs, ledger>> /\ h \in Busy
  BY DEF ListBundles, ListForRollup, RollBundle, ListForSale, ReadSale, MoveSale,
         CountSale, SetStatus, SetBundle, ListDoomed, DeleteBundle, WriteMissing,
         RollMissing, Fail, Abort, At, Busy
<1>1. TypeOK /\ r \in Request /\ Stage(r) /\ WellFormed(r)
  BY <1>0, BusyRequest DEF Frame, SoldInv
<1>s. SinglePlace(docs)
  <2>1. CASE Fail(h)
    <3>1. r.step # "deleteSource"
      BY <1>1, <2>1 DEF Fail, Stage, OneAtATime
    <3> QED
      BY <3>1, Settled
  <2>2. CASE ~Fail(h)
    BY <2>2, Settled
    DEF ListBundles, ListForRollup, RollBundle, ListForSale, ReadSale, MoveSale,
        CountSale, SetStatus, SetBundle, ListDoomed, DeleteBundle, WriteMissing,
        RollMissing, At
  <2> QED
    BY <2>1, <2>2
<1> SUFFICES ASSUME ~End(h) PROVE Stage(req[h])'
  <2>1. End(h) => req'[h] = Idle
    BY <1>1 DEF End, TypeOK
  <2> QED
    BY <1>0, <1>s, <2>1, DocsSame, Alone
<1>2. CASE ListBundles(h)
  <2>1. r.op \in SaleOps /\ Shelved \in SUBSET Bundles
    BY <1>1, <1>2 DEF ListBundles, At, WellFormed, Shaped, Shelved
  <2> QED
    BY <1>1, <1>2, <2>1, AdvanceStage DEF ListBundles
<1>3. CASE ListForRollup(h)
  <2>1. CASE ItemsIn(r.bundle) = {}
    BY <1>1, <1>3, <2>1, AfterRollupStage DEF ListForRollup
  <2>2. CASE ItemsIn(r.bundle) # {}
    <3>1. req'[h].op = r.op /\ req'[h].hit = r.hit /\ req'[h].step = "rollBundle"
      BY <1>1, <1>3, <2>2 DEF ListForRollup, TypeOK, Request
    <3> QED
      BY <1>1, <3>1, LaterStage DEF Later
  <2> QED
    BY <2>1, <2>2
<1>4. CASE RollBundle(h)
  BY <1>1, <1>4, AfterRollupStage DEF RollBundle
<1>5. CASE ListForSale(h) \/ ReadSale(h) \/ MoveSale(h) \/ ListDoomed(h)
  <2>1. /\ req'[h].op = r.op /\ req'[h].hit = r.hit
        /\ req'[h].step \in Later
    <3>1. CASE ListForSale(h)
      BY <1>1, <3>1 DEF ListForSale, TypeOK, Request, Later
    <3>2. CASE ReadSale(h)
      BY <1>1, <3>2 DEF ReadSale, Goto, TypeOK, Request, Later
    <3>3. CASE MoveSale(h)
      BY <1>1, <3>3 DEF MoveSale, Goto, TypeOK, Request, Later
    <3>4. CASE ListDoomed(h)
      BY <1>1, <3>4 DEF ListDoomed, TypeOK, Request, Later
    <3> QED
      BY <1>5, <3>1, <3>2, <3>3, <3>4
  <2> QED
    BY <1>1, <2>1, LaterStage
<1>6. ~(CountSale(h) \/ SetStatus(h) \/ SetBundle(h) \/ DeleteBundle(h)
        \/ WriteMissing(h) \/ RollMissing(h) \/ Fail(h))
  BY DEF CountSale, SetStatus, SetBundle, DeleteBundle, WriteMissing, RollMissing,
         Fail, Abort
<1> QED
  BY <1>2, <1>3, <1>4, <1>5, <1>6
-----------------------------------------------------------------------------
(***************************************************************************)
(* A request arrives, or finds its items.                                  *)
(***************************************************************************)
LEMMA BeginSold ==
  ASSUME Frame, OneAtATime, SoldInv, NEW h \in Handlers, BeginRequest(h)
  PROVE  SoldInv' /\ [Ledger!Next]_ItemState
<1>0. TypeOK /\ UNCHANGED <<docs, ledger>> /\ req[h] = Idle
  BY BeginRequestStep DEF Frame, Arrives
<1> SUFFICES Stage(req[h])'
  BY <1>0, Settled, DocsSame, Alone
<1> DEFINE Starts(op, step, todo) ==
      /\ op \in EnabledOps
      /\ req'[h].op = op /\ req'[h].step = step
      /\ req'[h].todo = todo /\ req'[h].hit = {}
           To(b, to) == req'[h].bundle = b /\ req'[h].rest = to
<1>1. ASSUME NEW op, NEW step, NEW b, NEW todo, NEW rest, NEW touches,
             Begin(h, op, step, b, todo, rest, touches)
      PROVE  Starts(op, step, todo) /\ To(b, rest)
  BY <1>1 DEF Begin
<1>2. CASE BeginItemOp(h)
  <2>1. PICK op \in ItemOps, i \in Items : Starts(op, "read", {i})
    BY <1>1, <1>2 DEF BeginItemOp
  <2> QED
    BY <2>1 DEF Stage, ItemOps, SaleOps
<1>3. CASE BeginBundleOp(h)
  <2>1. PICK op \in BundleOps : Starts(op, "listItems", {})
    BY <1>1, <1>3 DEF BeginBundleOp
  <2> QED
    BY <2>1 DEF Stage
<1>4. CASE BeginSaleOp(h)
  <2>1. PICK op \in SaleOps : Starts(op, "listBundles", {})
    BY <1>1, <1>4 DEF BeginSaleOp
  <2> QED
    BY <2>1 DEF Stage
<1>5. CASE BeginStatusOp(h)
  <2>1. PICK op \in StatusOps : Starts(op, "setStatus", {})
    BY <1>1, <1>5 DEF BeginStatusOp
  <2> QED
    BY <2>1 DEF Stage
<1>6. CASE BeginEdit(h)
  <2> DEFINE move(op, b, i) ==
        /\ op = "move_item"
        /\ \E to \in Bundles \ {b} :
             Begin(h, op, "readSource", b, {i}, {to}, {b, to})
  <2>1. PICK op \in EditOps, b \in Bundles, i \in Items :
          \/ Starts(op, "setBundle", {}) \/ Starts(op, "listDoomed", {})
          \/ Starts(op, "deleteItem", {i})
          \/ /\ Starts(op, "setItem", {i})
             /\ \A c \in Bundles : docs[c][i].status = Absent
          \/ move(op, b, i)
    <3> HIDE DEF Starts, To
    <3>1. PICK op \in EditOps, b \in Bundles, i \in Items :
            \/ Begin(h, op, "setBundle", b, {}, {}, {b, SaleDoc})
            \/ Begin(h, op, "listDoomed", b, {}, {}, {b, SaleDoc})
            \/ /\ \A c \in Bundles : docs[c][i].status = Absent
               /\ Begin(h, op, "setItem", b, {i}, {}, {b})
            \/ Begin(h, op, "deleteItem", b, {i}, {}, {b})
            \/ move(op, b, i)
      BY <1>6 DEF BeginEdit
    <3> QED
      BY <1>1, <3>1
  <2>2. CASE move(op, b, i)
    <3>1. PICK to \in Bundles \ {b} :
            Begin(h, op, "readSource", b, {i}, {to}, {b, to})
      BY <2>2
    <3>2. Starts(op, "readSource", {i}) /\ To(b, {to}) /\ op = "move_item"
      BY <1>1, <2>2, <3>1
    <3>3. Carries(req[h])'
      BY <3>2 DEF Carries
    <3> QED
      BY <3>2, <3>3 DEF Stage, SaleOps
  <2>3. CASE ~move(op, b, i)
    <3> HIDE DEF move
    <3> QED
      BY <1>0, <2>1, <2>3 DEF Stage
  <2> QED
    BY <2>2, <2>3
<1> QED
  BY <1>2, <1>3, <1>4, <1>5, <1>6 DEF BeginRequest

\* An item that is not sold has no record.
LEMMA Unsold ==
  ASSUME TypeOK, SoldInv, NEW b \in Bundles, NEW i \in Items,
         docs[b][i].status \in {"available", "reserved", "withdrawn"}
  PROVE  ledger[i] = 0
<1>1. ledger[i] \in Nat
  BY DEF TypeOK
<1>2. ~(ledger[i] > 0)
  BY DEF SoldInv, Recorded, Missing, Absent
<1> QED
  BY <1>1, <1>2

LEMMA FromStatuses ==
  ASSUME NEW op \in LifecycleOps
  PROVE  /\ From(op) \subseteq {"available", "reserved", "withdrawn"}
         /\ op \notin ItemOps => From(op) = {"available", "reserved"}
<1>1. CASE op \in ItemOps
  BY <1>1 DEF From, ItemOps, Accepts
<1>2. CASE op \notin ItemOps
  BY <1>2 DEF From
<1> QED
  BY <1>1, <1>2

LEMMA ReadSold ==
  ASSUME Frame, OneAtATime, SoldInv, NEW h \in Handlers, ReadItem(h)
  PROVE  SoldInv' /\ [Ledger!Next]_ItemState
<1> DEFINE r == req[h]
<1>0. UNCHANGED <<docs, ledger>> /\ h \in Busy /\ r.step = "read"
  BY DEF ReadItem, At, Busy
<1>1. TypeOK /\ r \in Request /\ Stage(r)
  BY <1>0, BusyRequest DEF Frame, SoldInv
<1>2. r.op \in ItemOps /\ r.op \in LifecycleOps /\ r.todo \subseteq Items /\ r.bundle \in Bundles
  BY <1>0, <1>1 DEF Stage, LifecycleOps, Request
<1> SUFFICES ASSUME ~End(h) PROVE Stage(req[h])'
  <2>1. End(h) => req'[h] = Idle
    BY <1>1 DEF End, TypeOK
  <2> QED
    BY <1>0, <2>1, Settled, DocsSame, Alone
<1>3. /\ req'[h].op = r.op /\ req'[h].bundle = r.bundle /\ req'[h].step = "write"
      /\ req'[h].todo = r.todo /\ req'[h].hit = r.todo
  BY <1>1 DEF ReadItem, TypeOK, Request
<1>4. \A i \in r.todo : docs[r.bundle][i].status \in From(r.op)
  BY <1>2 DEF ReadItem, From
<1>5. \A i \in r.todo : ledger[i] = 0
  BY <1>1, <1>2, <1>4, Unsold, FromStatuses
<1>6. r.op \notin SaleOps /\ r.op \in EnabledOps
  BY <1>1, <1>2 DEF ItemOps, SaleOps, Stage
<1> QED
  BY <1>0, <1>2, <1>3, <1>4, <1>5, <1>6 DEF Stage

LEMMA ListSold ==
  ASSUME Frame, OneAtATime, SoldInv, NEW h \in Handlers, ListItems(h)
  PROVE  SoldInv' /\ [Ledger!Next]_ItemState
<1> DEFINE r == req[h]
           todo == Sellable(r.bundle)
<1>0. UNCHANGED <<docs, ledger>> /\ h \in Busy /\ r.step = "listItems"
  BY DEF ListItems, At, Busy
<1>1. TypeOK /\ r \in Request /\ Stage(r)
  BY <1>0, BusyRequest DEF Frame, SoldInv
<1>2. /\ r.op \in BundleOps \cup SaleOps /\ r.op \in EnabledOps
      /\ r.op \in LifecycleOps /\ r.op \notin ItemOps /\ r.op # "relist_item"
      /\ r.bundle \in Bundles
  BY <1>0, <1>1 DEF Stage, LifecycleOps, Request, ItemOps, BundleOps, SaleOps
<1> SUFFICES ASSUME ~End(h) PROVE Stage(req[h])'
  <2>1. End(h) => req'[h] = Idle
    BY <1>1 DEF End, TypeOK
  <2> QED
    BY <1>0, <2>1, Settled, DocsSame, Alone
<1>3. /\ req'[h].op = r.op /\ req'[h].bundle = r.bundle /\ req'[h].todo = todo
      /\ req'[h].hit = IF r.op \in BundleOps THEN todo ELSE {}
      /\ req'[h].step = IF todo = {} THEN AfterWrites(r.op) ELSE "write"
  <2> DEFINE s == IF todo = {} THEN AfterWrites(r.op) ELSE "write"
             hit == IF r.op \in BundleOps THEN todo ELSE {}
             n == [r EXCEPT !.todo = todo, !.hit = hit, !.step = s]
  <2>1. req'[h] = n
    BY <1>1 DEF ListItems, TypeOK
  <2> HIDE DEF s, hit, todo
  <2>2. /\ n.op = r.op /\ n.bundle = r.bundle /\ n.todo = todo
        /\ n.hit = hit /\ n.step = s
    BY <1>1 DEF Request
  <2> QED
    BY <2>1, <2>2 DEF s, hit
<1>4. \A i \in todo : docs[r.bundle][i].status \in From(r.op) /\ ledger[i] = 0
  BY <1>1, <1>2, Unsold, FromStatuses DEF Sellable
<1>5. /\ req'[h].step \in {"write", "record", "listForRollup"}
      /\ req'[h].step = "record" => req'[h].hit = {}
      /\ r.op \in SaleOps => req'[h].hit = {}
  BY <1>2, <1>3 DEF AfterWrites, BundleOps, SaleOps
<1> HIDE DEF todo
<1> QED
  BY <1>0, <1>2, <1>3, <1>4, <1>5 DEF Stage

LEMMA RecordSold ==
  ASSUME Frame, OneAtATime, SoldInv, NEW h \in Handlers, Record(h)
  PROVE  SoldInv' /\ [Ledger!Next]_ItemState
<1> DEFINE r == req[h]
<1>0. docs' = docs /\ h \in Busy /\ r.step = "record"
  BY DEF Record, At, Busy
<1>1. TypeOK /\ r \in Request /\ Stage(r)
  BY <1>0, BusyRequest DEF Frame, SoldInv
<1>2. r.bundle \in Bundles /\ r.hit \subseteq Items
  BY <1>1 DEF Request
<1>s. SinglePlace(docs)
  BY <1>0, Settled
<1>3. Recorded'
  <2> SUFFICES ASSUME NEW i \in Items, ledger'[i] > 0
               PROVE  /\ ledger'[i] = 1
                      /\ \A b \in Bundles : docs[b][i].status \in {"sold"} \cup Missing
                      /\ \E b \in Bundles : docs[b][i].status # Absent
    BY <1>0 DEF Recorded
  <2>1. CASE r.op \in SellOps /\ i \in r.hit
    <3>1. ledger[i] = 0 /\ docs[r.bundle][i].status = "sold"
      BY <1>0, <1>1, <2>1 DEF Stage
    <3>2. ledger'[i] = ledger[i] + 1
      BY <2>1 DEF Record
    <3>3. \A b \in Bundles : docs[b][i].status \notin Missing => b = r.bundle
      BY <1>2, <1>s, <3>1 DEF SinglePlace, Missing, Absent
    <3> QED
      BY <1>2, <3>1, <3>2, <3>3 DEF Absent
  <2>2. CASE ~(r.op \in SellOps /\ i \in r.hit)
    <3>1. ledger'[i] = ledger[i]
      BY <2>2 DEF Record
    <3> QED
      BY <3>1 DEF SoldInv, Recorded
  <2> QED
    BY <2>1, <2>2
<1>4. DocsKept
  BY <1>0, <1>3, <1>s, StateIs DEF DocsKept
<1>5. Stage(req[h])'
  <2>1. /\ req'[h].op = r.op /\ req'[h].hit = r.hit
        /\ req'[h].step \in {"listForSale", "listForRollup"}
    BY <1>1 DEF Record, Goto, TypeOK, Request
  <2> QED
    BY <1>1, <2>1, LaterStage DEF Later
<1> QED
  BY <1>4, <1>5, Alone
-----------------------------------------------------------------------------
(***************************************************************************)
(* An item is written, added or removed.                                   *)
(***************************************************************************)

\* What a request makes of an item it accepts is a move of ItemLedger.
LEMMA UpdateMoves ==
  ASSUME NEW op \in LifecycleOps, NEW d \in ItemDoc, d.status \in From(op),
         NEW i \in Items, ItemState[i] = Shown(d.status),
         ItemState' = [ItemState EXCEPT ![i] = Shown(Updated(op, d).status)],
         ItemState = [j \in Items |-> StateIn(docs, j)]
  PROVE  [Ledger!Next]_ItemState
<1>1. op \in {"reserve_item", "release_reservation", "relist_item",
             "withdraw_item", "withdraw_bundle", "withdraw_sale",
             "mark_item_sold", "mark_bundle_sold", "mark_sale_sold"}
  BY DEF LifecycleOps, ItemOps, BundleOps, SaleOps
<1>2. ItemState[i] = d.status
  BY FromStatuses DEF Shown
<1>3. CASE op = "reserve_item"
  <2>1. d.status = "available" /\ Updated(op, d).status = "reserved"
    BY <1>3 DEF From, Accepts, ItemOps, Updated, ItemDoc
  <2>2. Ledger!Reserve(i)
    BY <1>2, <2>1 DEF Ledger!Reserve, Ledger!Change, Shown
  <2> QED
    BY <2>2 DEF Ledger!Next
<1>4. CASE op = "release_reservation"
  <2>1. d.status = "reserved" /\ Updated(op, d).status = "available"
    BY <1>4 DEF From, Accepts, ItemOps, Updated, ItemDoc
  <2>2. Ledger!Release(i)
    BY <1>2, <2>1 DEF Ledger!Release, Ledger!Change, Shown
  <2> QED
    BY <2>2 DEF Ledger!Next
<1>5. CASE op = "relist_item"
  <2>1. d.status = "withdrawn" /\ Updated(op, d).status = "available"
    BY <1>5 DEF From, Accepts, ItemOps, Updated, ItemDoc
  <2>2. Ledger!Relist(i)
    BY <1>2, <2>1 DEF Ledger!Relist, Ledger!Change, Shown
  <2> QED
    BY <2>2 DEF Ledger!Next
<1>6. CASE op \in {"withdraw_item", "withdraw_bundle", "withdraw_sale"}
  <2>1. /\ d.status \in {"available", "reserved", "withdrawn"}
        /\ Updated(op, d).status = "withdrawn"
    BY <1>6, FromStatuses DEF Updated, ItemDoc
  <2>2. CASE d.status = "withdrawn"
    BY <1>2, <2>1, <2>2 DEF Shown
  <2>3. CASE d.status # "withdrawn"
    <3>1. Ledger!Withdraw(i)
      BY <1>2, <2>1, <2>3 DEF Ledger!Withdraw, Ledger!Change, Shown
    <3> QED
      BY <3>1 DEF Ledger!Next
  <2> QED
    BY <2>2, <2>3
<1>7. CASE op \in {"mark_item_sold", "mark_bundle_sold", "mark_sale_sold"}
  <2>1. d.status \in {"available", "reserved"} /\ Updated(op, d).status = "sold"
    BY <1>7 DEF From, Accepts, ItemOps, Updated
  <2>2. Ledger!Sell(i)
    BY <1>2, <2>1 DEF Ledger!Sell, Ledger!Change, Shown
  <2> QED
    BY <2>2 DEF Ledger!Next
<1> QED
  BY <1>1, <1>3, <1>4, <1>5, <1>6, <1>7

LEMMA UpdatedStatus ==
  ASSUME NEW op \in LifecycleOps, NEW d \in ItemDoc
  PROVE  /\ Updated(op, d).status \in ItemStatuses
         /\ op \in SellOps => Updated(op, d).status = "sold"
<1>1. op \in {"reserve_item", "release_reservation", "relist_item",
             "withdraw_item", "withdraw_bundle", "withdraw_sale",
             "mark_item_sold", "mark_bundle_sold", "mark_sale_sold"}
  BY DEF LifecycleOps, ItemOps, BundleOps, SaleOps
<1> QED
  BY <1>1 DEF Updated, ItemDoc, ItemStatuses, SellOps

LEMMA WriteSold ==
  ASSUME Frame, OneAtATime, SoldInv, NEW h \in Handlers, WriteItem(h)
  PROVE  SoldInv' /\ [Ledger!Next]_ItemState
<1> DEFINE r == req[h]
<1>0. ledger' = ledger /\ h \in Busy /\ r.step = "write"
  BY DEF WriteItem, At, Busy
<1>1. TypeOK /\ r \in Request /\ Stage(r) /\ r.op \in LifecycleOps
  BY <1>0, BusyRequest DEF Frame, SoldInv, WellFormed, Shaped, LifecycleSteps
<1>2. r.bundle \in Bundles /\ r.todo \subseteq Items
  BY <1>1 DEF Request
<1>3. PICK i \in r.todo :
        /\ docs' = [docs EXCEPT ![r.bundle][i] = Updated(r.op, @)]
        /\ req' = [req EXCEPT
             ![h].todo = r.todo \ {i},
             ![h].step = IF r.todo = {i} THEN AfterWrites(r.op) ELSE "write"]
  BY DEF WriteItem
<1> DEFINE d == docs[r.bundle][i]
           x == Updated(r.op, d)
<1>4. i \in Items /\ d \in ItemDoc /\ x \in ItemDoc /\ d.status \in From(r.op)
  BY <1>0, <1>1, <1>2, UpdatedType DEF TypeOK, Stage
<1>5. docs' = With(docs, r.bundle, i, x)
  BY <1>1, <1>2, <1>3, <1>4 DEF With, TypeOK
<1>6. x.status \in ItemStatuses /\ (r.op \in SellOps => x.status = "sold")
  BY <1>1, <1>4, UpdatedStatus
<1>7. /\ docs'[r.bundle][i] = x
      /\ \A j \in Items : j # i => docs'[r.bundle][j] = docs[r.bundle][j]
  BY <1>1, <1>2, <1>4, <1>5 DEF With, TypeOK
<1>8. /\ req'[h].op = r.op /\ req'[h].hit = r.hit /\ req'[h].bundle = r.bundle
      /\ req'[h].todo = r.todo \ {i}
      /\ req'[h].step = IF r.todo = {i} THEN AfterWrites(r.op) ELSE "write"
  <2> DEFINE s == IF r.todo = {i} THEN AfterWrites(r.op) ELSE "write"
             n == [r EXCEPT !.todo = r.todo \ {i}, !.step = s]
  <2>1. req'[h] = n
    BY <1>1, <1>3 DEF TypeOK
  <2> HIDE DEF s
  <2>2. /\ n.op = r.op /\ n.hit = r.hit /\ n.bundle = r.bundle
        /\ n.todo = r.todo \ {i} /\ n.step = s
    BY <1>1 DEF Request
  <2> QED
    BY <2>1, <2>2 DEF s
<1>9. /\ SinglePlace(docs) /\ ledger[i] = 0
      /\ PlacedAt(docs, r.bundle, i) /\ d.status # Absent
  <2>1. d.status \in {"available", "reserved", "withdrawn"}
    BY <1>1, <1>4, FromStatuses
  <2>2. SinglePlace(docs)
    BY <1>0, Settled
  <2> QED
    BY <1>1, <1>2, <1>4, <2>1, <2>2, Unsold, InPlace DEF Missing, Absent
<1> HIDE DEF d, x
<1>10. DocsKept
  <2>1. /\ SinglePlace(docs') /\ Recorded'
        /\ ItemState[i] = Shown(d.status)
        /\ ItemState' = [ItemState EXCEPT ![i] = Shown(x.status)]
    BY <1>0, <1>1, <1>2, <1>4, <1>5, <1>6, <1>9, RewriteStep DEF d, ItemStatuses, Absent
  <2>2. [Ledger!Next]_ItemState
    BY <1>1, <1>4, <2>1, UpdateMoves, StateIs DEF x
  <2> QED
    BY <2>1, <2>2 DEF DocsKept
<1>11. Stage(req[h])'
  <2>1. r.op \in EnabledOps /\ (r.op \in SaleOps => r.hit = {})
    BY <1>1 DEF Stage
  <2>2. CASE r.todo = {i}
    <3>1. /\ req'[h].step \in {"record", "listForRollup"}
          /\ req'[h].step = "record" => r.op \notin SaleOps
      BY <1>8, <2>2 DEF AfterWrites
    <3>2. \A j \in r.hit : r.op \in SellOps =>
             ledger[j] = 0 /\ docs'[r.bundle][j].status = "sold"
      BY <1>0, <1>1, <1>6, <1>7, <2>2 DEF Stage, Request
    <3> QED
      BY <1>0, <1>8, <2>1, <3>1, <3>2 DEF Stage
  <2>3. CASE r.todo # {i}
    <3>1. \A j \in r.todo \ {i} : docs'[r.bundle][j].status \in From(r.op)
      BY <1>0, <1>1, <1>2, <1>7 DEF Stage
    <3>2. \A j \in r.hit : r.op \in SellOps =>
             ledger[j] = 0 /\ (docs'[r.bundle][j].status = "sold" \/ j \in r.todo \ {i})
      BY <1>0, <1>1, <1>6, <1>7 DEF Stage, Request
    <3> QED
      BY <1>0, <1>8, <2>1, <2>3, <3>1, <3>2 DEF Stage
  <2> QED
    BY <2>2, <2>3
<1> QED
  BY <1>10, <1>11, Alone

LEMMA SetSold ==
  ASSUME Frame, OneAtATime, SoldInv, NEW h \in Handlers, SetItem(h)
  PROVE  SoldInv' /\ [Ledger!Next]_ItemState
<1> DEFINE r == req[h]
<1>0. ledger' = ledger /\ h \in Busy /\ r.step = "setItem" /\ End(h)
  BY DEF SetItem, At, Busy
<1>1. TypeOK /\ r \in Request /\ Stage(r)
  BY <1>0, BusyRequest DEF Frame, SoldInv
<1>2. r.bundle \in Bundles /\ r.todo \subseteq Items
  BY <1>1 DEF Request
<1>3. PICK i \in r.todo : docs' = [docs EXCEPT ![r.bundle][i] = NewItem]
  BY DEF SetItem
<1>4. i \in Items /\ \A b \in Bundles : docs[b][i].status = Absent
  BY <1>0, <1>1, <1>2 DEF Stage
<1>5. SinglePlace(docs) /\ PlacedAt(docs, r.bundle, i) /\ ~(ledger[i] > 0)
  <2>1. SinglePlace(docs) /\ PlacedAt(docs, r.bundle, i)
    BY <1>0, <1>2, <1>4, Settled, InPlace
  <2>2. ~(ledger[i] > 0)
    BY <1>4 DEF SoldInv, Recorded
  <2> QED
    BY <2>1, <2>2
<1>6. NewItem \in ItemDoc /\ NewItem.status = "available"
  BY DEF NewItem, ItemDoc, ItemStatuses
<1>7. docs' = With(docs, r.bundle, i, NewItem)
  BY <1>3 DEF With
<1>8. /\ SinglePlace(docs') /\ Recorded'
      /\ ItemState[i] = "absent"
      /\ ItemState' = [ItemState EXCEPT ![i] = "available"]
  <2>1. Shown(docs[r.bundle][i].status) = "absent" /\ Shown(NewItem.status) = "available"
    BY <1>2, <1>4, <1>6 DEF Shown, Absent
  <2> QED
    BY <1>0, <1>1, <1>2, <1>4, <1>5, <1>6, <1>7, <2>1, RewriteStep DEF Absent
<1>9. Ledger!List(i)
  BY <1>8 DEF Ledger!List, Ledger!Change
<1>10. DocsKept
  BY <1>4, <1>8, <1>9 DEF DocsKept, Ledger!Next
<1> QED
  BY <1>0, <1>1, <1>10, Alone DEF End, TypeOK

LEMMA DeleteSold ==
  ASSUME Frame, OneAtATime, SoldInv, NEW h \in Handlers, DeleteItem(h) \/ DeleteItems(h)
  PROVE  SoldInv' /\ [Ledger!Next]_ItemState
<1> DEFINE r == req[h]
<1>0. ledger' = ledger /\ h \in Busy /\ SinglePlace(docs)
  BY Settled DEF DeleteItem, DeleteItems, At, Busy
<1>1. TypeOK /\ r \in Request /\ Stage(r)
  BY <1>0, BusyRequest DEF Frame, SoldInv
<1>2. r.bundle \in Bundles /\ r.todo \subseteq Items
  BY <1>1 DEF Request
<1>3. DocsKept
  <2>1. PICK i \in r.todo : docs' = [docs EXCEPT ![r.bundle][i] = Gone(@)]
    BY DEF DeleteItem, DeleteItems
  <2>2. docs' = With(docs, r.bundle, i, Gone(docs[r.bundle][i]))
    BY <1>1, <1>2, <2>1 DEF With, TypeOK
  <2> QED
    BY <1>0, <1>1, <1>2, <2>2, GoneStep
<1>4. CASE DeleteItem(h)
  BY <1>1, <1>3, <1>4, Alone DEF DeleteItem, End, TypeOK
<1>5. CASE DeleteItems(h)
  <2>1. /\ req'[h].op = r.op /\ req'[h].hit = r.hit
        /\ req'[h].step \in Later
    <3>1. PICK i \in r.todo :
            req' = [req EXCEPT
              ![h].todo = r.todo \ {i},
              ![h].step = IF r.todo = {i} THEN "deleteBundle" ELSE "deleteItems"]
      BY <1>5 DEF DeleteItems
    <3> DEFINE s == IF r.todo = {i} THEN "deleteBundle" ELSE "deleteItems"
               n == [r EXCEPT !.todo = r.todo \ {i}, !.step = s]
    <3>2. req'[h] = n
      BY <1>1, <3>1 DEF TypeOK
    <3>3. s \in Later
      BY DEF Later
    <3> HIDE DEF s
    <3> QED
      BY <1>1, <3>2, <3>3 DEF Request
  <2> QED
    BY <1>1, <1>3, <2>1, LaterStage, Alone
<1> QED
  BY <1>4, <1>5
-----------------------------------------------------------------------------
(***************************************************************************)
(* An item is moved: its state, as buyers see it, is that of both copies.  *)
(***************************************************************************)
LEMMA ReadSourceSold ==
  ASSUME Frame, OneAtATime, SoldInv, NEW h \in Handlers, ReadSource(h)
  PROVE  SoldInv' /\ [Ledger!Next]_ItemState
<1> DEFINE r == req[h]
<1>0. UNCHANGED <<docs, ledger>> /\ h \in Busy /\ r.step = "readSource"
  BY DEF ReadSource, At, Busy
<1>1. TypeOK /\ r \in Request /\ Stage(r)
  BY <1>0, BusyRequest DEF Frame, SoldInv
<1>2. PICK i \in Items, to \in Bundles \ {r.bundle} : r.todo = {i} /\ r.rest = {to}
  BY <1>0, <1>1 DEF Stage, Carries
<1> SUFFICES ASSUME ~End(h) PROVE Stage(req[h])'
  <2>1. End(h) => req'[h] = Idle
    BY <1>1 DEF End, TypeOK
  <2> QED
    BY <1>0, <2>1, Settled, DocsSame, Alone
<1>3. /\ docs[r.bundle][i].status \notin Missing
      /\ req' = [req EXCEPT ![h].view = docs[r.bundle][i], ![h].step = "setTarget"]
  BY <1>2 DEF ReadSource
<1>4. /\ req'[h].op = r.op /\ req'[h].bundle = r.bundle /\ req'[h].step = "setTarget"
      /\ req'[h].todo = r.todo /\ req'[h].rest = r.rest /\ req'[h].hit = r.hit
      /\ req'[h].view = docs[r.bundle][i]
  BY <1>1, <1>3 DEF TypeOK, Request
<1>5. r.op \in EnabledOps /\ r.op = "move_item"
  BY <1>0, <1>1 DEF Stage
<1> QED
  BY <1>0, <1>2, <1>3, <1>4, <1>5 DEF Stage, Carries, SaleOps

LEMMA SetTargetSold ==
  ASSUME Frame, OneAtATime, SoldInv, NEW h \in Handlers, SetTarget(h)
  PROVE  SoldInv' /\ [Ledger!Next]_ItemState
<1> DEFINE r == req[h]
<1>0. ledger' = ledger /\ h \in Busy /\ r.step = "setTarget"
  BY DEF SetTarget, At, Busy
<1>1. /\ TypeOK /\ r \in Request /\ Stage(r) /\ r.bundle \in Bundles
      /\ SinglePlace(docs) /\ docs \in ItemDocs
  BY <1>0, BusyRequest, Settled DEF Frame, SoldInv, Request, TypeOK, ItemDocs
<1> DEFINE b == r.bundle
<1>2. PICK i \in Items, to \in Bundles \ {b} :
        /\ r.todo = {i} /\ r.rest = {to}
        /\ r.view = docs[b][i] /\ docs[b][i].status \notin Missing
  BY <1>0, <1>1 DEF Stage, Carries
<1> DEFINE x == docs[b][i]
<1>3. x \in ItemDoc /\ docs' = With(docs, to, i, x)
  BY <1>1, <1>2 DEF SetTarget, With, TypeOK
<1>4. /\ docs' \in ItemDocs /\ docs'[to][i] = x /\ docs'[b][i] = x
      /\ \A c \in Bundles, j \in Items : (c # to \/ j # i) => docs'[c][j] = docs[c][j]
  BY <1>1, <1>2, <1>3 DEF ItemDocs, With
<1>5. \A c \in Bundles : docs[c][i].status \notin Missing => c = b
  BY <1>1, <1>2 DEF SinglePlace
<1>6. Recorded'
  <2>1. ledger[i] > 0 => x.status \in {"sold", "deleted"}
    BY <1>1, <1>2 DEF SoldInv, Recorded
  <2> QED
    BY <1>0, <1>1, <1>3, <2>1, StillRecorded
<1>7. ItemState' = ItemState
  <2>1. StateIn(docs, i) = x.status
    BY <1>1, <1>2, <1>5, StateOfCopies
  <2>2. StateIn(docs', i) = x.status
    BY <1>1, <1>2, <1>4, <1>5, StateOfCopies
  <2>3. \A j \in Items : j # i => StateIn(docs', j) = StateIn(docs, j)
    BY <1>1, <1>3, OtherStates
  <2> QED
    BY <2>1, <2>2, <2>3, StateIs
<1>8. SinglePlace(With(docs', b, i, Gone(docs'[b][i])))
  <2> DEFINE e == With(docs', b, i, Gone(docs'[b][i]))
  <2>1. /\ e[b][i] = Gone(x)
        /\ \A c \in Bundles, j \in Items : (c # b \/ j # i) => e[c][j] = docs'[c][j]
    BY <1>1, <1>4 DEF ItemDocs, With
  <2>2. Gone(x).status \in Missing
    BY <1>3 DEF Gone, ItemDoc, Missing
  <2> HIDE DEF e
  <2>3. \A c \in Bundles : e[c][i].status \notin Missing => c = to
    BY <1>4, <1>5, <2>1, <2>2
  <2>4. \A c \in Bundles, j \in Items : j # i => e[c][j] = docs[c][j]
    BY <1>4, <2>1
  <2> QED
    BY <1>1, <2>3, <2>4 DEF SinglePlace, e
<1>9. /\ req'[h].op = r.op /\ req'[h].bundle = b /\ req'[h].step = "deleteSource"
      /\ req'[h].todo = r.todo /\ req'[h].rest = r.rest /\ req'[h].hit = r.hit
  BY <1>1 DEF SetTarget, Goto, TypeOK, Request
<1>10. Stage(req[h])'
  <2>1. r.op \in EnabledOps /\ r.op = "move_item"
    BY <1>0, <1>1 DEF Stage
  <2>2. Carries(req[h])'
    BY <1>2, <1>4, <1>8, <1>9 DEF Carries
  <2> QED
    BY <1>9, <2>1, <2>2 DEF Stage, SaleOps
<1>11. Copied' /\ \A g \in Busy' : g = h
  <2>1. req'[h] # Idle
    BY <1>9 DEF Idle
  <2> QED
    BY <1>9, <2>1 DEF Copied, Busy, OneAtATime
<1> QED
  BY <1>6, <1>7, <1>10, <1>11 DEF SoldInv

LEMMA DeleteSourceSold ==
  ASSUME Frame, OneAtATime, SoldInv, NEW h \in Handlers, DeleteSource(h)
  PROVE  SoldInv' /\ [Ledger!Next]_ItemState
<1> DEFINE r == req[h]
           b == r.bundle
<1>0. ledger' = ledger /\ h \in Busy /\ r.step = "deleteSource" /\ End(h)
  BY DEF DeleteSource, At, Busy
<1>1. TypeOK /\ r \in Request /\ Stage(r) /\ b \in Bundles /\ docs \in ItemDocs
  BY <1>0, BusyRequest DEF Frame, SoldInv, Request, TypeOK, ItemDocs
<1>2. PICK i \in Items, to \in Bundles \ {b} :
        /\ r.todo = {i} /\ docs[to][i] = docs[b][i] /\ docs[to][i].status \notin Missing
        /\ SinglePlace(With(docs, b, i, Gone(docs[b][i])))
  BY <1>0, <1>1 DEF Stage, Carries
<1> DEFINE x == Gone(docs[b][i])
<1>3. docs' = With(docs, b, i, x) /\ SinglePlace(docs')
  BY <1>1, <1>2 DEF DeleteSource, With, TypeOK
<1>4. x \in ItemDoc /\ x.status = "deleted"
  BY <1>1, <1>2, GoneType DEF TypeOK, Gone, ItemDoc, Missing
<1>5. /\ docs' \in ItemDocs /\ docs'[b][i] = x
      /\ \A c \in Bundles, j \in Items : (c # b \/ j # i) => docs'[c][j] = docs[c][j]
  BY <1>1, <1>3, <1>4 DEF ItemDocs, With
<1>6. \A c \in Bundles : docs'[c][i].status \notin Missing => c = to
  BY <1>2, <1>3, <1>5 DEF SinglePlace
<1>7. Recorded'
  BY <1>0, <1>1, <1>3, <1>4, StillRecorded
<1>8. ItemState' = ItemState
  <2>1. StateIn(docs', i) = docs[to][i].status
    BY <1>2, <1>5, <1>6, StateOfCopies
  <2>2. \A c \in Bundles : docs[c][i].status \notin Missing =>
           docs[c][i].status = docs[to][i].status
    BY <1>2, <1>5, <1>6
  <2>3. StateIn(docs, i) = docs[to][i].status
    BY <1>1, <1>2, <2>2, StateOfCopies
  <2>4. \A j \in Items : j # i => StateIn(docs', j) = StateIn(docs, j)
    BY <1>1, <1>3, <1>4, OtherStates
  <2> QED
    BY <2>1, <2>3, <2>4, StateIs
<1> QED
  BY <1>0, <1>1, <1>3, <1>7, <1>8, Alone DEF DocsKept, End, TypeOK
-----------------------------------------------------------------------------
(***************************************************************************)
(* The invariant, and what follows from it.                                *)
(***************************************************************************)
LEMMA InitSold == Init => SoldInv /\ Ledger!Init
<1> SUFFICES ASSUME Init PROVE SoldInv /\ Ledger!Init
  OBVIOUS
<1>1. docs \in ItemDocs /\ Busy = {}
  BY DEF Init, ItemDocs, ItemDoc, NewItem, NoItem, ItemStatuses, Missing, Absent, Busy
<1>2. \A b \in Bundles, i \in Items :
        docs[b][i].status = IF Home[i] = b THEN "available" ELSE Absent
  BY DEF Init, NewItem, NoItem
<1>3. SinglePlace(docs)
  BY <1>2 DEF SinglePlace, Missing
<1>4. SoldInv
  BY <1>1, <1>3 DEF SoldInv, Recorded, Init
<1>5. ASSUME NEW i \in Items PROVE StateIn(docs, i) \in {"absent", "available"}
  <2>1. PICK b \in Bundles : Home[i] \in Bundles => b = Home[i]
    <3>1. Bundles # {}
      BY ConstantsAssumption
    <3> QED
      BY <3>1
  <2>2. /\ PlacedAt(docs, b, i)
        /\ docs[b][i].status # Absent \/ \A c \in Bundles : docs[c][i].status = Absent
    BY <1>2, <2>1 DEF PlacedAt, Missing, Absent
  <2>3. StateIn(docs, i) = Shown(docs[b][i].status)
    BY <1>1, <2>2, StateOfPlace
  <2> QED
    BY <1>2, <2>3 DEF Shown, Absent
<1>6. Ledger!Init
  BY <1>5, StateIs DEF Ledger!Init
<1> QED
  BY <1>4, <1>6

LEMMA StepSold ==
  ASSUME OneAtATime
  PROVE  Frame /\ SoldInv /\ [Next]_vars => SoldInv' /\ [Ledger!Next]_ItemState
<1> SUFFICES ASSUME Frame, SoldInv, [Next]_vars
             PROVE  SoldInv' /\ [Ledger!Next]_ItemState
  OBVIOUS
<1>1. CASE UNCHANGED vars
  <2>1. ItemState' = ItemState
    BY <1>1, StateIs DEF vars
  <2>2. SoldInv'
    BY <1>1 DEF vars, SoldInv, Copied, Recorded, Busy, Stage, Carries
  <2> QED
    BY <2>1, <2>2
<1>2. ASSUME NEW h \in Handlers, BeginRequest(h) \/ Proceed(h) \/ Fail(h)
      PROVE  SoldInv' /\ [Ledger!Next]_ItemState
  <2>1. CASE BeginRequest(h)
    BY <2>1, BeginSold
  <2>2. CASE ReadItem(h) \/ ListItems(h) \/ Record(h)
    BY <2>2, ReadSold, ListSold, RecordSold
  <2>3. CASE WriteItem(h) \/ SetItem(h) \/ DeleteItem(h) \/ DeleteItems(h)
    BY <2>3, WriteSold, SetSold, DeleteSold
  <2>4. CASE ReadSource(h) \/ SetTarget(h) \/ DeleteSource(h)
    BY <2>4, ReadSourceSold, SetTargetSold, DeleteSourceSold
  <2>5. CASE \/ ListBundles(h) \/ ListForRollup(h) \/ RollBundle(h) \/ ListForSale(h)
             \/ ReadSale(h) \/ MoveSale(h) \/ CountSale(h) \/ SetStatus(h)
             \/ SetBundle(h) \/ ListDoomed(h) \/ DeleteBundle(h)
             \/ WriteMissing(h) \/ RollMissing(h) \/ Fail(h)
    BY <2>5, CalmSteps
  <2> QED
    BY <1>2, <2>1, <2>2, <2>3, <2>4, <2>5 DEF Proceed
<1> QED
  BY <1>1, <1>2 DEF Next

LEMMA SoldInvariant ==
  ASSUME OneAtATime
  PROVE  Spec => [](Frame /\ SoldInv)
<1>1. Frame /\ SoldInv /\ [Next]_vars => (Frame /\ SoldInv)'
  BY StepFrame, StepSold
<1> QED
  BY <1>1, InitFrame, InitSold, PTL DEF Spec

\* One request at a time, wherever requests stop: at most one record tells of
\* the sale of an item.
THEOREM SoldOnce ==
  ASSUME OneAtATime
  PROVE  Spec => []NoDoubleSale
<1>1. Frame /\ SoldInv => NoDoubleSale
  <2> SUFFICES ASSUME Frame, SoldInv, NEW i \in Items PROVE ledger[i] <= 1
    BY DEF NoDoubleSale
  <2>1. ledger[i] \in Nat /\ (ledger[i] > 0 => ledger[i] = 1)
    BY DEF Frame, TypeOK, SoldInv, Recorded
  <2> QED
    BY <2>1
<1> QED
  BY <1>1, SoldInvariant, PTL

\* Likewise, what the log says is sold is sold, or was removed since.
THEOREM LedgerIsTrue ==
  ASSUME OneAtATime
  PROVE  Spec => []LedgerTruthful
<1>1. Frame /\ SoldInv => LedgerTruthful
  <2> SUFFICES ASSUME Frame, SoldInv, NEW i \in Items, NEW b \in Bundles, ledger[i] > 0
               PROVE  docs[b][i].status \in {"sold"} \cup Missing
    BY DEF LedgerTruthful
  <2> QED
    BY DEF SoldInv, Recorded
<1> QED
  BY <1>1, SoldInvariant, PTL

\* Likewise, the handlers implement ItemLedger: whatever they write call by
\* call, an item goes through the moves of its life and no other.
THEOREM LedgerImplemented ==
  ASSUME OneAtATime
  PROVE  Spec => ImplementsItemLedger
<1>1. Init => Ledger!Init
  BY InitSold
<1>2. Frame /\ SoldInv /\ [Next]_vars => [Ledger!Next]_ItemState
  BY StepSold
<1> QED
  BY <1>1, <1>2, SoldInvariant, PTL DEF Spec, ImplementsItemLedger, Ledger!Spec
-----------------------------------------------------------------------------
(***************************************************************************)
(* A move writes the copy before it deletes the original.  It runs alone;  *)
(* it may stop at any call.                                                *)
(***************************************************************************)
OneHandler == \A g, h \in Handlers : g = h

\* What a move has found, or written, when it comes to a step.
Moving(r) ==
  \E i \in Items, to \in Bundles :
    /\ r.todo = {i} /\ r.rest = {to} /\ to # r.bundle
    /\ r.step = "setTarget" => r.view.status \notin Missing
    /\ r.step = "deleteSource" => docs[to][i].status \notin Missing

\* Documents are deleted by the requests that remove them, and by moves.
Deletes(r) ==
  /\ r.step = "deleteItem" => r.op = "remove_item"
  /\ r.step \in {"listDoomed", "deleteItems"} => r.op = "remove_bundle"
  /\ r.step \in {"readSource", "setTarget", "deleteSource"} => Moving(r)

KeptInv == \A h \in Busy : Deletes(req[h])

Keeps(i) ==
  Places(i) # {} => \/ \E b \in Bundles : docs'[b][i].status \notin Missing
                    \/ \E h \in Busy : req[h].op \in {"remove_item", "remove_bundle"}

\* Writing a document that buyers see takes no copy away.
LEMMA WritingKeeps ==
  ASSUME TypeOK, NEW b \in Bundles, NEW j \in Items, NEW x, x.status \notin Missing,
         docs' = [docs EXCEPT ![b][j] = x], NEW i \in Items
  PROVE  Keeps(i)
<1> SUFFICES ASSUME Places(i) # {}
             PROVE  \E c \in Bundles : docs'[c][i].status \notin Missing
  BY DEF Keeps
<1>1. PICK c \in Bundles : docs[c][i].status \notin Missing
  BY DEF Places
<1>2. CASE b = c /\ j = i
  <2>1. docs'[b][j] = x
    BY DEF TypeOK
  <2> QED
    BY <1>2, <2>1
<1>3. CASE ~(b = c /\ j = i)
  <2>1. docs'[c][i] = docs[c][i]
    BY <1>3 DEF TypeOK
  <2> QED
    BY <1>1, <2>1
<1> QED
  BY <1>2, <1>3

\* The first step of each request.
LEMMA Arrivals ==
  ASSUME TypeOK, NEW h \in Handlers, BeginRequest(h)
  PROVE  LET n == req'[h]
         IN /\ UNCHANGED <<docs, ledger>> /\ req[h] = Idle
            /\ \/ n.step \in {"listBundles", "setStatus", "setBundle", "setItem"}
               \/ n.step = "read" /\ n.op \in ItemOps
               \/ n.step = "listItems" /\ n.op \in BundleOps
               \/ n.step = "listDoomed" /\ n.op = "remove_bundle"
               \/ n.step = "deleteItem" /\ n.op = "remove_item"
               \/ /\ n.step = "readSource"
                  /\ \E i \in Items, to \in Bundles :
                       n.todo = {i} /\ n.rest = {to} /\ to # n.bundle
<1> DEFINE n == req'[h]
<1>1. ASSUME NEW op, NEW step, NEW b, NEW todo, NEW rest, NEW touches,
             Begin(h, op, step, b, todo, rest, touches)
      PROVE  /\ UNCHANGED <<docs, ledger>> /\ req[h] = Idle
             /\ n.op = op /\ n.step = step /\ n.bundle = b
             /\ n.todo = todo /\ n.rest = rest
  BY <1>1 DEF Begin, TypeOK
<1>2. CASE BeginItemOp(h) \/ BeginBundleOp(h) \/ BeginSaleOp(h) \/ BeginStatusOp(h)
  BY <1>1, <1>2 DEF BeginItemOp, BeginBundleOp, BeginSaleOp, BeginStatusOp
<1>3. CASE BeginEdit(h)
  <2>1. PICK op \in EditOps, b \in Bundles, i \in Items :
          \/ op = "add_bundle" /\ Begin(h, op, "setBundle", b, {}, {}, {b, SaleDoc})
          \/ op = "remove_bundle" /\ Begin(h, op, "listDoomed", b, {}, {}, {b, SaleDoc})
          \/ op = "add_manual_item" /\ Begin(h, op, "setItem", b, {i}, {}, {b})
          \/ op = "remove_item" /\ Begin(h, op, "deleteItem", b, {i}, {}, {b})
          \/ \E to \in Bundles \ {b} :
               Begin(h, op, "readSource", b, {i}, {to}, {b, to})
    BY <1>3, Zenon DEF BeginEdit
  <2>2. CASE \/ op = "add_bundle" /\ Begin(h, op, "setBundle", b, {}, {}, {b, SaleDoc})
             \/ op = "remove_bundle" /\ Begin(h, op, "listDoomed", b, {}, {}, {b, SaleDoc})
             \/ op = "add_manual_item" /\ Begin(h, op, "setItem", b, {i}, {}, {b})
             \/ op = "remove_item" /\ Begin(h, op, "deleteItem", b, {i}, {}, {b})
    BY <1>1, <2>2
  <2>3. ASSUME NEW to \in Bundles \ {b},
               Begin(h, op, "readSource", b, {i}, {to}, {b, to})
        PROVE  /\ UNCHANGED <<docs, ledger>> /\ req[h] = Idle
               /\ n.step = "readSource" /\ n.bundle = b
               /\ n.todo = {i} /\ n.rest = {to}
    BY <1>1, <2>3
  <2> HIDE DEF n
  <2> QED
    BY <2>1, <2>2, <2>3 DEF n
<1> QED
  BY <1>2, <1>3 DEF BeginRequest

\* A request arrives: it is the only one.
LEMMA BeginKept ==
  ASSUME TypeOK, OneHandler, NEW h \in Handlers, BeginRequest(h)
  PROVE  KeptInv' /\ \A i \in Items : Keeps(i)
<1>1. \A g \in Busy' : g = h
  BY DEF Busy, OneHandler
<1>2. docs' = docs /\ Deletes(req[h])'
  BY Arrivals DEF Deletes, Moving
<1> QED
  BY <1>1, <1>2 DEF KeptInv, Keeps, Places

\* The steps of the handlers that sell, and of those that edit, an item.
LEMMA ProceedKept ==
  ASSUME Frame, OneHandler, KeptInv, NEW h \in Handlers, Proceed(h) \/ Fail(h)
  PROVE  KeptInv' /\ \A i \in Items : Keeps(i)
<1> DEFINE r == req[h]
<1>0. h \in Busy /\ Effect(h)
  BY ProceedEffect
<1>1. TypeOK /\ r \in Request /\ WellFormed(r) /\ Deletes(r)
  BY <1>0, BusyRequest DEF Frame, KeptInv
<1>2. \A g \in Busy' : g = h
  BY DEF Busy, OneHandler
<1>3. ASSUME docs' = docs, NEW i \in Items
      PROVE  Keeps(i)
  BY <1>3 DEF Keeps, Places
<1>4. ASSUME End(h)
      PROVE  KeptInv'
  BY <1>1, <1>2, <1>4 DEF End, TypeOK, Busy, KeptInv
<1>5. CASE \/ SetItem(h) \/ DeleteItem(h) \/ DeleteSource(h)
  <2>1. KeptInv'
    BY <1>4, <1>5 DEF SetItem, DeleteItem, DeleteSource
  <2>2. CASE SetItem(h)
    <3>1. PICK j \in r.todo : docs' = [docs EXCEPT ![r.bundle][j] = NewItem]
      BY <2>2 DEF SetItem
    <3>2. r.bundle \in Bundles /\ j \in Items /\ NewItem.status \notin Missing
      BY <1>1 DEF Request, NewItem, Missing, Absent
    <3> QED
      BY <1>1, <2>1, <3>1, <3>2, WritingKeeps
  <2>3. CASE DeleteItem(h)
    BY <1>0, <1>1, <2>1, <2>3 DEF DeleteItem, At, Deletes, Keeps
  <2>4. CASE DeleteSource(h)
    <3>1. PICK j \in Items, to \in Bundles :
            r.todo = {j} /\ to # r.bundle /\ docs[to][j].status \notin Missing
      BY <1>1, <2>4 DEF DeleteSource, At, Deletes, Moving
    <3>2. docs' = [docs EXCEPT ![r.bundle][j] = Gone(@)]
      BY <2>4, <3>1 DEF DeleteSource
    <3>3. \A b \in Bundles, i \in Items :
            (b # r.bundle \/ i # j) => docs'[b][i] = docs[b][i]
      BY <1>1, <3>2 DEF TypeOK
    <3> QED
      BY <2>1, <3>1, <3>3 DEF Keeps, Places
  <2> QED
    BY <1>5, <2>1, <2>2, <2>3, <2>4
<1>6. CASE ListDoomed(h) \/ DeleteItems(h)
  <2>1. h \in Busy /\ r.op = "remove_bundle"
    BY <1>0, <1>1, <1>6 DEF ListDoomed, DeleteItems, At, Deletes
  <2>2. req'[h] = Idle \/ req'[h].op = "remove_bundle"
    BY <1>0, <2>1 DEF Effect, Continues
  <2>3. req'[h].step \in {"deleteItems", "deleteBundle"}
    <3>1. CASE ListDoomed(h)
      BY <1>1, <3>1 DEF ListDoomed, TypeOK, Request
    <3>2. CASE DeleteItems(h)
      <4>1. PICK s \in {"deleteItems", "deleteBundle"}, todo \in SUBSET Items :
              req' = [req EXCEPT ![h].todo = todo, ![h].step = s]
        BY <1>1, <3>2 DEF DeleteItems, Request
      <4> QED
        BY <1>1, <4>1 DEF TypeOK, Request
    <3> QED
      BY <1>6, <3>1, <3>2
  <2>4. Deletes(req[h])' \/ req'[h] = Idle
    BY <2>2, <2>3 DEF Deletes
  <2> QED
    BY <1>2, <2>1, <2>4 DEF KeptInv, Keeps, Busy
<1>7. CASE ReadSource(h)
  <2>1. PICK j \in Items, to \in Bundles :
          r.todo = {j} /\ r.rest = {to} /\ to # r.bundle
    BY <1>1, <1>7 DEF ReadSource, At, Deletes, Moving
  <2>2. CASE docs[r.bundle][j].status \in Missing
    BY <1>3, <1>4, <1>7, <2>1, <2>2 DEF ReadSource
  <2>3. CASE docs[r.bundle][j].status \notin Missing
    <3>1. req'[h] = [r EXCEPT !.view = docs[r.bundle][j], !.step = "setTarget"]
      BY <1>1, <1>7, <2>1, <2>3 DEF ReadSource, TypeOK
    <3>2. /\ req'[h].step = "setTarget" /\ req'[h].view = docs[r.bundle][j]
          /\ req'[h].todo = {j} /\ req'[h].rest = {to} /\ req'[h].bundle = r.bundle
      BY <1>1, <2>1, <3>1 DEF Request
    <3>3. Deletes(req[h])'
      BY <2>1, <2>3, <3>2 DEF Deletes, Moving
    <3> QED
      BY <1>2, <1>3, <1>7, <3>3 DEF ReadSource, KeptInv
  <2> QED
    BY <2>2, <2>3
<1>8. CASE SetTarget(h)
  <2>1. PICK j \in Items, to \in Bundles :
          /\ r.todo = {j} /\ r.rest = {to} /\ to # r.bundle
          /\ r.view.status \notin Missing
    BY <1>1, <1>8 DEF SetTarget, At, Deletes, Moving
  <2>2. docs' = [docs EXCEPT ![to][j] = r.view]
    BY <1>8, <2>1 DEF SetTarget
  <2>3. \A i \in Items : Keeps(i)
    BY <1>1, <2>1, <2>2, WritingKeeps
  <2>4. req'[h] = [r EXCEPT !.step = "deleteSource"]
    BY <1>1, <1>8 DEF SetTarget, Goto, TypeOK
  <2>5. /\ req'[h].step = "deleteSource" /\ req'[h].todo = {j}
        /\ req'[h].rest = {to} /\ req'[h].bundle = r.bundle
    BY <1>1, <2>1, <2>4 DEF Request
  <2>6. docs'[to][j] = r.view
    BY <1>1, <2>2 DEF TypeOK
  <2>7. Deletes(req[h])'
    BY <2>1, <2>5, <2>6 DEF Deletes, Moving
  <2> QED
    BY <1>2, <2>3, <2>7 DEF KeptInv
<1>9. CASE WriteItem(h)
  <2>1. PICK j \in r.todo : docs' = [docs EXCEPT ![r.bundle][j] = Updated(r.op, @)]
    BY <1>9 DEF WriteItem
  <2>2. r.bundle \in Bundles /\ j \in Items /\ r.op \in LifecycleOps
    BY <1>1, <1>9 DEF WriteItem, At, Request, WellFormed, Shaped, LifecycleSteps
  <2>3. Updated(r.op, docs[r.bundle][j]).status \notin Missing
    <3>1. docs[r.bundle][j] \in ItemDoc
      BY <1>1, <2>2 DEF TypeOK
    <3> QED
      BY <2>2, <3>1, UpdatedStatus DEF ItemStatuses, Missing, Absent
  <2>4. \A i \in Items : Keeps(i)
    <3> DEFINE x == Updated(r.op, docs[r.bundle][j])
    <3>1. docs' = [docs EXCEPT ![r.bundle][j] = x]
      BY <1>1, <2>1, <2>2 DEF TypeOK
    <3> HIDE DEF x
    <3> QED
      BY <1>1, <2>2, <2>3, <3>1, WritingKeeps DEF x
  <2>5. req'[h] = Idle \/ req'[h].step \in LifecycleSteps
    BY <1>0, <2>2 DEF Effect, Continues, Shaped
  <2>6. KeptInv'
    <3>1. CASE req'[h] = Idle
      BY <1>2, <3>1 DEF KeptInv, Busy
    <3>2. CASE req'[h].step \in LifecycleSteps
      BY <1>2, <3>2 DEF KeptInv, Deletes, LifecycleSteps
    <3> QED
      BY <2>5, <3>1, <3>2
  <2> QED
    BY <2>4, <2>6
<1>10. CASE SetStatus(h) \/ SetBundle(h) \/ DeleteBundle(h) \/ CountSale(h)
            \/ WriteMissing(h) \/ RollMissing(h) \/ Fail(h)
  <2>1. docs' = docs /\ End(h)
    BY <1>10 DEF SetStatus, SetBundle, DeleteBundle, CountSale, WriteMissing,
                 RollMissing, Fail, Abort
  <2> QED
    BY <1>3, <1>4, <2>1
<1>11. CASE \/ ReadItem(h) \/ ListBundles(h) \/ ListItems(h) \/ Record(h)
            \/ ListForRollup(h) \/ RollBundle(h) \/ ListForSale(h) \/ ReadSale(h)
            \/ MoveSale(h)
  <2>1. docs' = docs
    BY <1>11 DEF ReadItem, ListBundles, ListItems, Record, ListForRollup, RollBundle,
                 ListForSale, ReadSale, MoveSale
  <2>2. r.step \in LifecycleSteps
    BY <1>11 DEF ReadItem, ListBundles, ListItems, Record, ListForRollup, RollBundle,
                 ListForSale, ReadSale, MoveSale, At, LifecycleSteps
  <2>3. req'[h] = Idle \/ req'[h].step \in LifecycleSteps
    BY <1>0, <1>1, <2>2 DEF Effect, Continues, WellFormed, Shaped
  <2>4. KeptInv'
    BY <1>2, <2>3 DEF KeptInv, Busy, Deletes, LifecycleSteps
  <2> QED
    BY <1>3, <2>1, <2>4
<1> QED
  BY <1>5, <1>6, <1>7, <1>8, <1>9, <1>10, <1>11 DEF Proceed

\* One request at a time, wherever requests stop: an item leaves its last place
\* only in a request that removes it.
THEOREM MovesLoseNothing ==
  ASSUME OneHandler
  PROVE  Spec => LastCopyKept
<1>1. Init => KeptInv
  BY DEF Init, KeptInv, Busy
<1>2. Frame /\ KeptInv /\ [Next]_vars => KeptInv' /\ [\A i \in Items : Keeps(i)]_vars
  <2>1. KeptInv /\ UNCHANGED vars => KeptInv'
    BY DEF vars, KeptInv, Busy, Deletes, Moving
  <2>2. ASSUME Frame, KeptInv, Next
        PROVE  KeptInv' /\ \A i \in Items : Keeps(i)
    BY <2>2, BeginKept, ProceedKept DEF Next, Frame
  <2> QED
    BY <2>1, <2>2
<1>3. [\A i \in Items : Keeps(i)]_vars =>
        [\A i \in Items :
           Places(i) # {} =>
              \/ \E b \in Bundles : docs'[b][i].status \notin Missing
              \/ \E h \in Busy : req[h].op \in {"remove_item", "remove_bundle"}]_vars
  BY DEF Keeps
<1> QED
  BY <1>1, <1>2, <1>3, InitFrame, StepFrame, PTL DEF Spec, LastCopyKept
-----------------------------------------------------------------------------
(***************************************************************************)
(* Every sale of an item, or of its bundle, reaches the log: by one        *)
(* request at a time, none of which stops half way.                        *)
(***************************************************************************)
Undisturbed == OneHandler /\ ~MayFail

SoldByHand(d) == d.status = "sold" /\ d.soldAs # "sale"

\* Request r will log the sale of item i.
WillLog(r, i) == /\ r.op \in SellOps \ SaleOps /\ i \in r.hit
                 /\ r.step \in {"write", "record"}

\* An item with document d, if it was sold, is in the log, or will be.
Logged(d, i) ==
  SoldByHand(d) => ledger[i] > 0 \/ \E h \in Busy : WillLog(req[h], i)

\* A request writes the items it found, and will name them; a move copies
\* what it read.
Informed(r) ==
  /\ r.step = "read" => r.op \in ItemOps
  /\ r.step = "listItems" => r.op \notin ItemOps
  /\ r.step = "write" =>
       \A i \in r.todo : /\ docs[r.bundle][i].status \notin Missing
                         /\ r.op \in SellOps \ SaleOps => i \in r.hit
  /\ r.step = "setTarget" => \A i \in r.todo : SoldByHand(r.view) => ledger[i] > 0

LogInv == /\ \A b \in Bundles, i \in Items : Logged(docs[b][i], i)
          /\ \A h \in Busy : Informed(req[h])

LEMMA BeginLog ==
  ASSUME TypeOK, OneHandler, LogInv, NEW h \in Handlers, BeginRequest(h)
  PROVE  LogInv'
<1>1. /\ UNCHANGED <<docs, ledger>> /\ req[h] = Idle
      /\ Informed(req[h])'
  BY Arrivals DEF Informed, ItemOps, BundleOps
<1>2. \A g \in Handlers : g \notin Busy
  BY <1>1 DEF OneHandler, Busy
<1>3. \A b \in Bundles, i \in Items : SoldByHand(docs[b][i]) => ledger[i] > 0
  BY <1>2 DEF LogInv, Logged, Busy
<1>4. \A g \in Busy' : Informed(req[g])'
  <2>1. \A g \in Busy' : g = h
    BY DEF OneHandler, Busy
  <2> QED
    BY <1>1, <2>1
<1> QED
  BY <1>1, <1>3, <1>4 DEF LogInv, Logged

\* A request that is not about to write or to log sells nothing.
LEMMA SellsNothing ==
  ASSUME TypeOK, OneHandler, LogInv, NEW h \in Busy, ledger' = ledger,
         req[h].step \notin {"write", "record"},
         \A b \in Bundles, i \in Items :
           docs'[b][i] = docs[b][i] \/ ~SoldByHand(docs'[b][i]),
         req'[h] = Idle \/ Informed(req[h])'
  PROVE  LogInv'
<1>1. \A g \in Handlers : g = h
  BY DEF OneHandler, Busy
<1>2. \A b \in Bundles, i \in Items : SoldByHand(docs[b][i]) => ledger[i] > 0
  BY <1>1 DEF LogInv, Logged, Busy, WillLog
<1>3. \A b \in Bundles, i \in Items : SoldByHand(docs'[b][i]) => ledger[i] > 0
  BY <1>2
<1>4. \A g \in Busy' : Informed(req[g])'
  BY <1>1 DEF Busy
<1> QED
  BY <1>3, <1>4 DEF LogInv, Logged

\* The items of a request are found and, if it sells them, noted for the log.
LEMMA FindLog ==
  ASSUME TypeOK, OneHandler, LogInv, NEW h \in Busy, ReadItem(h) \/ ListItems(h)
  PROVE  LogInv'
<1> DEFINE r == req[h]
<1>1. r \in Request /\ h \in Handlers
  BY BusyRequest
<1>2. UNCHANGED <<docs, ledger>> /\ r.step \notin {"write", "record"}
  BY DEF ReadItem, ListItems, At
<1>3. req'[h] = Idle \/ Informed(req[h])'
  <2>1. CASE ReadItem(h)
    <3>1. CASE \A i \in r.todo : docs[r.bundle][i].status \in Accepts(r.op)
      <4>1. req'[h] = [r EXCEPT !.step = "write", !.hit = r.todo]
        BY <1>1, <2>1, <3>1 DEF ReadItem, TypeOK
      <4>2. /\ req'[h].step = "write" /\ req'[h].hit = r.todo
            /\ req'[h].todo = r.todo /\ req'[h].bundle = r.bundle
        BY <1>1, <4>1 DEF Request
      <4>3. r.op \in ItemOps
        BY <2>1 DEF ReadItem, At, LogInv, Informed
      <4>4. Accepts(r.op) \cap Missing = {}
        BY <4>3 DEF ItemOps, Accepts, Missing, Absent
      <4> QED
        BY <1>2, <3>1, <4>2, <4>4 DEF Informed
    <3>2. CASE ~\A i \in r.todo : docs[r.bundle][i].status \in Accepts(r.op)
      BY <1>1, <2>1, <3>2 DEF ReadItem, End, TypeOK
    <3> QED
      BY <3>1, <3>2
  <2>2. CASE ListItems(h)
    <3> DEFINE todo == Sellable(r.bundle)
    <3>1. CASE r.op = "mark_bundle_sold" /\ todo = {}
      BY <1>1, <2>2, <3>1 DEF ListItems, End, TypeOK
    <3>2. CASE ~(r.op = "mark_bundle_sold" /\ todo = {})
      <4> DEFINE hit == IF r.op \in BundleOps THEN todo ELSE {}
                 step == IF todo = {} THEN AfterWrites(r.op) ELSE "write"
      <4>1. req'[h] = [r EXCEPT !.todo = todo, !.hit = hit, !.step = step]
        BY <1>1, <2>2, <3>2 DEF ListItems, TypeOK
      <4>2. /\ req'[h].todo = todo /\ req'[h].hit = hit /\ req'[h].op = r.op
            /\ req'[h].bundle = r.bundle /\ req'[h].step = step
        BY <1>1, <4>1 DEF Request
      <4>3. step \notin {"setTarget", "read", "listItems"}
        BY DEF AfterWrites
      <4>4. \A i \in todo : docs[r.bundle][i].status \notin Missing
        BY DEF Sellable, Missing, Absent
      <4>5. r.op \in SellOps \ SaleOps => r.op \in BundleOps
        BY <2>2 DEF ListItems, At, LogInv, Informed, SellOps, SaleOps, ItemOps,
                    BundleOps
      <4> QED
        BY <1>2, <4>2, <4>3, <4>4, <4>5 DEF Informed
    <3> QED
      BY <3>1, <3>2
  <2> QED
    BY <2>1, <2>2
<1> QED
  BY <1>2, <1>3, SellsNothing

\* An item is written; if it is sold, the request has yet to log it.
LEMMA WriteLog ==
  ASSUME Frame, OneHandler, LogInv, NEW h \in Busy, WriteItem(h)
  PROVE  LogInv'
<1> DEFINE r == req[h]
<1>1. TypeOK /\ r \in Request /\ h \in Handlers /\ r.op \in LifecycleOps /\ Informed(r)
      /\ r.step = "write"
  BY BusyRequest DEF Frame, WriteItem, At, WellFormed, Shaped, LifecycleSteps, LogInv
<1>2. \A g \in Handlers : g = h
  BY DEF OneHandler, Busy
<1>3. PICK i \in r.todo :
        /\ docs' = [docs EXCEPT ![r.bundle][i] = Updated(r.op, @)]
        /\ req' = [req EXCEPT
             ![h].todo = r.todo \ {i},
             ![h].step = IF r.todo = {i} THEN AfterWrites(r.op) ELSE "write"]
        /\ ledger' = ledger
  BY DEF WriteItem
<1> DEFINE x == Updated(r.op, docs[r.bundle][i])
           step == IF r.todo = {i} THEN AfterWrites(r.op) ELSE "write"
<1>4. r.bundle \in Bundles /\ r.todo \subseteq Items
  BY <1>1 DEF Request
<1>5. /\ docs'[r.bundle][i] = x
      /\ \A b \in Bundles, j \in Items :
           (b # r.bundle \/ j # i) => docs'[b][j] = docs[b][j]
  BY <1>1, <1>3, <1>4 DEF TypeOK
<1>6. req'[h] = [r EXCEPT !.todo = r.todo \ {i}, !.step = step]
  BY <1>1, <1>3 DEF TypeOK
<1>7. /\ req'[h].todo = r.todo \ {i} /\ req'[h].step = step /\ req'[h].op = r.op
      /\ req'[h].bundle = r.bundle /\ req'[h].hit = r.hit /\ req'[h] # Idle
  <2>1. req'[h] \in Request
    BY <1>1, <1>4, <1>6 DEF Request, Steps, AfterWrites
  <2> QED
    BY <1>1, <1>6, <2>1, RequestNotIdle DEF Request
<1> HIDE DEF x, step
<1>8. Informed(req[h])'
  <2>1. step \notin {"read", "listItems", "setTarget"}
    BY DEF step, AfterWrites
  <2> QED
    BY <1>1, <1>4, <1>5, <1>7, <2>1 DEF Informed
<1>9. \A j \in Items : WillLog(r, j) => WillLog(req[h], j)'
  <2>1. r.op \in SellOps \ SaleOps => step \in {"write", "record"}
    BY DEF step, AfterWrites, SellOps, SaleOps
  <2> QED
    BY <1>7, <2>1 DEF WillLog
<1>10. SoldByHand(x) => WillLog(r, i)
  <2>1. r.op \in {"reserve_item", "release_reservation", "relist_item",
                  "withdraw_item", "withdraw_bundle", "withdraw_sale",
                  "mark_item_sold", "mark_bundle_sold", "mark_sale_sold"}
    BY <1>1 DEF LifecycleOps, ItemOps, BundleOps, SaleOps
  <2>2. CASE r.op \in SellOps \ SaleOps
    BY <1>1, <2>2 DEF Informed, WillLog
  <2>3. CASE r.op = "mark_sale_sold"
    BY <2>3 DEF x, Updated, SoldByHand
  <2>4. CASE r.op \notin SellOps
    <3>1. docs[r.bundle][i] \in ItemDoc
      BY <1>1, <1>4 DEF TypeOK
    <3>2. x.status # "sold"
      BY <2>1, <2>4, <3>1 DEF x, Updated, SellOps, ItemDoc
    <3> QED
      BY <3>2 DEF SoldByHand
  <2> QED
    BY <2>1, <2>2, <2>3, <2>4 DEF SellOps, SaleOps
<1>11. ASSUME NEW b \in Bundles, NEW j \in Items, SoldByHand(docs'[b][j])
       PROVE  ledger[j] > 0 \/ WillLog(req[h], j)'
  <2>1. ledger[j] > 0 \/ WillLog(r, j)
    BY <1>2, <1>5, <1>10, <1>11 DEF LogInv, Logged, Busy
  <2> QED
    BY <1>9, <2>1
<1> QED
  BY <1>1, <1>2, <1>3, <1>7, <1>8, <1>11 DEF LogInv, Logged, Busy

\* The log names every item the request has written.
LEMMA RecordLog ==
  ASSUME Frame, OneHandler, LogInv, NEW h \in Busy, Record(h)
  PROVE  LogInv'
<1> DEFINE r == req[h]
<1>1. TypeOK /\ r \in Request /\ h \in Handlers
  BY BusyRequest DEF Frame
<1>2. \A g \in Handlers : g = h
  BY DEF OneHandler, Busy
<1>3. ASSUME NEW b \in Bundles, NEW i \in Items, SoldByHand(docs[b][i])
      PROVE  ledger'[i] > 0
  <2>1. ledger[i] \in Nat /\ (ledger[i] > 0 \/ WillLog(r, i))
    BY <1>1, <1>2, <1>3 DEF LogInv, Logged, Busy, TypeOK
  <2>2. ledger'[i] = IF r.op \in SellOps /\ i \in r.hit THEN ledger[i] + 1 ELSE ledger[i]
    BY DEF Record
  <2>3. CASE r.op \in SellOps /\ i \in r.hit
    BY <2>1, <2>2, <2>3
  <2>4. CASE ~(r.op \in SellOps /\ i \in r.hit)
    BY <2>1, <2>2, <2>4 DEF WillLog
  <2> QED
    BY <2>3, <2>4
<1>4. req'[h].step \in {"listForSale", "listForRollup"} /\ docs' = docs
  BY <1>1 DEF Record, Goto, TypeOK, Request
<1>5. Informed(req[h])'
  BY <1>4 DEF Informed
<1> QED
  BY <1>2, <1>3, <1>4, <1>5 DEF LogInv, Logged, Busy

\* A sold item is moved with its record.
LEMMA MoveLog ==
  ASSUME Frame, OneHandler, KeptInv, LogInv, NEW h \in Busy,
         ReadSource(h) \/ SetTarget(h)
  PROVE  LogInv'
<1> DEFINE r == req[h]
<1>1. TypeOK /\ r \in Request /\ h \in Handlers /\ Informed(r)
  BY BusyRequest DEF Frame, LogInv
<1>2. \A g \in Handlers : g = h
  BY DEF OneHandler, Busy
<1>3. PICK i \in Items, to \in Bundles : r.todo = {i} /\ r.rest = {to}
  BY DEF KeptInv, Deletes, Moving, ReadSource, SetTarget, At
<1>4. \A b \in Bundles, j \in Items : SoldByHand(docs[b][j]) => ledger[j] > 0
  BY <1>2 DEF LogInv, Logged, Busy, WillLog, ReadSource, SetTarget, At
<1>5. CASE ReadSource(h)
  <2>1. CASE docs[r.bundle][i].status \in Missing
    <3>1. req'[h] = Idle
      BY <1>1, <1>3, <1>5, <2>1 DEF ReadSource, End, TypeOK
    <3> QED
      BY <1>1, <1>5, <3>1, SellsNothing DEF ReadSource, At
  <2>2. CASE docs[r.bundle][i].status \notin Missing
    <3>1. req'[h] = [r EXCEPT !.view = docs[r.bundle][i], !.step = "setTarget"]
      BY <1>1, <1>3, <1>5, <2>2 DEF ReadSource, TypeOK
    <3>2. /\ req'[h].step = "setTarget" /\ req'[h].view = docs[r.bundle][i]
          /\ req'[h].todo = {i} /\ r.bundle \in Bundles
      BY <1>1, <1>3, <3>1 DEF Request
    <3>3. ledger' = ledger
      BY <1>5 DEF ReadSource
    <3>4. Informed(req[h])'
      BY <1>4, <3>2, <3>3 DEF Informed
    <3> QED
      BY <1>1, <1>5, <3>4, SellsNothing DEF ReadSource, At
  <2> QED
    BY <2>1, <2>2
<1>6. CASE SetTarget(h)
  <2>1. docs' = [docs EXCEPT ![to][i] = r.view] /\ ledger' = ledger
    BY <1>3, <1>6 DEF SetTarget
  <2>2. SoldByHand(r.view) => ledger[i] > 0
    BY <1>1, <1>3, <1>6 DEF SetTarget, At, Informed
  <2>3. \A b \in Bundles, j \in Items : SoldByHand(docs'[b][j]) => ledger'[j] > 0
    <3>1. \A b \in Bundles, j \in Items :
            docs'[b][j] = IF b = to /\ j = i THEN r.view ELSE docs[b][j]
      BY <1>1, <2>1 DEF TypeOK
    <3> QED
      BY <1>4, <2>1, <2>2, <3>1
  <2>4. req'[h].step = "deleteSource"
    BY <1>1, <1>6 DEF SetTarget, Goto, TypeOK, Request
  <2>5. Informed(req[h])'
    BY <2>4 DEF Informed
  <2> QED
    BY <1>2, <2>3, <2>5 DEF LogInv, Logged, Busy
<1> QED
  BY <1>5, <1>6

\* The other steps sell nothing and write no item next.
LEMMA OtherLog ==
  ASSUME Frame, OneHandler, LogInv, NEW h \in Busy,
         \/ ListBundles(h) \/ ListForRollup(h) \/ RollBundle(h) \/ ListForSale(h)
         \/ ReadSale(h) \/ MoveSale(h) \/ CountSale(h) \/ SetStatus(h)
         \/ SetBundle(h) \/ SetItem(h) \/ DeleteItem(h) \/ DeleteSource(h)
         \/ ListDoomed(h) \/ DeleteItems(h) \/ DeleteBundle(h) \/ RollMissing(h)
  PROVE  LogInv'
<1> DEFINE r == req[h]
<1>1. TypeOK /\ r \in Request /\ h \in Handlers /\ WellFormed(r)
  BY BusyRequest DEF Frame
<1>2. r.step \notin {"write", "record"} /\ ledger' = ledger
  BY DEF ListBundles, ListForRollup, RollBundle, ListForSale, ReadSale, MoveSale,
         CountSale, SetStatus, SetBundle, SetItem, DeleteItem, DeleteSource,
         ListDoomed, DeleteItems, DeleteBundle, RollMissing, Abort, At
<1>3. ASSUME NEW b \in Bundles, NEW i \in Items
      PROVE  docs'[b][i] = docs[b][i] \/ ~SoldByHand(docs'[b][i])
  <2>1. CASE DeleteItem(h) \/ DeleteSource(h) \/ DeleteItems(h)
    <3>1. PICK j \in r.todo : docs' = [docs EXCEPT ![r.bundle][j] = Gone(@)]
      BY <2>1 DEF DeleteItem, DeleteSource, DeleteItems
    <3>2. docs'[b][i] = docs[b][i] \/ docs'[b][i] = Gone(docs[b][i])
      BY <1>1, <3>1 DEF TypeOK
    <3>3. docs[b][i] \in ItemDoc
      BY <1>1 DEF TypeOK
    <3>4. Gone(docs[b][i]).status # "sold"
      BY <3>3 DEF Gone, ItemDoc, Absent
    <3> QED
      BY <3>2, <3>4 DEF SoldByHand
  <2>2. CASE SetItem(h)
    <3>1. PICK j \in r.todo : docs' = [docs EXCEPT ![r.bundle][j] = NewItem]
      BY <2>2 DEF SetItem
    <3>2. docs'[b][i] = docs[b][i] \/ docs'[b][i] = NewItem
      BY <1>1, <3>1 DEF TypeOK
    <3> QED
      BY <3>2 DEF SoldByHand, NewItem
  <2>3. CASE ~(SetItem(h) \/ DeleteItem(h) \/ DeleteSource(h) \/ DeleteItems(h))
    BY <2>3 DEF ListBundles, ListForRollup, RollBundle, ListForSale, ReadSale,
                MoveSale, CountSale, SetStatus, SetBundle, ListDoomed, DeleteBundle,
                RollMissing, Abort
  <2> QED
    BY <2>1, <2>2, <2>3
<1>4. req'[h] = Idle \/ Informed(req[h])'
  <2>1. CASE \/ CountSale(h) \/ SetStatus(h) \/ SetBundle(h) \/ SetItem(h)
             \/ DeleteItem(h) \/ DeleteSource(h) \/ DeleteBundle(h) \/ RollMissing(h)
    BY <1>1, <2>1 DEF CountSale, SetStatus, SetBundle, SetItem, DeleteItem,
                      DeleteSource, DeleteBundle, RollMissing, Abort, End, TypeOK
  <2>2. CASE ListForSale(h) \/ ReadSale(h) \/ MoveSale(h) \/ ListDoomed(h)
    <3>1. req'[h] = Idle \/ req'[h].step \in {"readSale", "countSale", "moveSale",
                                             "deleteItems", "deleteBundle"}
      <4>1. CASE ListForSale(h)
        BY <1>1, <4>1 DEF ListForSale, End, TypeOK, Request
      <4>2. CASE ReadSale(h)
        BY <1>1, <4>2 DEF ReadSale, Goto, End, TypeOK, Request
      <4>3. CASE MoveSale(h)
        BY <1>1, <4>3 DEF MoveSale, Goto, TypeOK, Request
      <4>4. CASE ListDoomed(h)
        BY <1>1, <4>4 DEF ListDoomed, TypeOK, Request
      <4> QED
        BY <2>2, <4>1, <4>2, <4>3, <4>4
    <3> QED
      BY <3>1 DEF Informed
  <2>3. CASE DeleteItems(h)
    <3>1. PICK s \in {"deleteItems", "deleteBundle"}, todo \in SUBSET Items :
            req' = [req EXCEPT ![h].todo = todo, ![h].step = s]
      BY <1>1, <2>3 DEF DeleteItems, Request
    <3>2. req'[h].step \in {"deleteItems", "deleteBundle"}
      BY <1>1, <3>1 DEF TypeOK, Request
    <3> QED
      BY <3>2 DEF Informed
  <2>4. CASE ListBundles(h) \/ ListForRollup(h) \/ RollBundle(h)
    <3>1. \/ req'[h].step \in {"record", "rollBundle", "listForSale"}
          \/ req'[h].step = "listItems" /\ req'[h].op \in SaleOps
      <4>1. ASSUME NEW rest \in SUBSET Bundles, NEW n \in Advance(r, rest),
                   r.op \in SaleOps
            PROVE  n.step \in {"record", "listItems"} /\ n.op \in SaleOps
        BY <1>1, <4>1 DEF Advance, Request
      <4>2. ASSUME NEW n \in AfterRollup(r)
            PROVE  \/ n.step \in {"record", "listForSale"}
                   \/ n.step = "listItems" /\ n.op \in SaleOps
        <5>1. r.rest \in SUBSET Bundles
          BY <1>1 DEF Request
        <5>2. CASE r.op \in SaleOps
          BY <4>1, <4>2, <5>1, <5>2 DEF AfterRollup
        <5>3. CASE r.op \notin SaleOps
          BY <1>1, <4>2, <5>3 DEF AfterRollup, Request
        <5> QED
          BY <5>2, <5>3
      <4>3. CASE ListBundles(h)
        <5>1. r.op \in SaleOps /\ Shelved \in SUBSET Bundles
          BY <1>1, <4>3 DEF ListBundles, At, WellFormed, Shaped, Shelved
        <5>2. PICK n \in Advance(r, Shelved) : req'[h] = n
          BY <1>1, <4>3 DEF ListBundles, TypeOK
        <5> QED
          BY <4>1, <5>1, <5>2
      <4>4. CASE ListForRollup(h) /\ ItemsIn(r.bundle) # {}
        BY <1>1, <4>4 DEF ListForRollup, TypeOK, Request
      <4>5. CASE \/ ListForRollup(h) /\ ItemsIn(r.bundle) = {}
                 \/ RollBundle(h)
        <5>1. PICK n \in AfterRollup(r) : req'[h] = n
          BY <1>1, <4>5 DEF ListForRollup, RollBundle, TypeOK
        <5> QED
          BY <4>2, <5>1
      <4> QED
        BY <2>4, <4>3, <4>4, <4>5
    <3> QED
      BY <3>1 DEF Informed, SaleOps, ItemOps
  <2> QED
    BY <2>1, <2>2, <2>3, <2>4
<1> QED
  BY <1>1, <1>2, <1>3, <1>4, SellsNothing

\* One request at a time, none of which fails: every item sold by itself or
\* with its bundle is in the transaction log once the request is answered.
THEOREM SalesAreLogged ==
  ASSUME Undisturbed
  PROVE  Spec => []LedgerComplete
<1>1. OneHandler /\ ~MayFail
  BY DEF Undisturbed
<1>2. Init => KeptInv /\ LogInv
  BY DEF Init, KeptInv, LogInv, Logged, SoldByHand, Busy, NewItem, NoItem, Absent
<1>3. Frame /\ KeptInv /\ LogInv /\ [Next]_vars => KeptInv' /\ LogInv'
  <2>1. KeptInv /\ LogInv /\ UNCHANGED vars => KeptInv' /\ LogInv'
    BY DEF vars, KeptInv, LogInv, Logged, WillLog, Informed, Busy, Deletes, Moving
  <2>2. ASSUME Frame, KeptInv, LogInv, NEW h \in Handlers,
               BeginRequest(h) \/ Proceed(h) \/ Fail(h)
        PROVE  KeptInv' /\ LogInv'
    <3>1. CASE BeginRequest(h)
      BY <1>1, <2>2, <3>1, BeginKept, BeginLog DEF Frame
    <3>2. CASE Proceed(h)
      <4>1. h \in Busy /\ KeptInv'
        BY <1>1, <2>2, <3>2, ProceedEffect, ProceedKept
      <4>2. ~WriteMissing(h)
        BY <2>2, <4>1 DEF WriteMissing, At, LogInv, Informed
      <4>3. CASE ReadItem(h) \/ ListItems(h) \/ WriteItem(h) \/ Record(h)
                 \/ ReadSource(h) \/ SetTarget(h)
        BY <1>1, <2>2, <4>1, <4>3, FindLog, WriteLog, RecordLog, MoveLog DEF Frame
      <4>4. CASE \/ ListBundles(h) \/ ListForRollup(h) \/ RollBundle(h)
                 \/ ListForSale(h) \/ ReadSale(h) \/ MoveSale(h) \/ CountSale(h)
                 \/ SetStatus(h) \/ SetBundle(h) \/ SetItem(h) \/ DeleteItem(h)
                 \/ DeleteSource(h) \/ ListDoomed(h) \/ DeleteItems(h)
                 \/ DeleteBundle(h) \/ RollMissing(h)
        BY <1>1, <2>2, <4>1, <4>4, OtherLog
      <4> QED
        BY <3>2, <4>1, <4>2, <4>3, <4>4 DEF Proceed
    <3> QED
      BY <1>1, <2>2, <3>1, <3>2 DEF Fail
  <2> QED
    BY <2>1, <2>2 DEF Next
<1>4. LogInv => LedgerComplete
  BY DEF LogInv, Logged, SoldByHand, LedgerComplete
<1> QED
  BY <1>2, <1>3, <1>4, InitFrame, StepFrame, PTL DEF Spec
=============================================================================
