------------------------- MODULE Marketplace_proofs -------------------------
(***************************************************************************)
(* Buyers who browse change nothing of the sale, and what they are shown   *)
(* is right, for any number of visitors, requests, bundles and items:      *)
(* proofs about Marketplace.                                               *)
(***************************************************************************)
EXTENDS Marketplace, InventoryLifecycle_proofs

USE MarketplaceAssumption

\* What holds of a visit between its queries: of the places whose standing
\* has not changed, those read are shown just if they are on show, and those
\* yet to be read are in bundles that are there.
Honest(t) ==
  /\ t \in Visit
  /\ t.page = "item" <=> t.step = "context"
  /\ t.step = "listBundles" => t.rest = {} /\ t.shown = {}
  /\ t.step = "answer" => t.rest = {}
  /\ t.step \in {"listItems", "answer"} =>
       \A p \in t.steady :
         IF p[1] \in t.rest
         THEN Standing[t.page][p].bundle /\ p \notin t.shown
         ELSE p \in t.shown <=> OnShow(t.page, p)

MarketInv == /\ TypeOK
             /\ visit \in [Visitors -> {Idle} \cup Visit]
             /\ \A v \in Visitors : visit[v] # Idle => Honest(visit[v])
-----------------------------------------------------------------------------
(***************************************************************************)
(* The composed system is a system of the seller's.                        *)
(***************************************************************************)

\* Whoever browses: what the seller's requests do is what they do without
\* buyers, so that every theorem about them holds here.
THEOREM BrowsingChangesNothing == MarketSpec => Spec
<1>1. MarketInit => Init
  BY DEF MarketInit
<1>2. [MarketNext]_mvars => [Next]_vars
  <2> SUFFICES ASSUME [MarketNext]_mvars PROVE [Next]_vars
    OBVIOUS
  <2>1. CASE Seller
    BY <2>1 DEF Seller
  <2>2. CASE \E v \in Visitors : Browse(v)
    BY <2>2 DEF Browse, VisitSale, VisitItem, ReadContext, VisitBundles,
                VisitItems, Answer
  <2>3. CASE UNCHANGED mvars
    BY <2>3 DEF mvars, vars
  <2> QED
    BY <2>1, <2>2, <2>3 DEF MarketNext
<1> QED
  BY <1>1, <1>2, PTL DEF MarketSpec, Spec
-----------------------------------------------------------------------------
(***************************************************************************)
(* What visitors are shown.                                                *)
(***************************************************************************)

LEMMA VisitNotIdle == \A t \in Visit : t # Idle
<1> SUFFICES ASSUME NEW t \in Visit, t = Idle PROVE FALSE
  OBVIOUS
<1>1. t.step # "idle"
  BY DEF Visit
<1>2. Idle.step = "idle"
  BY DEF Idle
<1> QED
  BY <1>1, <1>2

\* Search and sale page show what is on offer of the bundles they read.
LEMMA ShowsOffered ==
  ASSUME TypeOK, NEW page \in Pages, page # "item", NEW p \in Spots
  PROVE  Shows(page, p[2], docs[p[1]][p[2]]) <=> Standing[page][p].item
<1>1. p[1] \in Bundles /\ p[2] \in Items
  BY DEF Spots
<1>2. docs[p[1]][p[2]].status \in ItemStatuses \cup Missing
  BY <1>1 DEF TypeOK, ItemDoc
<1> QED
  BY <1>2 DEF Shows, InSearch, OnSalePage, Standing, ItemStatuses, Missing, Absent

\* A step of the seller's leaves every visit honest about what did not change.
LEMMA SellerHonest ==
  ASSUME MarketInv, TypeOK', Seller
  PROVE  MarketInv'
<1>1. ASSUME NEW v \in Visitors, visit[v] # Idle, visit[v].page = "item"
      PROVE  visit'[v] = visit[v] /\ Honest(visit[v])'
  <2>1. visit'[v] = visit[v]
    BY <1>1 DEF Seller, Watched, MarketInv
  <2>2. Honest(visit[v])
    BY <1>1 DEF MarketInv
  <2>3. visit[v].step = "context"
    BY <1>1, <2>2 DEF Honest
  <2> QED
    BY <1>1, <2>1, <2>2, <2>3 DEF Honest
<1>2. ASSUME NEW v \in Visitors, visit[v] # Idle, visit[v].page # "item"
      PROVE  visit'[v] # Idle /\ Honest(visit[v])'
  <2> DEFINE t == visit[v]
             kept == {p \in t.steady : Standing[t.page][p] = Standing'[t.page][p]}
  <2>1. t \in Visit /\ Honest(t)
    BY <1>2 DEF MarketInv
  <2>2. visit'[v] = [t EXCEPT !.steady = kept]
    BY <1>2 DEF Seller, Watched, MarketInv
  <2>3. visit'[v] \in Visit
    BY <2>1, <2>2 DEF Visit
  <2>4. /\ visit'[v].page = t.page /\ visit'[v].step = t.step
        /\ visit'[v].rest = t.rest /\ visit'[v].shown = t.shown
        /\ visit'[v].steady = kept
    BY <2>1, <2>2 DEF Visit
  <2>5. ASSUME t.step \in {"listItems", "answer"}, NEW p \in kept
        PROVE  IF p[1] \in t.rest
               THEN Standing'[t.page][p].bundle /\ p \notin t.shown
               ELSE p \in t.shown <=> OnShow(t.page, p)'
    <3>1. p \in t.steady /\ Standing[t.page][p] = Standing'[t.page][p]
      OBVIOUS
    <3>2. IF p[1] \in t.rest
          THEN Standing[t.page][p].bundle /\ p \notin t.shown
          ELSE p \in t.shown <=> OnShow(t.page, p)
      BY <2>1, <2>5, <3>1 DEF Honest
    <3>3. visit'[v].page = t.page
      BY <2>4
    <3> QED
      BY <3>1, <3>2, <3>3 DEF OnShow
  <2>6. visit'[v] # Idle
    BY <2>3, VisitNotIdle
  <2> QED
    BY <2>1, <2>3, <2>4, <2>5, <2>6 DEF Honest
<1>3. visit' \in [Visitors -> {Idle} \cup Visit]
  <2>1. \A v \in Visitors : visit'[v] \in {Idle} \cup Visit
    <3> SUFFICES ASSUME NEW v \in Visitors PROVE visit'[v] \in {Idle} \cup Visit
      OBVIOUS
    <3>1. CASE visit[v] = Idle
      BY <3>1 DEF Seller, Watched
    <3>2. CASE visit[v] # Idle
      BY <3>2, <1>1, <1>2 DEF Honest
    <3> QED
      BY <3>1, <3>2
  <2> QED
    BY <2>1 DEF Seller
<1>4. ASSUME NEW v \in Visitors, visit'[v] # Idle
      PROVE  Honest(visit[v])'
  <2>1. visit[v] # Idle
    BY <1>4 DEF Seller, Watched
  <2> QED
    BY <1>1, <1>2, <2>1
<1> QED
  BY <1>3, <1>4 DEF MarketInv

\* So does a step of a visit.
LEMMA BrowseHonest ==
  ASSUME MarketInv, NEW v \in Visitors, Browse(v)
  PROVE  MarketInv'
<1> DEFINE t == visit[v]
           n == visit'[v]
<1>1. UNCHANGED vars
  BY DEF Browse, VisitSale, VisitItem, ReadContext, VisitBundles, VisitItems, Answer
<1>2. /\ TypeOK'
      /\ Standing' = Standing
  BY <1>1 DEF vars, MarketInv, TypeOK, Busy, Standing, Shelved
<1>3. /\ n = Idle \/ Honest(n)
      /\ visit' = [visit EXCEPT ![v] = n]
  <2>1. CASE VisitSale(v)
    <3>1. PICK page \in Pages \ {"item"} :
            visit' = [visit EXCEPT ![v] = Arrived(page, "listBundles", {})]
      BY <2>1 DEF VisitSale
    <3>2. n = Arrived(page, "listBundles", {})
      BY <3>1 DEF MarketInv
    <3>3. n \in Visit
      BY <3>2 DEF Arrived, Visit
    <3>4. n.page # "item" /\ n.step = "listBundles" /\ n.rest = {} /\ n.shown = {}
      BY <3>2 DEF Arrived
    <3>5. Honest(n)
      BY <3>3, <3>4 DEF Honest
    <3>6. visit' = [visit EXCEPT ![v] = n]
      BY <3>1, <3>2
    <3> HIDE DEF n
    <3> QED
      BY <3>5, <3>6
  <2>2. CASE VisitItem(v)
    <3>1. PICK p \in Spots : visit' = [visit EXCEPT ![v] = Arrived("item", "context", {p})]
      BY <2>2 DEF VisitItem
    <3>2. n = Arrived("item", "context", {p})
      BY <3>1 DEF MarketInv
    <3>3. n \in Visit
      BY <2>2, <3>2 DEF Arrived, Visit, VisitItem
    <3>4. n.page = "item" /\ n.step = "context"
      BY <3>2 DEF Arrived
    <3>5. Honest(n)
      BY <3>3, <3>4 DEF Honest
    <3>6. visit' = [visit EXCEPT ![v] = n]
      BY <3>1, <3>2
    <3> HIDE DEF n
    <3> QED
      BY <3>5, <3>6
  <2>3. CASE ReadContext(v) \/ Answer(v)
    BY <2>3 DEF ReadContext, Answer, MarketInv
  <2>4. CASE VisitBundles(v)
    <3>1. /\ t \in Visit /\ Honest(t) /\ t.step = "listBundles"
      BY <2>4 DEF VisitBundles, VisitAt, MarketInv
    <3>2. t.page # "item" /\ t.shown = {}
      BY <3>1 DEF Honest
    <3>3. /\ n = [t EXCEPT !.rest = Shelved,
                           !.step = IF Shelved = {} THEN "answer" ELSE "listItems"]
          /\ visit' = [visit EXCEPT ![v] = n]
      BY <2>4 DEF VisitBundles, MarketInv
    <3>4. Shelved \in SUBSET Bundles
      BY DEF Shelved
    <3>5. /\ n \in Visit
          /\ n.rest = Shelved /\ n.shown = {} /\ n.page = t.page /\ n.steady = t.steady
          /\ n.step \in {"answer", "listItems"}
          /\ n.step = "answer" => n.rest = {}
      BY <3>1, <3>2, <3>3, <3>4 DEF Visit
    <3>6. ASSUME NEW p \in n.steady
          PROVE  Standing[n.page][p].bundle <=> p[1] \in Shelved
      <4>1. p \in Spots /\ n.page \in Pages
        BY <3>5 DEF Visit
      <4> QED
        BY <4>1 DEF Standing
    <3>7. \A p \in n.steady :
            IF p[1] \in n.rest
            THEN Standing[n.page][p].bundle /\ p \notin n.shown
            ELSE p \in n.shown <=> OnShow(n.page, p)
      BY <3>5, <3>6 DEF OnShow
    <3> QED
      BY <3>2, <3>3, <3>5, <3>7 DEF Honest
  <2>5. CASE VisitItems(v)
    <3>1. /\ t \in Visit /\ Honest(t) /\ t.step = "listItems" /\ t.page # "item"
      BY <2>5 DEF VisitItems, VisitAt, MarketInv, Honest
    <3>2. PICK b \in t.rest :
            /\ n = [t EXCEPT
                      !.shown = @ \cup {<<b, i>> : i \in
                                   {i \in Items : Shows(t.page, i, docs[b][i])}},
                      !.rest = @ \ {b},
                      !.step = IF t.rest = {b} THEN "answer" ELSE "listItems"]
            /\ visit' = [visit EXCEPT ![v] = n]
      BY <2>5 DEF VisitItems, MarketInv
    <3> DEFINE read == {<<b, i>> : i \in {i \in Items : Shows(t.page, i, docs[b][i])}}
    <3>3. b \in Bundles /\ t.page \in Pages /\ t.steady \subseteq Spots
      BY <3>1 DEF Visit
    <3>4. read \in SUBSET Spots
      BY <3>3 DEF Spots
    <3>5. /\ n.shown = t.shown \cup read /\ n.rest = t.rest \ {b}
          /\ n.page = t.page /\ n.steady = t.steady
          /\ n.step = IF t.rest = {b} THEN "answer" ELSE "listItems"
      BY <3>1, <3>2 DEF Visit
    <3>6. n \in Visit
      <4>1. t.rest \ {b} \in SUBSET Bundles /\ t.shown \cup read \in SUBSET Spots
        BY <3>1, <3>4 DEF Visit
      <4>2. n = [t EXCEPT !.shown = t.shown \cup read, !.rest = t.rest \ {b},
                          !.step = IF t.rest = {b} THEN "answer" ELSE "listItems"]
        BY <3>1, <3>2 DEF Visit
      <4> HIDE DEF n, read, t
      <4> QED
        BY <3>1, <4>1, <4>2 DEF Visit
    <3>7. ASSUME NEW p \in n.steady
          PROVE  IF p[1] \in n.rest
                 THEN Standing[n.page][p].bundle /\ p \notin n.shown
                 ELSE p \in n.shown <=> OnShow(n.page, p)
      <4>1. /\ p \in t.steady /\ p \in Spots
            /\ IF p[1] \in t.rest
               THEN Standing[t.page][p].bundle /\ p \notin t.shown
               ELSE p \in t.shown <=> OnShow(t.page, p)
        BY <3>1, <3>3, <3>5 DEF Honest
      <4>2. p = <<p[1], p[2]>> /\ p[1] \in Bundles /\ p[2] \in Items
        BY <4>1 DEF Spots
      <4>3. CASE p[1] = b
        <5>1. p \in read <=> Shows(t.page, p[2], docs[p[1]][p[2]])
          BY <4>2, <4>3
        <5>2. Shows(t.page, p[2], docs[p[1]][p[2]]) <=> Standing[t.page][p].item
          BY <3>1, <3>3, <4>1, ShowsOffered DEF MarketInv
        <5> QED
          BY <3>5, <4>1, <4>3, <5>1, <5>2 DEF OnShow
      <4>4. CASE p[1] # b
        <5>1. p \notin read
          BY <4>2, <4>4
        <5> QED
          BY <3>5, <4>1, <4>4, <5>1
      <4> QED
        BY <4>3, <4>4
    <3> QED
      BY <3>1, <3>2, <3>5, <3>6, <3>7 DEF Honest
  <2> QED
    BY <2>1, <2>2, <2>3, <2>4, <2>5 DEF Browse
<1>4. n \in {Idle} \cup Visit
  BY <1>3 DEF Honest
<1>5. visit' \in [Visitors -> {Idle} \cup Visit]
  BY <1>3, <1>4 DEF MarketInv
<1>6. ASSUME NEW w \in Visitors, visit'[w] # Idle
      PROVE  Honest(visit[w])'
  <2>1. Honest(visit'[w])
    BY <1>3, <1>6 DEF MarketInv
  <2> QED
    BY <1>2, <2>1 DEF Honest, OnShow
<1> QED
  BY <1>2, <1>5, <1>6 DEF MarketInv
-----------------------------------------------------------------------------
THEOREM MarketInvariant == MarketSpec => []MarketInv
<1>1. MarketInit => (TypeOK => MarketInv)
  BY DEF MarketInit, MarketInv
<1>2. MarketInv /\ TypeOK' /\ [MarketNext]_mvars => MarketInv'
  <2> SUFFICES ASSUME MarketInv, TypeOK', [MarketNext]_mvars PROVE MarketInv'
    OBVIOUS
  <2>1. CASE Seller
    BY <2>1, SellerHonest
  <2>2. CASE \E v \in Visitors : Browse(v)
    BY <2>2, BrowseHonest
  <2>3. CASE UNCHANGED mvars
    <3>1. UNCHANGED vars /\ visit' = visit
      BY <2>3 DEF mvars, vars
    <3>2. Standing' = Standing
      BY <3>1 DEF vars, Standing, Shelved
    <3>3. \A v \in Visitors : visit[v] # Idle => Honest(visit[v])'
      BY <3>1, <3>2 DEF MarketInv, Honest, OnShow
    <3> QED
      BY <3>1, <3>3 DEF MarketInv
  <2> QED
    BY <2>1, <2>2, <2>3 DEF MarketNext
<1>3. MarketSpec => []TypeOK
  BY BrowsingChangesNothing, TypeCorrect, PTL
<1> QED
  BY <1>1, <1>2, <1>3, PTL DEF MarketSpec

\* Every variable keeps its type, for any number of visitors.
THEOREM MarketTypeCorrect == MarketSpec => []MarketTypeOK
<1>1. MarketInv => MarketTypeOK
  BY DEF MarketInv, MarketTypeOK
<1> QED
  BY <1>1, MarketInvariant, PTL

\* Any number of buyers and of requests of the seller that fail anywhere: an
\* answer is right about all that did not change while it was put together.
\* (marketplace_repo.py get_active_inventory, get_public_sale)
THEOREM AnswersAreRight == MarketSpec => []AnswerIsRight
<1>1. MarketInv => AnswerIsRight
  <2> SUFFICES ASSUME MarketInv, NEW v \in Visitors, VisitAt(v, "answer"),
                      NEW p \in visit[v].steady
               PROVE  p \in visit[v].shown <=> OnShow(visit[v].page, p)
    BY DEF AnswerIsRight
  <2>1. Honest(visit[v]) /\ visit[v].step = "answer"
    BY DEF MarketInv, VisitAt
  <2>2. p[1] \notin visit[v].rest
    BY <2>1 DEF Honest
  <2> QED
    BY <2>1, <2>2 DEF Honest
<1> QED
  BY <1>1, MarketInvariant, PTL
=============================================================================
