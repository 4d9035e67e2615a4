---------------------- MODULE InventoryLifecycle_proofs ----------------------
(***************************************************************************)
(* The statuses that handlers cache are right, for any number of bundles,  *)
(* items and concurrent requests: proofs about InventoryLifecycle.         *)
(*                                                                         *)
(* First what the roll-up computes (Rollup); then how a single step of a   *)
(* request may change the documents (Effect), from that the types and the  *)
(* bookkeeping (Frame), then the roll-up of bundles and of the sale.       *)
(***************************************************************************)
EXTENDS InventoryLifecycle, FiniteSetTheorems, FunctionTheorems, TLAPS

-----------------------------------------------------------------------------
(***************************************************************************)
(* The roll-up: facts about Rollup, for any set of items and of bundles.   *)
(***************************************************************************)

\* Counting the items with a status is counting a part of the query result.
LEMMA CountFacts ==
  ASSUME NEW f, IsFiniteSet(DOMAIN f), NEW s
  PROVE  /\ Count(f, s) \in Nat
         /\ Count(f, s) <= Cardinality(DOMAIN f)
         /\ Count(f, s) = 0 <=> \A x \in DOMAIN f : f[x] # s
         /\ Count(f, s) = Cardinality(DOMAIN f) <=> \A x \in DOMAIN f : f[x] = s
<1> DEFINE T == {x \in DOMAIN f : f[x] = s}
<1>1. T \in SUBSET (DOMAIN f)
  OBVIOUS
<1>2. /\ IsFiniteSet(T)
      /\ Cardinality(T) <= Cardinality(DOMAIN f)
      /\ Cardinality(DOMAIN f) = Cardinality(T) => DOMAIN f = T
  BY <1>1, FS_Subset
<1>3. Cardinality(T) \in Nat /\ (Cardinality(T) = 0 <=> T = {})
  BY <1>2, FS_CardinalityType, FS_EmptySet
<1>4. Count(f, s) = Cardinality(T)
  BY DEF Count
<1>5. T = {} <=> \A x \in DOMAIN f : f[x] # s
  OBVIOUS
<1>6. T = DOMAIN f <=> \A x \in DOMAIN f : f[x] = s
  OBVIOUS
<1> QED
  BY <1>2, <1>3, <1>4, <1>5, <1>6

\* Two statuses are counted apart: together they count the items that have
\* one or the other.
LEMMA CountTwo ==
  ASSUME NEW f, IsFiniteSet(DOMAIN f), NEW s, NEW t, s # t
  PROVE  Count(f, s) + Count(f, t) = Cardinality(DOMAIN f)
           <=> \A x \in DOMAIN f : f[x] \in {s, t}
<1> DEFINE S == {x \in DOMAIN f : f[x] = s}
           T == {x \in DOMAIN f : f[x] = t}
<1>1. IsFiniteSet(S) /\ IsFiniteSet(T)
  BY FS_Subset
<1>2. S \cap T = {}
  OBVIOUS
<1>3. IsFiniteSet(S \cup T) /\ Cardinality(S \cup T) = Cardinality(S) + Cardinality(T)
  <2>1. Cardinality(S \cap T) = 0
    BY <1>2, FS_EmptySet
  <2>2. Cardinality(S) \in Nat /\ Cardinality(T) \in Nat
    BY <1>1, FS_CardinalityType
  <2>3. /\ IsFiniteSet(S \cup T)
        /\ Cardinality(S \cup T)
             = Cardinality(S) + Cardinality(T) - Cardinality(S \cap T)
    <3> HIDE DEF S, T
    <3> QED
      BY <1>1, FS_Union
  <2> HIDE DEF S, T
  <2> QED
    BY <2>1, <2>2, <2>3
<1>4. S \cup T \in SUBSET (DOMAIN f)
  OBVIOUS
<1>5. Cardinality(S \cup T) = Cardinality(DOMAIN f) <=> S \cup T = DOMAIN f
  BY <1>4, FS_Subset
<1>6. S \cup T = DOMAIN f <=> \A x \in DOMAIN f : f[x] \in {s, t}
  OBVIOUS
<1> QED
  BY <1>3, <1>5, <1>6 DEF Count

\* A bundle's cached status says what it should of its items, whatever their
\* number.  (inventory_lifecycle.py 480-512)
THEOREM BundleStatusMeaning ==
  ASSUME NEW f, IsFiniteSet(DOMAIN f), DOMAIN f # {},
         \A x \in DOMAIN f : f[x] \in ItemStatuses
  PROVE  BundleStatusOf(f) = DeclaredBundleStatus(f)
<1>1. /\ Count(f, "withdrawn") \in Nat /\ Count(f, "sold") \in Nat
      /\ Count(f, "reserved") \in Nat /\ Count(f, "available") \in Nat
      /\ Cardinality(DOMAIN f) \in Nat
  BY CountFacts, FS_CardinalityType
<1>2. Count(f, "withdrawn") = Cardinality(DOMAIN f) <=> Every(f, {"withdrawn"})
  BY CountFacts DEF Every
<1>3. Count(f, "sold") + Count(f, "withdrawn") = Cardinality(DOMAIN f)
        <=> Every(f, {"sold", "withdrawn"})
  BY CountTwo DEF Every
<1>4. /\ Count(f, "sold") > 0 <=> Some(f, "sold")
      /\ Count(f, "reserved") > 0 <=> Some(f, "reserved")
      /\ Count(f, "available") > 0 <=> Some(f, "available")
  BY <1>1, CountFacts DEF Some
<1>5. Every(f, {"withdrawn"}) => ~Some(f, "sold") /\ ~Some(f, "available") /\ ~Some(f, "reserved")
  BY DEF Every, Some
<1>6. Every(f, {"sold", "withdrawn"}) => ~Some(f, "available") /\ ~Some(f, "reserved")
  BY DEF Every, Some
<1> QED
  BY <1>1, <1>2, <1>3, <1>4, <1>5, <1>6 DEF BundleStatusOf, DeclaredBundleStatus

\* The roll-up of a bundle is well-typed.
LEMMA RollupBundleType ==
  ASSUME NEW f, IsFiniteSet(DOMAIN f)
  PROVE  RollupBundle(f) \in BundleRollup
<1>1. Count(f, "sold") \in Nat /\ Cardinality(DOMAIN f) \in Nat
  BY CountFacts, FS_CardinalityType
<1>2. BundleStatusOf(f) \in BundleStatuses
  BY DEF BundleStatusOf, BundleStatuses
<1> QED
  BY <1>1, <1>2 DEF RollupBundle, BundleRollup

\* A sum over a finite domain is a number, and is positive exactly when a
\* summand is.
LEMMA SumFacts ==
  ASSUME NEW f, IsFiniteSet(DOMAIN f), \A x \in DOMAIN f : f[x] \in Nat
  PROVE  /\ SumOf(f) \in Nat
         /\ SumOf(f) > 0 <=> \E x \in DOMAIN f : f[x] > 0
<1> DEFINE Part(x) == {x} \X (1..f[x])
           Parts == {Part(x) : x \in DOMAIN f}
           g == [x \in DOMAIN f |-> Part(x)]
<1>1. g \in Surjection(DOMAIN f, Parts)
  BY DEF Surjection
<1>2. IsFiniteSet(Parts)
  BY <1>1, FS_Surjection
<1>3. \A P \in Parts : IsFiniteSet(P)
  <2> TAKE P \in Parts
  <2>1. PICK x \in DOMAIN f : P = Part(x)
    OBVIOUS
  <2>2. IsFiniteSet({x})
    BY FS_Singleton
  <2>3. 1 \in Int /\ f[x] \in Int
    OBVIOUS
  <2>4. IsFiniteSet(1..f[x])
    BY <2>3, FS_Interval
  <2> QED
    BY <2>1, <2>2, <2>4, FS_Product
<1>4. IsFiniteSet(UNION Parts)
  BY <1>2, <1>3, FS_UNION
<1>5. UNION Parts = {} <=> \A x \in DOMAIN f : f[x] = 0
  <2>1. ASSUME NEW x \in DOMAIN f, f[x] # 0
        PROVE  UNION Parts # {}
    <3>1. 1 \in 1..f[x]
      BY <2>1
    <3>2. <<x, 1>> \in Part(x)
      BY <3>1
    <3> QED
      BY <3>2
  <2>2. ASSUME \A x \in DOMAIN f : f[x] = 0
        PROVE  UNION Parts = {}
    BY <2>2
  <2> QED
    BY <2>1, <2>2
<1>6. SumOf(f) = Cardinality(UNION Parts)
  BY DEF SumOf
<1>7. SumOf(f) \in Nat /\ (SumOf(f) = 0 <=> UNION Parts = {})
  <2> HIDE DEF Parts
  <2> QED
    BY <1>4, <1>6, FS_CardinalityType, FS_EmptySet
<1>8. (\E x \in DOMAIN f : f[x] > 0) <=> ~(\A x \in DOMAIN f : f[x] = 0)
  OBVIOUS
<1> HIDE DEF Parts
<1> QED
  BY <1>5, <1>7, <1>8

\* The roll-up of a sale is well-typed.
LEMMA RollupSaleType ==
  ASSUME NEW c, IsFiniteSet(DOMAIN c),
         \A b \in DOMAIN c : c[b].sold \in Nat /\ c[b].total \in Nat
  PROVE  RollupSale(c) \in SaleRollup
<1>1. SoldItems(c) \in Nat /\ TotalItems(c) \in Nat
  BY SumFacts DEF SoldItems, TotalItems
<1>2. SaleStatusOf(c) \in RolledUpStatuses
  BY DEF SaleStatusOf, RolledUpStatuses
<1> QED
  BY <1>1, <1>2 DEF RollupSale, SaleRollup

\* Rolled up bundle by bundle, the status of the sale is the one its items
\* call for, when no bundle is empty.  (inventory_lifecycle.py 480-557)
THEOREM SaleStatusMeaning ==
  ASSUME NEW stock, IsFiniteSet(DOMAIN stock),
         \A b \in DOMAIN stock :
           /\ IsFiniteSet(DOMAIN stock[b]) /\ DOMAIN stock[b] # {}
           /\ \A x \in DOMAIN stock[b] : stock[b][x] \in ItemStatuses
  PROVE  SaleStatusOf([b \in DOMAIN stock |-> RollupBundle(stock[b])])
           = DeclaredSaleStatus(stock)
<1> DEFINE c == [b \in DOMAIN stock |-> RollupBundle(stock[b])]
           sold == \E b \in DOMAIN stock : Some(stock[b], "sold")
           done == \A b \in DOMAIN stock : Every(stock[b], {"sold", "withdrawn"})
           soldOut == {b \in DOMAIN c : c[b].status = "sold"}
           withdrawn == {b \in DOMAIN c : c[b].status = "withdrawn"}
<1>1. ASSUME NEW b \in DOMAIN stock
      PROVE  /\ c[b].status = DeclaredBundleStatus(stock[b])
             /\ c[b].sold \in Nat
             /\ c[b].sold > 0 <=> Some(stock[b], "sold")
  BY CountFacts, BundleStatusMeaning DEF RollupBundle, Some
<1>2. ASSUME NEW b \in DOMAIN stock
      PROVE  /\ c[b].status = "sold" <=> /\ Every(stock[b], {"sold", "withdrawn"})
                                         /\ Some(stock[b], "sold")
             /\ c[b].status = "withdrawn" <=> Every(stock[b], {"withdrawn"})
  <2>1. Every(stock[b], {"withdrawn"}) => ~Some(stock[b], "sold")
    BY DEF Every, Some
  <2>2. /\ Every(stock[b], {"sold", "withdrawn"})
           => ~Some(stock[b], "available") /\ ~Some(stock[b], "reserved")
        /\ Every(stock[b], {"withdrawn"})
           => ~Some(stock[b], "available") /\ ~Some(stock[b], "reserved")
    BY DEF Every, Some
  <2> QED
    BY <1>1, <2>1, <2>2 DEF DeclaredBundleStatus
<1>3. SoldItems(c) > 0 <=> sold
  <2> DEFINE counts == [b \in DOMAIN c |-> c[b].sold]
  <2>1. \A b \in DOMAIN counts : counts[b] \in Nat
    BY <1>1
  <2>2. SumOf(counts) > 0 <=> \E b \in DOMAIN counts : counts[b] > 0
    BY <2>1, SumFacts
  <2>3. SoldItems(c) = SumOf(counts)
    BY DEF SoldItems
  <2> QED
    BY <1>1, <2>2, <2>3
<1>4. soldOut # {} /\ soldOut \cup withdrawn = DOMAIN c <=> sold /\ done
  <2>1. ASSUME NEW b \in DOMAIN stock
        PROVE  Every(stock[b], {"sold", "withdrawn"}) <=>
                 \/ Every(stock[b], {"withdrawn"})
                 \/ /\ Every(stock[b], {"sold", "withdrawn"})
                    /\ Some(stock[b], "sold")
    BY DEF Every, Some
  <2>2. soldOut \cup withdrawn = DOMAIN c <=> done
    BY <1>2, <2>1
  <2>3. done => (soldOut # {} <=> sold)
    BY <1>2
  <2> QED
    BY <2>2, <2>3
<1>5. SaleStatusOf(c) = IF soldOut # {} /\ soldOut \cup withdrawn = DOMAIN c
                        THEN "sold"
                        ELSE IF SoldItems(c) > 0 THEN "partially_sold" ELSE "live"
  BY DEF SaleStatusOf
<1>6. DeclaredSaleStatus(stock) = CASE sold /\ done  -> "sold"
                                    [] sold /\ ~done -> "partially_sold"
                                    [] ~sold         -> "live"
  BY DEF DeclaredSaleStatus
<1> QED
  <2> HIDE DEF c, sold, done, soldOut, withdrawn
  <2> SaleStatusOf(c) = DeclaredSaleStatus(stock)
    BY <1>3, <1>4, <1>5, <1>6
  <2> QED
    BY DEF c

-----------------------------------------------------------------------------
(***************************************************************************)
(* Requests, one step at a time.                                           *)
(***************************************************************************)
USE ConstantsAssumption

\* n is a later state of the request r.
Continues(r, n) == /\ n \in Request
                   /\ n.op = r.op
                   /\ n.touches = r.touches
                   /\ n.contended = r.contended
                   /\ Shaped(n)

\* What every step of the request of h has in common.
Effect(h) ==
  LET r == req[h]
  IN /\ r \in Request /\ WellFormed(r)
     /\ req' \in [Handlers -> {Idle} \cup Request]
     /\ req'[h] = Idle \/ Continues(r, req'[h])
     /\ \A g \in Handlers : g # h => req'[g] = req[g]
     /\ \A b \in Bundles : b \notin r.touches
                             => docs'[b] = docs[b] /\ shelf'[b] = shelf[b]
     /\ SaleDoc \notin r.touches => sale' = sale /\ shelf' = shelf
     /\ dirty' \subseteq dirty \cup r.touches
     /\ dirty \ dirty' \subseteq r.touches \ r.contended
     /\ r.op \in Unrolled => dirty \subseteq dirty'

\* What every arriving request has in common: it writes nothing, and the
\* requests in flight change at most in what they know to be contended.
Arrives(h) ==
  /\ UNCHANGED <<sale, shelf, docs, ledger>>
  /\ dirty \subseteq dirty'
  /\ req[h] = Idle /\ req'[h] \in Request
  /\ req'[h].step \notin {"write", "record", "listForRollup", "rollBundle"}
                           \cup SaleSteps
  /\ \A g \in Handlers : (g # h /\ g \notin Busy) => req'[g] = req[g]
  /\ \A g \in Busy :
       /\ req'[g] \in Request
       /\ req'[g].op = req[g].op /\ req'[g].step = req[g].step
       /\ req'[g].bundle = req[g].bundle /\ req'[g].rest = req[g].rest
       /\ req'[g].view = req[g].view /\ req'[g].touches = req[g].touches
       /\ req[g].contended \subseteq req'[g].contended

Frame == /\ TypeOK
         /\ \A h \in Busy : WellFormed(req[h])
         /\ OverlapsKnown
-----------------------------------------------------------------------------
\* What the queries return is finite and typed.
LEMMA Queries ==
  ASSUME TypeOK
  PROVE  /\ \A b \in Bundles : RollupBundle(StatusesIn(b)) \in BundleRollup
         /\ RollupSale(ShelfView) \in SaleRollup
<1>1. ASSUME NEW b \in Bundles
      PROVE  RollupBundle(StatusesIn(b)) \in BundleRollup
  <2>1. ItemsIn(b) \in SUBSET Items
    BY DEF ItemsIn
  <2>2. IsFiniteSet(ItemsIn(b))
    BY <2>1, FS_Subset
  <2>3. DOMAIN StatusesIn(b) = ItemsIn(b)
    BY DEF StatusesIn
  <2> QED
    BY <2>2, <2>3, RollupBundleType
<1>2. RollupSale(ShelfView) \in SaleRollup
  <2>1. Shelved \in SUBSET Bundles
    BY DEF Shelved
  <2>2. IsFiniteSet(Shelved)
    BY <2>1, FS_Subset
  <2>3. DOMAIN ShelfView = Shelved
    BY DEF ShelfView
  <2>4. \A b \in Shelved : ShelfView[b].sold \in Nat /\ ShelfView[b].total \in Nat
    BY <2>1 DEF TypeOK, BundleDoc, ShelfView
  <2> QED
    BY <2>2, <2>3, <2>4, RollupSaleType
<1> QED
  BY <1>1, <1>2

\* A busy handler holds a request.
LEMMA BusyRequest ==
  ASSUME TypeOK, NEW h \in Busy
  PROVE  h \in Handlers /\ req[h] \in Request
BY DEF TypeOK, Busy

\* A request is not the idle record.
LEMMA RequestNotIdle == \A r \in Request : r # Idle
<1> SUFFICES ASSUME NEW r \in Request, r = Idle PROVE FALSE
  OBVIOUS
<1>1. r.step \in Steps
  BY DEF Request
<1>2. Idle.step = "idle"
  BY DEF Idle
<1> QED
  BY <1>1, <1>2 DEF Steps

\* The continuations of the loop over bundles are continuations.
LEMMA AdvanceContinues ==
  ASSUME NEW r \in Request, Shaped(r), r.op \in SaleOps,
         NEW rest \in SUBSET Bundles, NEW n \in Advance(r, rest)
  PROVE  Continues(r, n)
<1>1. CASE rest = {}
  <2>1. n = [r EXCEPT !.step = "record"]
    BY <1>1 DEF Advance
  <2>2. n \in Request
    BY <2>1 DEF Request, Steps
  <2>3. Shaped(n)
    BY <2>1 DEF Request, Shaped, LifecycleSteps, SaleSteps, BundleEditSteps,
                LifecycleOps
  <2> QED
    BY <2>1, <2>2, <2>3 DEF Continues, Request
<1>2. CASE rest # {}
  <2>1. PICK b \in rest : n = [r EXCEPT !.step = "listItems", !.bundle = b,
                                        !.rest = rest \ {b}]
    BY <1>2 DEF Advance
  <2>2. n \in Request
    BY <2>1 DEF Request, Steps
  <2>3. Shaped(n)
    BY <2>1 DEF Request, Shaped, LifecycleSteps, SaleSteps, BundleEditSteps,
                SaleOps, EditOps, LifecycleOps
  <2> QED
    BY <2>1, <2>2, <2>3 DEF Continues, Request
<1> QED
  BY <1>1, <1>2

\* ... and are about to list a bundle or to write the audit record.
LEMMA AdvanceStep ==
  ASSUME NEW r \in Request, NEW rest, NEW n \in Advance(r, rest)
  PROVE  n.step \in {"record", "listItems"}
BY DEF Advance, Request

\* After a bundle's roll-up a request goes on.
LEMMA RollupContinues ==
  ASSUME NEW r \in Request, Shaped(r), NEW n \in AfterRollup(r),
         r.step \in LifecycleSteps
  PROVE  Continues(r, n)
<1>1. CASE r.op \in SaleOps
  BY <1>1, AdvanceContinues DEF AfterRollup, Request
<1>2. CASE r.op \notin SaleOps
  <2>1. n = [r EXCEPT !.step = "listForSale"]
    BY <1>2 DEF AfterRollup
  <2> QED
    BY <2>1 DEF Continues, Request, Steps, Shaped, LifecycleSteps, SaleSteps,
                BundleEditSteps
<1> QED
  BY <1>1, <1>2
-----------------------------------------------------------------------------
\* A step that turns the request of h into n, writes what the request is
\* about, and leaves the marks alone.
LEMMA Moves ==
  ASSUME Frame, NEW h \in Busy, NEW n,
         req' = [req EXCEPT ![h] = n],
         n = Idle \/ Continues(req[h], n),
         \A b \in Bundles : b \notin req[h].touches
                            => docs'[b] = docs[b] /\ shelf'[b] = shelf[b],
         SaleDoc \notin req[h].touches => sale' = sale /\ shelf' = shelf,
         dirty' = dirty
  PROVE  Effect(h)
<1>1. h \in Handlers /\ req[h] \in Request /\ WellFormed(req[h])
  BY BusyRequest DEF Frame
<1>2. n \in {Idle} \cup Request
  BY DEF Continues
<1>3. req \in [Handlers -> {Idle} \cup Request]
  BY DEF Frame, TypeOK
<1> QED
  BY <1>1, <1>2, <1>3 DEF Effect

\* Steps that only read.
LEMMA ReadingSteps ==
  ASSUME Frame, NEW h \in Handlers,
         \/ ReadItem(h) \/ ListBundles(h) \/ ListItems(h) \/ ListForRollup(h)
         \/ ListForSale(h) \/ ReadSale(h) \/ ReadSource(h) \/ ListDoomed(h)
  PROVE  Effect(h) /\ UNCHANGED <<sale, shelf, docs, ledger, dirty>>
<1> DEFINE r == req[h]
<1>0. h \in Busy /\ r \in Request /\ WellFormed(r) /\ Shaped(r) /\ TypeOK
  <2>1. h \in Busy
    BY DEF Busy, At, ReadItem, ListBundles, ListItems, ListForRollup,
           ListForSale, ReadSale, ReadSource, ListDoomed
  <2> QED
    BY <2>1, BusyRequest DEF Frame, WellFormed
<1>1. UNCHANGED <<sale, shelf, docs, ledger, dirty>>
  BY DEF ReadItem, ListBundles, ListItems, ListForRollup,
         ListForSale, ReadSale, ReadSource, ListDoomed
<1> SUFFICES ASSUME TRUE
             PROVE  \E n : /\ req' = [req EXCEPT ![h] = n]
                           /\ n = Idle \/ Continues(r, n)
  BY <1>0, <1>1, Moves
<1>2. CASE End(h)
  BY <1>2 DEF End
<1>3. CASE ReadItem(h) /\ ~End(h)
  <2> DEFINE n == [r EXCEPT !.step = "write", !.hit = r.todo]
  <2>1. req' = [req EXCEPT ![h] = n] /\ r.step = "read"
    BY <1>0, <1>3 DEF ReadItem, At
  <2>2. Continues(r, n)
    BY <1>0, <2>1 DEF Continues, Request, Steps, Shaped, LifecycleSteps,
                      SaleSteps, BundleEditSteps
  <2> QED
    BY <2>1, <2>2
<1>4. CASE ListBundles(h)
  <2>1. r.op \in SaleOps
    BY <1>0, <1>4 DEF ListBundles, At, Shaped
  <2> QED
    BY <1>0, <1>4, <2>1, AdvanceContinues DEF ListBundles, Shelved
<1>5. CASE ListItems(h) /\ ~End(h)
  <2>0. r.step = "listItems" /\ Sellable(r.bundle) \in SUBSET Items
    BY <1>5 DEF ListItems, At, Sellable
  <2> DEFINE s == IF Sellable(r.bundle) = {} THEN AfterWrites(r.op) ELSE "write"
             hit == IF r.op \in BundleOps THEN Sellable(r.bundle) ELSE {}
             n == [r EXCEPT !.todo = Sellable(r.bundle), !.hit = hit, !.step = s]
  <2>2. req' = [req EXCEPT ![h] = n]
    BY <1>0, <1>5 DEF ListItems
  <2>3. s \in {"listForRollup", "record", "write"}
    BY DEF AfterWrites
  <2>4. Continues(r, n)
    <3>1. hit \in SUBSET Items
      BY <2>0
    <3> HIDE DEF s, hit
    <3> QED
      BY <1>0, <2>0, <2>3, <3>1 DEF Continues, Request, Steps, Shaped,
           LifecycleSteps, SaleSteps, BundleEditSteps
  <2> QED
    BY <2>2, <2>4
<1>6. CASE ListForRollup(h)
  <2>0. r.step = "listForRollup" /\ r.bundle \in Bundles
    BY <1>0, <1>6 DEF ListForRollup, At, Request
  <2>1. CASE ItemsIn(r.bundle) = {}
    <3>1. PICK n \in AfterRollup(r) : req' = [req EXCEPT ![h] = n]
      BY <1>6, <2>1 DEF ListForRollup
    <3>2. r.step \in LifecycleSteps
      BY <2>0 DEF LifecycleSteps
    <3>3. Continues(r, n)
      <4> HIDE DEF r
      <4> QED
        BY <1>0, <3>1, <3>2, RollupContinues
    <3> QED
      BY <3>1, <3>3
  <2>2. CASE ItemsIn(r.bundle) # {}
    <3> DEFINE v == RollupBundle(StatusesIn(r.bundle))
               n == [r EXCEPT !.view = v, !.step = "rollBundle"]
    <3>1. req' = [req EXCEPT ![h] = n]
      BY <1>0, <1>6, <2>2 DEF ListForRollup
    <3>2. v \in BundleRollup
      BY <1>0, <2>0, Queries
    <3>3. Continues(r, n)
      <4> HIDE DEF v
      <4> QED
        BY <1>0, <2>0, <3>2 DEF Continues, Request, Steps, Shaped,
             LifecycleSteps, SaleSteps, BundleEditSteps
    <3> QED
      BY <3>1, <3>3
  <2> QED
    BY <2>1, <2>2
<1>7. CASE ListForSale(h) /\ ~End(h)
  <2> DEFINE v == RollupSale(ShelfView)
             n == [r EXCEPT !.view = v, !.step = "readSale"]
  <2>1. req' = [req EXCEPT ![h] = n] /\ r.step = "listForSale"
    BY <1>0, <1>7 DEF ListForSale, At
  <2>2. v \in SaleRollup
    BY <1>0, Queries
  <2>3. Continues(r, n)
    <3> HIDE DEF v
    <3> QED
      BY <1>0, <2>1, <2>2 DEF Continues, Request, Steps, Shaped,
           LifecycleSteps, SaleSteps, BundleEditSteps
  <2> QED
    BY <2>1, <2>3
<1>8. CASE ReadSale(h) /\ ~End(h)
  <2>1. PICK s \in {"countSale", "moveSale"} : Goto(h, s)
    BY <1>8 DEF ReadSale
  <2>2. r.step = "readSale"
    BY <1>8 DEF ReadSale, At
  <2> DEFINE n == [r EXCEPT !.step = s]
  <2>3. req' = [req EXCEPT ![h] = n]
    BY <1>0, <2>1 DEF Goto
  <2>4. Continues(r, n)
    BY <1>0, <2>2 DEF Continues, Request, Steps, Shaped, LifecycleSteps,
                      SaleSteps, BundleEditSteps
  <2> QED
    BY <2>3, <2>4
<1>9. CASE ReadSource(h) /\ ~End(h)
  <2>1. PICK i \in r.todo :
          req' = [req EXCEPT ![h].view = docs[r.bundle][i],
                             ![h].step = "setTarget"]
    BY <1>9 DEF ReadSource
  <2> DEFINE d == docs[r.bundle][i]
             n == [r EXCEPT !.view = d, !.step = "setTarget"]
  <2>2. req' = [req EXCEPT ![h] = n] /\ r.step = "readSource"
    BY <1>0, <1>9, <2>1 DEF ReadSource, At
  <2>3. d \in ItemDoc
    BY <1>0 DEF TypeOK, Request
  <2>4. Continues(r, n)
    <3> HIDE DEF d
    <3> QED
      BY <1>0, <2>2, <2>3 DEF Continues, Request, Steps, Shaped,
           LifecycleSteps, SaleSteps, BundleEditSteps
  <2> QED
    BY <2>2, <2>4
<1>10. CASE ListDoomed(h)
  <2>0. r.step = "listDoomed" /\ ItemsIn(r.bundle) \in SUBSET Items
    BY <1>10 DEF ListDoomed, At, ItemsIn
  <2>1. PICK s \in {"deleteBundle", "deleteItems"} :
          req' = [req EXCEPT ![h].todo = ItemsIn(r.bundle), ![h].step = s]
    BY <1>10 DEF ListDoomed
  <2> DEFINE n == [r EXCEPT !.todo = ItemsIn(r.bundle), !.step = s]
  <2>2. req' = [req EXCEPT ![h] = n]
    BY <1>0, <2>1
  <2>3. Continues(r, n)
    BY <1>0, <2>0 DEF Continues, Request, Steps, Shaped, LifecycleSteps,
                      SaleSteps, BundleEditSteps
  <2> QED
    BY <2>2, <2>3
<1> QED
  BY <1>2, <1>3, <1>4, <1>5, <1>6, <1>7, <1>8, <1>9, <1>10

\* The two ways an item document is rewritten give an item document.
LEMMA GoneType == \A d \in ItemDoc : Gone(d) \in ItemDoc
BY DEF ItemDoc, Gone, Missing, Absent

\* The update of every operation yields an item document.
LEMMA UpdatedType ==
  ASSUME NEW op \in LifecycleOps, NEW d \in ItemDoc
  PROVE  Updated(op, d) \in ItemDoc
<1>1. op \in {"reserve_item", "release_reservation", "relist_item",
             "withdraw_item", "withdraw_bundle", "withdraw_sale",
             "mark_item_sold", "mark_bundle_sold", "mark_sale_sold"}
  BY DEF LifecycleOps, ItemOps, BundleOps, SaleOps
<1>2. Updated(op, d) \in
        {[d EXCEPT !.status = s] : s \in {"reserved", "available", "withdrawn"}}
        \cup {[status |-> "sold", soldAs |-> a] : a \in {"item", "bundle", "sale"}}
  BY <1>1 DEF Updated
<1> QED
  BY <1>2 DEF ItemDoc, ItemStatuses

\* Steps that write the document of an item: the bundle it is in is one the
\* request is about.
LEMMA ItemWritingSteps ==
  ASSUME Frame, NEW h \in Handlers,
         \/ WriteItem(h) \/ SetItem(h) \/ DeleteItem(h) \/ SetTarget(h)
         \/ DeleteSource(h) \/ DeleteItems(h)
  PROVE  /\ Effect(h) /\ UNCHANGED <<sale, shelf, ledger, dirty>>
         /\ docs' \in [Bundles -> [Items -> ItemDoc]]
<1> DEFINE r == req[h]
<1>0. h \in Busy /\ r \in Request /\ WellFormed(r) /\ Shaped(r) /\ TypeOK
  <2>1. h \in Busy
    BY DEF Busy, At, WriteItem, SetItem, DeleteItem, SetTarget, DeleteSource,
           DeleteItems
  <2> QED
    BY <2>1, BusyRequest DEF Frame, WellFormed
<1>1. UNCHANGED <<sale, shelf, ledger, dirty>>
  BY DEF WriteItem, SetItem, DeleteItem, SetTarget, DeleteSource, DeleteItems
<1> SUFFICES ASSUME TRUE
             PROVE  /\ \E n : /\ req' = [req EXCEPT ![h] = n]
                              /\ n = Idle \/ Continues(r, n)
                    /\ \E b \in Bundles \cap r.touches, i \in Items, d \in ItemDoc :
                         docs' = [docs EXCEPT ![b][i] = d]
  <2> HIDE DEF r
  <2>1. PICK n : /\ req' = [req EXCEPT ![h] = n]
                 /\ n = Idle \/ Continues(r, n)
    OBVIOUS
  <2>2. PICK b \in Bundles \cap r.touches, i \in Items, d \in ItemDoc :
          docs' = [docs EXCEPT ![b][i] = d]
    OBVIOUS
  <2>3. \A c \in Bundles : c \notin r.touches => docs'[c] = docs[c]
    BY <1>0, <2>2 DEF TypeOK
  <2>4. docs' \in [Bundles -> [Items -> ItemDoc]]
    BY <1>0, <2>2 DEF TypeOK
  <2>5. Effect(h)
    <3> USE DEF r
    <3> QED
      BY <1>0, <1>1, <2>1, <2>3, Moves
  <2> QED
    BY <1>1, <2>4, <2>5
<1>2. r.op \notin StatusOps
  BY <1>0 DEF Shaped, WriteItem, SetItem, DeleteItem, SetTarget, DeleteSource,
              DeleteItems, At
<1>3. r.bundle \in Bundles \cap r.touches
  BY <1>0, <1>2 DEF Shaped, Request
<1>4. r.todo \in SUBSET Items /\ r.rest \in SUBSET Bundles
  BY <1>0 DEF Request
<1>5. \A i \in Items : /\ docs[r.bundle][i] \in ItemDoc
                       /\ Gone(docs[r.bundle][i]) \in ItemDoc
  <2>1. \A i \in Items : docs[r.bundle][i] \in ItemDoc
    BY <1>0, <1>3 DEF TypeOK
  <2> QED
    BY <2>1, GoneType
<1>6. CASE WriteItem(h)
  <2>1. PICK i \in r.todo :
          /\ docs' = [docs EXCEPT ![r.bundle][i] = Updated(r.op, @)]
          /\ req' = [req EXCEPT
               ![h].todo = r.todo \ {i},
               ![h].step = IF r.todo = {i} THEN AfterWrites(r.op) ELSE "write"]
    BY <1>6 DEF WriteItem
  <2> DEFINE s == IF r.todo = {i} THEN AfterWrites(r.op) ELSE "write"
             n == [r EXCEPT !.todo = r.todo \ {i}, !.step = s]
  <2>2. req' = [req EXCEPT ![h] = n] /\ r.step = "write"
    BY <1>0, <1>6, <2>1 DEF WriteItem, At
  <2>3. s \in {"listForRollup", "record", "write"}
    BY DEF AfterWrites
  <2>4. Continues(r, n)
    <3> HIDE DEF s
    <3> QED
      BY <1>0, <2>2, <2>3 DEF Continues, Request, Steps, Shaped,
           LifecycleSteps, SaleSteps, BundleEditSteps
  <2>5. Updated(r.op, docs[r.bundle][i]) \in ItemDoc
    <3>1. r.op \in LifecycleOps
      BY <1>0, <2>2 DEF Shaped, LifecycleSteps
    <3> QED
      BY <1>4, <1>5, <3>1, UpdatedType
  <2>6. docs' = [docs EXCEPT ![r.bundle][i] = Updated(r.op, docs[r.bundle][i])]
    BY <1>0, <1>3, <1>4, <2>1 DEF TypeOK
  <2> QED
    <3> HIDE DEF n
    <3> QED
      BY <1>3, <1>4, <2>2, <2>4, <2>5, <2>6
<1>7. CASE SetItem(h)
  <2>1. NewItem \in ItemDoc
    BY DEF NewItem, ItemDoc, ItemStatuses
  <2> QED
    BY <1>3, <1>4, <1>7, <2>1 DEF SetItem, End
<1>8. CASE DeleteItem(h) \/ DeleteSource(h)
  <2>1. PICK i \in r.todo : docs' = [docs EXCEPT ![r.bundle][i] = Gone(@)]
    BY <1>8 DEF DeleteItem, DeleteSource
  <2>2. docs' = [docs EXCEPT ![r.bundle][i] = Gone(docs[r.bundle][i])]
    BY <1>0, <1>3, <1>4, <2>1 DEF TypeOK
  <2>3. End(h)
    BY <1>8 DEF DeleteItem, DeleteSource
  <2> QED
    BY <1>3, <1>4, <1>5, <2>2, <2>3 DEF End
<1>9. CASE SetTarget(h)
  <2>0. r.step = "setTarget"
    BY <1>9 DEF SetTarget, At
  <2>1. PICK i \in r.todo, to \in r.rest :
          docs' = [docs EXCEPT ![to][i] = r.view]
    BY <1>9 DEF SetTarget
  <2>2. r.op \in EditOps /\ to \in r.touches
    BY <1>0, <1>2, <2>0 DEF Shaped, LifecycleSteps, Request, Ops
  <2>3. r.view \in ItemDoc
    BY <1>0, <2>0 DEF Shaped
  <2> DEFINE n == [r EXCEPT !.step = "deleteSource"]
  <2>4. req' = [req EXCEPT ![h] = n]
    BY <1>0, <1>9 DEF SetTarget, Goto
  <2>5. Continues(r, n)
    BY <1>0, <2>0 DEF Continues, Request, Steps, Shaped, LifecycleSteps,
                      SaleSteps, BundleEditSteps
  <2> QED
    <3> HIDE DEF n
    <3> QED
      BY <1>4, <2>1, <2>2, <2>3, <2>4, <2>5
<1>10. CASE DeleteItems(h)
  <2>1. PICK i \in r.todo :
          /\ docs' = [docs EXCEPT ![r.bundle][i] = Gone(@)]
          /\ req' = [req EXCEPT
               ![h].todo = r.todo \ {i},
               ![h].step = IF r.todo = {i} THEN "deleteBundle" ELSE "deleteItems"]
    BY <1>10 DEF DeleteItems
  <2> DEFINE s == IF r.todo = {i} THEN "deleteBundle" ELSE "deleteItems"
             n == [r EXCEPT !.todo = r.todo \ {i}, !.step = s]
  <2>2. req' = [req EXCEPT ![h] = n] /\ r.step = "deleteItems"
    BY <1>0, <1>10, <2>1 DEF DeleteItems, At
  <2>3. s \in {"deleteBundle", "deleteItems"}
    OBVIOUS
  <2>4. Continues(r, n)
    <3> HIDE DEF s
    <3> QED
      BY <1>0, <2>2, <2>3 DEF Continues, Request, Steps, Shaped,
           LifecycleSteps, SaleSteps, BundleEditSteps
  <2>5. docs' = [docs EXCEPT ![r.bundle][i] = Gone(docs[r.bundle][i])]
    BY <1>0, <1>3, <1>4, <2>1 DEF TypeOK
  <2> QED
    <3> HIDE DEF n
    <3> QED
      BY <1>3, <1>4, <1>5, <2>2, <2>4, <2>5
<1> QED
  BY <1>6, <1>7, <1>8, <1>9, <1>10

\* A bundle's roll-up: it unmarks the bundle only if nobody disturbed it.
LEMMA RollBundleStep ==
  ASSUME Frame, NEW h \in Handlers, RollBundle(h)
  PROVE  /\ Effect(h) /\ UNCHANGED <<sale, docs, ledger>>
         /\ shelf' \in [Bundles -> BundleDoc]
<1> DEFINE r == req[h]
<1>0. h \in Busy /\ r \in Request /\ WellFormed(r) /\ Shaped(r) /\ TypeOK
  <2>1. h \in Busy
    BY DEF Busy, At, RollBundle
  <2> QED
    BY <2>1, BusyRequest DEF Frame, WellFormed
<1>1. r.step = "rollBundle"
  BY DEF RollBundle, At
<1>2. r.op \in LifecycleOps /\ r.step \in LifecycleSteps
  BY <1>0, <1>1 DEF Shaped, LifecycleSteps
<1>3. r.op \notin StatusOps /\ r.op \notin Unrolled
  BY <1>2 DEF LifecycleOps, ItemOps, BundleOps, SaleOps, StatusOps, Unrolled,
              EditOps
<1>4. r.bundle \in Bundles \cap r.touches /\ r.view \in BundleRollup
      /\ SaleDoc \in r.touches
  BY <1>0, <1>1, <1>2, <1>3 DEF Shaped, Request, Unrolled
<1>5. PICK n \in AfterRollup(r) : req' = [req EXCEPT ![h] = n]
  BY DEF RollBundle
<1>6. Continues(r, n)
  <2> HIDE DEF r
  <2> QED
    BY <1>0, <1>2, <1>5, RollupContinues
<1>7. shelf' = [shelf EXCEPT ![r.bundle] = r.view]
  BY DEF RollBundle
<1>8. dirty' = IF r.bundle \in r.contended THEN dirty ELSE dirty \ {r.bundle}
  BY DEF RollBundle
<1>9. UNCHANGED <<sale, docs, ledger>>
  BY DEF RollBundle
<1>10. shelf' \in [Bundles -> BundleDoc]
  BY <1>0, <1>4, <1>7 DEF TypeOK, BundleRollup, BundleDoc
<1>11. n \in {Idle} \cup Request /\ req \in [Handlers -> {Idle} \cup Request]
  BY <1>0, <1>6 DEF Continues, TypeOK
<1>12. \A b \in Bundles : b \notin r.touches => shelf'[b] = shelf[b]
  BY <1>0, <1>4, <1>7 DEF TypeOK
<1> QED
  BY <1>0, <1>3, <1>4, <1>5, <1>6, <1>8, <1>9, <1>10, <1>11, <1>12 DEF Effect

\* The edits that write a bundle document.
LEMMA BundleEditingSteps ==
  ASSUME Frame, NEW h \in Handlers, SetBundle(h) \/ DeleteBundle(h)
  PROVE  /\ Effect(h) /\ UNCHANGED <<sale, docs, ledger, dirty>>
         /\ shelf' \in [Bundles -> BundleDoc]
<1> DEFINE r == req[h]
<1>0. h \in Busy /\ r \in Request /\ Shaped(r) /\ TypeOK
  <2>1. h \in Busy
    BY DEF Busy, At, SetBundle, DeleteBundle
  <2> QED
    BY <2>1, BusyRequest DEF Frame, WellFormed
<1>1. r.step \in {"setBundle", "deleteBundle"}
  BY DEF SetBundle, DeleteBundle, At
<1>2. r.bundle \in Bundles \cap r.touches /\ SaleDoc \in r.touches
  BY <1>0, <1>1 DEF Shaped, Request, BundleEditSteps
<1>3. UNCHANGED <<sale, docs, ledger, dirty>> /\ req' = [req EXCEPT ![h] = Idle]
  BY DEF SetBundle, DeleteBundle, End
<1>4. PICK d \in BundleDoc : shelf' = [shelf EXCEPT ![r.bundle] = d]
  <2>1. FreshBundle \in BundleDoc
    BY DEF FreshBundle, BundleDoc, BundleStatuses
  <2>2. shelf[r.bundle] \in BundleDoc
    BY <1>0, <1>2 DEF TypeOK
  <2>3. Gone(shelf[r.bundle]) \in BundleDoc
    BY <2>2 DEF Gone, BundleDoc, Missing, Absent
  <2>4. shelf' = [shelf EXCEPT ![r.bundle] = FreshBundle]
        \/ shelf' = [shelf EXCEPT ![r.bundle] = Gone(shelf[r.bundle])]
    BY <1>0, <1>2 DEF SetBundle, DeleteBundle, TypeOK
  <2> QED
    BY <2>1, <2>3, <2>4
<1>5. shelf' \in [Bundles -> BundleDoc]
  BY <1>0, <1>2, <1>4 DEF TypeOK
<1>6. \A b \in Bundles : b \notin r.touches => shelf'[b] = shelf[b]
  BY <1>0, <1>2, <1>4 DEF TypeOK
<1> QED
  BY <1>0, <1>2, <1>3, <1>5, <1>6, Moves

\* Steps that write the sale document.
LEMMA SaleWritingSteps ==
  ASSUME Frame, NEW h \in Handlers, MoveSale(h) \/ CountSale(h) \/ SetStatus(h)
  PROVE  /\ Effect(h) /\ UNCHANGED <<shelf, docs, ledger>>
         /\ sale' \in SaleDocument
<1> DEFINE r == req[h]
<1>0. h \in Busy /\ r \in Request /\ WellFormed(r) /\ Shaped(r) /\ TypeOK
  <2>1. h \in Busy
    BY DEF Busy, At, MoveSale, CountSale, SetStatus
  <2> QED
    BY <2>1, BusyRequest DEF Frame, WellFormed
<1>1. r.op \notin EditOps /\ SaleDoc \in r.touches
  <2>1. r.step \in LifecycleSteps \/ r.step = "setStatus"
    BY DEF MoveSale, CountSale, SetStatus, At, LifecycleSteps
  <2>2. r.op \in LifecycleOps \/ r.op \in StatusOps
    BY <1>0, <2>1 DEF Shaped
  <2>3. r.op \notin EditOps
    BY <2>2 DEF LifecycleOps, ItemOps, BundleOps, SaleOps, StatusOps, EditOps
  <2> QED
    BY <1>0, <2>3 DEF Shaped
<1>2. UNCHANGED <<shelf, docs, ledger>>
  BY DEF MoveSale, CountSale, SetStatus
<1>3. CASE MoveSale(h)
  <2> DEFINE n == [r EXCEPT !.step = "countSale"]
  <2>1. r.step = "moveSale" /\ req' = [req EXCEPT ![h] = n]
    BY <1>0, <1>3 DEF MoveSale, At, Goto
  <2>2. Continues(r, n)
    BY <1>0, <2>1 DEF Continues, Request, Steps, Shaped, LifecycleSteps,
                      SaleSteps, BundleEditSteps
  <2>3. r.view \in SaleRollup
    BY <1>0, <2>1 DEF Shaped, SaleSteps
  <2>4. sale' \in SaleDocument
    BY <1>0, <1>3, <2>3 DEF MoveSale, TypeOK, SaleDocument, SaleRollup,
         RolledUpStatuses, SaleStatuses
  <2>5. dirty' = dirty
    BY <1>3 DEF MoveSale
  <2> HIDE DEF n
  <2> QED
    BY <1>0, <1>1, <1>2, <2>1, <2>2, <2>4, <2>5, Moves
<1>4. CASE CountSale(h)
  <2>1. r.step = "countSale" /\ req' = [req EXCEPT ![h] = Idle]
    BY <1>4 DEF CountSale, At, End
  <2>2. r.view \in SaleRollup /\ r.op \notin Unrolled
    BY <1>0, <2>1 DEF Shaped, SaleSteps, LifecycleSteps, LifecycleOps, ItemOps,
                      BundleOps, SaleOps, Unrolled, EditOps
  <2>3. sale' \in SaleDocument
    BY <1>0, <1>4, <2>2 DEF CountSale, TypeOK, SaleDocument, SaleRollup
  <2>4. dirty' = IF SaleDoc \in r.contended THEN dirty ELSE dirty \ {SaleDoc}
    BY <1>4 DEF CountSale
  <2>5. req \in [Handlers -> {Idle} \cup Request]
    BY <1>0 DEF TypeOK
  <2> QED
    BY <1>0, <1>1, <1>2, <2>1, <2>2, <2>3, <2>4, <2>5 DEF Effect
<1>5. CASE SetStatus(h)
  <2>1. r.step = "setStatus" /\ req' = [req EXCEPT ![h] = Idle]
    BY <1>5 DEF SetStatus, At, End
  <2>2. r.op \in StatusOps
    BY <1>0, <2>1 DEF Shaped
  <2>3. Becomes(r.op) \in SaleStatuses
    BY <2>2 DEF StatusOps, Becomes, SaleStatuses
  <2>4. sale' \in SaleDocument
    BY <1>0, <1>5, <2>3 DEF SetStatus, TypeOK, SaleDocument
  <2>5. dirty' = dirty
    BY <1>5 DEF SetStatus
  <2> QED
    BY <1>0, <1>1, <1>2, <2>1, <2>4, <2>5, Moves
<1> QED
  BY <1>3, <1>4, <1>5

\* Writing an audit record.
LEMMA RecordStep ==
  ASSUME Frame, NEW h \in Handlers, Record(h)
  PROVE  /\ Effect(h) /\ UNCHANGED <<sale, shelf, docs, dirty>>
         /\ ledger' \in [Items -> Nat]
<1> DEFINE r == req[h]
           s == IF r.op \in SaleOps THEN "listForSale" ELSE "listForRollup"
           n == [r EXCEPT !.step = s]
<1>0. h \in Busy /\ r \in Request /\ Shaped(r) /\ TypeOK
  <2>1. h \in Busy
    BY DEF Busy, At, Record
  <2> QED
    BY <2>1, BusyRequest DEF Frame, WellFormed
<1>1. r.step = "record" /\ req' = [req EXCEPT ![h] = n]
  BY <1>0 DEF Record, At, Goto
<1>2. s \in {"listForSale", "listForRollup"}
  OBVIOUS
<1>3. Continues(r, n)
  <2> HIDE DEF s
  <2> QED
    BY <1>0, <1>1, <1>2 DEF Continues, Request, Steps, Shaped, LifecycleSteps,
                            SaleSteps, BundleEditSteps
<1>4. UNCHANGED <<sale, shelf, docs, dirty>>
  BY DEF Record
<1>5. ledger' \in [Items -> Nat]
  BY <1>0 DEF Record, TypeOK
<1> HIDE DEF n
<1> QED
  BY <1>0, <1>1, <1>3, <1>4, <1>5, Moves

\* A request that stops half way marks everything it is about.
LEMMA AbortStep ==
  ASSUME Frame, NEW h \in Busy, Abort(h)
  PROVE  Effect(h) /\ UNCHANGED <<sale, shelf, docs, ledger>>
<1>1. h \in Handlers /\ req[h] \in Request /\ WellFormed(req[h])
  BY BusyRequest DEF Frame
<1>2. req \in [Handlers -> {Idle} \cup Request]
  BY DEF Frame, TypeOK
<1> QED
  BY <1>1, <1>2 DEF Abort, End, Effect

\* The summary: every step of a request, and its failure.
LEMMA ProceedEffect ==
  ASSUME Frame, NEW h \in Handlers, Proceed(h) \/ Fail(h)
  PROVE  /\ Effect(h) /\ h \in Busy
         /\ TypeOK'
<1>1. h \in Busy
  BY DEF Fail, Proceed, At, ReadItem, ListBundles, ListItems, WriteItem,
         WriteMissing, Record, ListForRollup, RollBundle, RollMissing,
         ListForSale, ReadSale, MoveSale, CountSale, SetStatus, SetBundle,
         SetItem, DeleteItem, ReadSource, SetTarget, DeleteSource,
         ListDoomed, DeleteItems, DeleteBundle, Busy
<1>2. /\ Effect(h)
      /\ sale' \in SaleDocument
      /\ shelf' \in [Bundles -> BundleDoc]
      /\ docs' \in [Bundles -> [Items -> ItemDoc]]
      /\ ledger' \in [Items -> Nat]
  <2>0. /\ sale \in SaleDocument
        /\ shelf \in [Bundles -> BundleDoc]
        /\ docs \in [Bundles -> [Items -> ItemDoc]]
        /\ ledger \in [Items -> Nat]
    BY DEF Frame, TypeOK
  <2>1. CASE \/ ReadItem(h) \/ ListBundles(h) \/ ListItems(h) \/ ListForRollup(h)
             \/ ListForSale(h) \/ ReadSale(h) \/ ReadSource(h) \/ ListDoomed(h)
    BY <2>0, <2>1, ReadingSteps
  <2>2. CASE \/ WriteItem(h) \/ SetItem(h) \/ DeleteItem(h) \/ SetTarget(h)
             \/ DeleteSource(h) \/ DeleteItems(h)
    BY <2>0, <2>2, ItemWritingSteps
  <2>3. CASE RollBundle(h)
    BY <2>0, <2>3, RollBundleStep
  <2>4. CASE SetBundle(h) \/ DeleteBundle(h)
    BY <2>0, <2>4, BundleEditingSteps
  <2>5. CASE MoveSale(h) \/ CountSale(h) \/ SetStatus(h)
    BY <2>0, <2>5, SaleWritingSteps
  <2>6. CASE Record(h)
    BY <2>0, <2>6, RecordStep
  <2>7. CASE WriteMissing(h) \/ RollMissing(h) \/ Fail(h)
    BY <1>1, <2>0, <2>7, AbortStep DEF WriteMissing, RollMissing, Fail
  <2> QED
    BY <2>1, <2>2, <2>3, <2>4, <2>5, <2>6, <2>7 DEF Proceed
<1>3. /\ req' \in [Handlers -> {Idle} \cup Request]
      /\ dirty' \subseteq Bundles \cup {SaleDoc}
  BY <1>2 DEF Effect, Request, Frame, TypeOK
<1> QED
  BY <1>1, <1>2, <1>3 DEF TypeOK
-----------------------------------------------------------------------------
FirstSteps == {"read", "listItems", "listBundles", "setStatus", "setBundle",
               "listDoomed", "setItem", "deleteItem", "readSource"}

\* Every arriving request is well formed, and the requests it overlaps with
\* know it.
LEMMA BeginStep ==
  ASSUME Frame, NEW h \in Handlers, NEW op \in Ops, NEW step \in FirstSteps,
         NEW b \in Bundles, NEW todo \in SUBSET Items, NEW rest \in SUBSET Bundles,
         NEW touches \in SUBSET (Bundles \cup {SaleDoc}),
         Begin(h, op, step, b, todo, rest, touches),
         \A r \in Request : (/\ r.op = op /\ r.step = step /\ r.bundle = b
                             /\ r.rest = rest /\ r.touches = touches) => Shaped(r)
  PROVE  Arrives(h) /\ Frame'
<1> DEFINE others == UNION {req[g].touches : g \in Busy}
           n == [op |-> op, step |-> step, bundle |-> b, todo |-> todo,
                 hit |-> {}, rest |-> rest, view |-> Nothing,
                 touches |-> touches, contended |-> touches \cap others]
           met(g) == [req[g] EXCEPT !.contended = @ \cup (touches \cap req[g].touches)]
<1>0. TypeOK /\ \A g \in Busy : /\ g \in Handlers /\ req[g] \in Request
                               /\ req[g] # Idle /\ WellFormed(req[g])
  BY BusyRequest, RequestNotIdle DEF Frame
<1>1. /\ req[h] = Idle /\ h \notin Busy
      /\ req' = [g \in Handlers |-> IF g = h THEN n
                                   ELSE IF g \in Busy THEN met(g) ELSE req[g]]
      /\ dirty' = dirty \cup (touches \cap others)
                        \cup (IF op \in Unrolled THEN touches ELSE {})
      /\ UNCHANGED <<sale, shelf, docs, ledger>>
  BY DEF Begin, Busy
<1>2. n \in Request
  BY DEF Request, FirstSteps, Steps
<1>3. ASSUME NEW g \in Busy
      PROVE  /\ met(g) \in Request
             /\ met(g).op = req[g].op /\ met(g).step = req[g].step
             /\ met(g).bundle = req[g].bundle /\ met(g).rest = req[g].rest
             /\ met(g).view = req[g].view /\ met(g).touches = req[g].touches
             /\ met(g).contended = req[g].contended \cup (touches \cap req[g].touches)
  BY <1>0 DEF Request
<1>4. \A g \in Busy : req[g].touches \subseteq others
  OBVIOUS
<1>5. Shaped(n) /\ n.op = op /\ n.touches = touches /\ n.step = step
      /\ n.contended = touches \cap others
  BY <1>2
<1>6. req' \in [Handlers -> {Idle} \cup Request]
      /\ dirty' \subseteq Bundles \cup {SaleDoc}
  <2>1. req \in [Handlers -> {Idle} \cup Request] /\ dirty \subseteq Bundles \cup {SaleDoc}
    BY <1>0 DEF TypeOK
  <2> HIDE DEF n, met, others
  <2> QED
    BY <1>1, <1>2, <1>3, <2>1
<1>7. TypeOK'
  BY <1>0, <1>1, <1>6 DEF TypeOK
<1>8. Busy' = Busy \cup {h}
  <2>1. n # Idle /\ \A g \in Busy : met(g) # Idle
    BY <1>2, <1>3, RequestNotIdle
  <2> HIDE DEF n, met
  <2> QED
    BY <1>0, <1>1, <2>1 DEF Busy
<1>9. req'[h] = n /\ \A g \in Busy : req'[g] = met(g)
  BY <1>0, <1>1
<1>10. Arrives(h)
  <2>1. step \notin {"write", "record", "listForRollup", "rollBundle"} \cup SaleSteps
    BY DEF FirstSteps, SaleSteps
  <2> HIDE DEF n, met, others
  <2> QED
    BY <1>1, <1>2, <1>3, <1>5, <1>9, <2>1 DEF Arrives, Busy
<1>11. ASSUME NEW g \in Busy' PROVE WellFormed(req[g])'
  <2>1. Shaped(req'[g])
    <3>1. \A k \in Busy : Shaped(met(k))
      <4> HIDE DEF met
      <4> QED
        BY <1>0, <1>3 DEF WellFormed, Shaped
    <3> HIDE DEF n, met
    <3> QED
      BY <1>5, <1>8, <1>9, <3>1
  <2>2. Marked(req[g])'
    <3>1. CASE g = h
      <4> HIDE DEF n, met, others
      <4> QED
        BY <1>1, <1>5, <1>9, <3>1 DEF Marked
    <3>2. CASE g \in Busy
      <4>1. Marked(req[g]) /\ req[g].touches \subseteq others
        BY <1>0, <1>4, <3>2 DEF WellFormed
      <4> HIDE DEF n, met, others
      <4> QED
        BY <1>1, <1>3, <1>9, <3>2, <4>1 DEF Marked
    <3> QED
      BY <1>8, <3>1, <3>2
  <2> QED
    BY <2>1, <2>2 DEF WellFormed
<1>12. OverlapsKnown'
  <2> SUFFICES ASSUME NEW g \in Busy', NEW k \in Busy', g # k
               PROVE  req'[g].touches \cap req'[k].touches \subseteq req'[g].contended
    BY DEF OverlapsKnown
  <2> HIDE DEF n, met, others
  <2>1. CASE g = h
    BY <1>3, <1>4, <1>5, <1>8, <1>9, <2>1
  <2>2. CASE g # h /\ k = h
    BY <1>3, <1>5, <1>8, <1>9, <2>2
  <2>3. CASE g # h /\ k # h
    BY <1>3, <1>8, <1>9, <2>3 DEF Frame, OverlapsKnown
  <2> QED
    BY <2>1, <2>2, <2>3
<1> QED
  BY <1>7, <1>10, <1>11, <1>12 DEF Frame

\* A request that arrives is well-formed, and is marked as contended with every
\* request in flight that is about one of its documents.
LEMMA BeginRequestStep ==
  ASSUME Frame, NEW h \in Handlers, BeginRequest(h)
  PROVE  Arrives(h) /\ Frame'
<1>0. NoneYet \in Bundles
  BY DEF NoneYet
<1> USE DEF Shaped, LifecycleOps, ItemOps, BundleOps, SaleOps, StatusOps,
            EditOps, LifecycleSteps, SaleSteps, BundleEditSteps, FirstSteps, Ops
<1>1. CASE BeginItemOp(h)
  <2>1. PICK op \in ItemOps, b \in Bundles, i \in Items :
          Begin(h, op, "read", b, {i}, {}, {b, SaleDoc})
    BY <1>1 DEF BeginItemOp
  <2> QED
    BY <2>1, BeginStep
<1>2. CASE BeginBundleOp(h)
  <2>1. PICK op \in BundleOps, b \in Bundles :
          Begin(h, op, "listItems", b, {}, {}, {b, SaleDoc})
    BY <1>2 DEF BeginBundleOp
  <2> QED
    BY <2>1, BeginStep
<1>3. CASE BeginSaleOp(h)
  <2>1. PICK op \in SaleOps :
          Begin(h, op, "listBundles", NoneYet, {}, {}, Bundles \cup {SaleDoc})
    BY <1>3 DEF BeginSaleOp
  <2> QED
    BY <1>0, <2>1, BeginStep
<1>4. CASE BeginStatusOp(h)
  <2>1. PICK op \in StatusOps :
          Begin(h, op, "setStatus", NoneYet, {}, {}, {SaleDoc})
    BY <1>4 DEF BeginStatusOp
  <2> QED
    BY <1>0, <2>1, BeginStep
<1>5. CASE BeginEdit(h)
  <2>1. PICK op \in EditOps, b \in Bundles, i \in Items :
          \/ op = "add_bundle" /\ Begin(h, op, "setBundle", b, {}, {}, {b, SaleDoc})
          \/ op = "remove_bundle" /\ Begin(h, op, "listDoomed", b, {}, {}, {b, SaleDoc})
          \/ op = "add_manual_item" /\ Begin(h, op, "setItem", b, {i}, {}, {b})
          \/ op = "remove_item" /\ Begin(h, op, "deleteItem", b, {i}, {}, {b})
          \/ op = "move_item" /\ \E to \in Bundles \ {b} :
                Begin(h, op, "readSource", b, {i}, {to}, {b, to})
    BY <1>5 DEF BeginEdit
  <2>2. CASE op = "add_bundle" /\ Begin(h, op, "setBundle", b, {}, {}, {b, SaleDoc})
    BY <2>2, BeginStep
  <2>3. CASE op = "remove_bundle" /\ Begin(h, op, "listDoomed", b, {}, {}, {b, SaleDoc})
    BY <2>3, BeginStep
  <2>4. CASE op = "add_manual_item" /\ Begin(h, op, "setItem", b, {i}, {}, {b})
    BY <2>4, BeginStep
  <2>5. CASE op = "remove_item" /\ Begin(h, op, "deleteItem", b, {i}, {}, {b})
    BY <2>5, BeginStep
  <2>6. CASE op = "move_item" /\ \E to \in Bundles \ {b} :
               Begin(h, op, "readSource", b, {i}, {to}, {b, to})
    BY <2>6, BeginStep
  <2> QED
    BY <2>1, <2>2, <2>3, <2>4, <2>5, <2>6
<1> QED
  BY <1>1, <1>2, <1>3, <1>4, <1>5 DEF BeginRequest

\* A step of a request keeps the bookkeeping: a document is unmarked only by
\* a request no other request in flight shares it with.
LEMMA EffectFrame ==
  ASSUME Frame, NEW h \in Busy, Effect(h), TypeOK'
  PROVE  Frame'
<1> DEFINE r == req[h]
<1>0. \A g \in Busy : g \in Handlers /\ req[g] \in Request /\ WellFormed(req[g])
  BY BusyRequest DEF Frame
<1>1. \A g \in Handlers : g # h => req'[g] = req[g]
  BY DEF Effect
<1>2. \A g \in Busy' : g \in Busy
  BY <1>1 DEF Busy
<1>3. h \in Busy' => Continues(r, req'[h])
  BY DEF Effect, Busy
<1>4. ASSUME NEW g \in Busy, g # h
      PROVE  Marked(req[g])'
  <2>1. req'[g] = req[g] /\ Marked(req[g])
    BY <1>0, <1>1, <1>4 DEF WellFormed
  <2>2. req[g].touches \cap r.touches \subseteq r.contended
    BY <1>4 DEF Frame, OverlapsKnown
  <2>3. \A d \in req[g].touches : d \in dirty => d \in dirty'
    BY <2>2 DEF Effect
  <2> QED
    BY <2>1, <2>3 DEF Marked
<1>5. ASSUME h \in Busy'
      PROVE  Marked(req[h])'
  <2>1. Marked(r) /\ Continues(r, req'[h])
    BY <1>0, <1>3, <1>5 DEF WellFormed
  <2>2. \A d \in r.contended : d \in dirty => d \in dirty'
    BY DEF Effect
  <2>3. r.op \in Unrolled => dirty \subseteq dirty'
    BY DEF Effect
  <2> QED
    BY <2>1, <2>2, <2>3 DEF Marked, Continues
<1>6. ASSUME NEW g \in Busy'
      PROVE  WellFormed(req[g])'
  <2>1. CASE g = h
    <3>1. Shaped(req'[h])
      BY <1>3, <1>6, <2>1 DEF Continues
    <3> QED
      BY <1>5, <1>6, <2>1, <3>1 DEF WellFormed
  <2>2. CASE g # h
    <3>1. Shaped(req'[g])
      BY <1>0, <1>1, <1>2, <1>6, <2>2 DEF WellFormed
    <3> QED
      BY <1>2, <1>4, <1>6, <2>2, <3>1 DEF WellFormed
  <2> QED
    BY <2>1, <2>2
<1>7. OverlapsKnown'
  <2>1. \A g \in Busy' : req'[g].touches = req[g].touches
                        /\ req'[g].contended = req[g].contended
    BY <1>0, <1>1, <1>2, <1>3 DEF Continues
  <2> QED
    BY <1>2, <2>1 DEF Frame, OverlapsKnown
<1> QED
  BY <1>6, <1>7 DEF Frame

\* At the start no request is in flight, so the frame holds.
LEMMA InitFrame == Init => Frame
<1> SUFFICES ASSUME Init PROVE Frame
  OBVIOUS
<1>1. Busy = {}
  BY DEF Init, Busy
<1>2. TypeOK
  BY DEF Init, TypeOK, SaleDocument, SaleStatuses, BundleDoc, FreshBundle,
         NoShelf, BundleStatuses, Missing, Absent, ItemDoc, NewItem, NoItem,
         ItemStatuses
<1> QED
  BY <1>1, <1>2 DEF Frame, OverlapsKnown

\* The frame (types, well-formed requests, known overlaps) is inductive.
LEMMA StepFrame == Frame /\ [Next]_vars => Frame'
<1> SUFFICES ASSUME Frame, [Next]_vars PROVE Frame'
  OBVIOUS
<1>1. CASE UNCHANGED vars
  BY <1>1 DEF vars, Frame, TypeOK, Busy, WellFormed, Marked, OverlapsKnown
<1>2. ASSUME NEW h \in Handlers, BeginRequest(h)
      PROVE  Frame'
  BY <1>2, BeginRequestStep
<1>3. ASSUME NEW h \in Handlers, Proceed(h) \/ Fail(h)
      PROVE  Frame'
  BY <1>3, ProceedEffect, EffectFrame
<1> QED
  BY <1>1, <1>2, <1>3 DEF Next

\* Every variable keeps its type, and a bundle's roll-up is only ever written
\* from a roll-up, a copy only from an item.
THEOREM TypeCorrect == Spec => []TypeOK
<1>1. Frame => TypeOK
  BY DEF Frame
<1> QED
  BY InitFrame, StepFrame, <1>1, PTL DEF Spec
-----------------------------------------------------------------------------
(***************************************************************************)
(* Bundles.                                                                *)
(***************************************************************************)
BundlesInv == /\ Frame
              /\ \A h \in Busy : RollsRight(req[h])
              /\ BundlesVouched

\* Whether a bundle's cache is right depends on the bundle's documents only.
LEMMA CachedRightSame ==
  ASSUME TypeOK, NEW b \in Bundles, docs'[b] = docs[b], shelf'[b] = shelf[b]
  PROVE  CachedRight(b)' <=> CachedRight(b)
<1>1. ItemsIn(b)' = ItemsIn(b) /\ StatusesIn(b)' = StatusesIn(b)
  BY DEF ItemsIn, StatusesIn
<1>2. (b \in Shelved)' <=> b \in Shelved
  BY DEF Shelved
<1> QED
  BY <1>1, <1>2 DEF CachedRight

\* A request that rolls a bundle up undisturbed still holds the right roll-up
\* after another request's step.
LEMMA OthersRollRight ==
  ASSUME BundlesInv, NEW h \in Busy, Effect(h), NEW g \in Busy, g # h
  PROVE  RollsRight(req[g])'
<1>1. req'[g] = req[g] /\ req[g] \in Request
  BY BusyRequest DEF Effect, BundlesInv, Frame, Busy
<1>2. RollsRight(req[g])
  BY DEF BundlesInv
<1> SUFFICES ASSUME req[g].step = "rollBundle", req[g].bundle \notin req[g].contended
             PROVE  req[g].view = RollupBundle(StatusesIn(req[g].bundle)')
  BY <1>1 DEF RollsRight
<1> DEFINE b == req[g].bundle
<1>3. b \in Bundles /\ b \in req[g].touches
  <2>1. Shaped(req[g])
    BY DEF BundlesInv, Frame, WellFormed
  <2>2. req[g].op \notin StatusOps
    BY <2>1 DEF Shaped
  <2> QED
    BY <1>1, <2>1, <2>2 DEF Shaped, Request
<1>4. b \notin req[h].touches
  BY <1>3 DEF BundlesInv, Frame, OverlapsKnown
<1>5. docs'[b] = docs[b]
  BY <1>3, <1>4 DEF Effect
<1>6. StatusesIn(b)' = StatusesIn(b)
  BY <1>1, <1>5 DEF StatusesIn, ItemsIn
<1> QED
  BY <1>2, <1>6 DEF RollsRight

\* What the step of h itself must do for the bundles its request is about:
\* leave them right, still owe them a roll-up, or mark them.
OwnBundles(h) ==
  /\ h \in Busy' => RollsRight(req[h])'
  /\ \A b \in Bundles \cap req[h].touches :
       \/ b \in dirty'
       \/ CachedRight(b)'
       \/ h \in Busy' /\ Owes(req'[h]) /\ req'[h].bundle = b

\* A wrong, unmarked bundle a request is about is owed by that request.
LEMMA DebtIsMine ==
  ASSUME BundlesInv, NEW h \in Busy, NEW b \in Bundles, b \in req[h].touches,
         b \notin dirty, ~CachedRight(b)
  PROVE  Owes(req[h]) /\ req[h].bundle = b
<1>1. PICK g \in Busy : Owes(req[g]) /\ req[g].bundle = b
  BY DEF BundlesInv, BundlesVouched
<1>2. WellFormed(req[g]) /\ WellFormed(req[h])
  BY DEF BundlesInv, Frame
<1>3. req[g].op \notin StatusOps
  BY <1>1, <1>2 DEF WellFormed, Shaped, Owes
<1>4. b \in req[g].touches
  BY <1>1, <1>2, <1>3 DEF WellFormed, Shaped
<1>5. g # h => b \in dirty
  BY <1>2, <1>4 DEF BundlesInv, Frame, OverlapsKnown, WellFormed, Marked
<1> QED
  BY <1>1, <1>5

\* Steps that write no item and no bundle, and in which the request stays as
\* much in debt as it was.
LEMMA QuietSteps ==
  ASSUME BundlesInv, NEW h \in Busy, Effect(h), UNCHANGED <<shelf, docs>>,
         dirty \subseteq dirty' \cup {SaleDoc},
         h \in Busy' => req'[h].step # "rollBundle",
         Owes(req[h]) => \/ CachedRight(req[h].bundle)
                         \/ /\ h \in Busy' /\ Owes(req'[h])
                            /\ req'[h].bundle = req[h].bundle
  PROVE  OwnBundles(h)
<1>1. h \in Busy' => RollsRight(req[h])'
  BY DEF RollsRight
<1>2. ASSUME NEW b \in Bundles, b \in req[h].touches, b \notin dirty'
      PROVE  \/ CachedRight(b)'
             \/ h \in Busy' /\ Owes(req'[h]) /\ req'[h].bundle = b
  <2>1. CachedRight(b)' <=> CachedRight(b)
    BY CachedRightSame DEF BundlesInv, Frame
  <2>2. b \notin dirty
    BY <1>2 DEF Effect
  <2>3. ~CachedRight(b) => Owes(req[h]) /\ req[h].bundle = b
    BY <1>2, <2>2, DebtIsMine
  <2> QED
    BY <2>1, <2>3
<1> QED
  BY <1>1, <1>2 DEF OwnBundles

\* Each step of a request, and its failure, leaves its own bundles right or owed.
LEMMA OwnBundleSteps ==
  ASSUME BundlesInv, NEW h \in Handlers, Proceed(h) \/ Fail(h)
  PROVE  OwnBundles(h)
<1> DEFINE r == req[h]
<1>0. /\ Frame /\ h \in Busy /\ r \in Request /\ r # Idle
      /\ WellFormed(r) /\ Shaped(r) /\ Effect(h) /\ TypeOK
  <2>1. Frame
    BY DEF BundlesInv
  <2>2. h \in Busy /\ Effect(h)
    BY <2>1, ProceedEffect
  <2> QED
    BY <2>1, <2>2, BusyRequest DEF Frame, WellFormed, Busy
<1>1. \A g \in {h} : g \in Busy' <=> req'[g] # Idle
  BY <1>0 DEF Busy
<1>2. CASE \/ ReadItem(h) \/ ListBundles(h) \/ ListForSale(h) \/ ReadSale(h)
           \/ MoveSale(h) \/ CountSale(h) \/ SetStatus(h) \/ ReadSource(h)
           \/ ListDoomed(h)
  <2>1. /\ UNCHANGED <<shelf, docs>>
        /\ dirty \subseteq dirty' \cup {SaleDoc}
        /\ ~Owes(r)
    BY <1>2 DEF ReadItem, ListBundles, ListForSale, ReadSale, MoveSale,
         CountSale, SetStatus, ReadSource, ListDoomed, At, Owes
  <2>2. h \in Busy' => req'[h].step # "rollBundle"
    <3>1. CASE ListBundles(h)
      <4>1. PICK n \in Advance(r, Shelved) : req'[h] = n
        BY <1>0, <3>1 DEF ListBundles, TypeOK
      <4> QED
        BY <1>0, <4>1, AdvanceStep
    <3>2. CASE ~ListBundles(h)
      <4>1. req'[h] = Idle \/ req'[h].step \in
              {"write", "readSale", "countSale", "moveSale", "setTarget",
               "deleteBundle", "deleteItems"}
        <5> USE <1>0 DEF End, Goto, TypeOK, Request
        <5>1. CASE ReadItem(h)
          BY <5>1 DEF ReadItem
        <5>2. CASE ListForSale(h)
          BY <5>2 DEF ListForSale
        <5>3. CASE ReadSale(h)
          BY <5>3 DEF ReadSale
        <5>4. CASE MoveSale(h) \/ CountSale(h) \/ SetStatus(h)
          BY <5>4 DEF MoveSale, CountSale, SetStatus
        <5>5. CASE ReadSource(h)
          BY <5>5 DEF ReadSource
        <5>6. CASE ListDoomed(h)
          BY <5>6 DEF ListDoomed
        <5> QED
          BY <1>2, <3>2, <5>1, <5>2, <5>3, <5>4, <5>5, <5>6
      <4> QED
        BY <1>1, <4>1
    <3> QED
      BY <3>1, <3>2
  <2> QED
    BY <1>0, <2>1, <2>2, QuietSteps
<1>3. CASE ListItems(h) \/ Record(h)
  <2>1. UNCHANGED <<shelf, docs, dirty>>
    BY <1>3 DEF ListItems, Record
  <2>2. req'[h] = Idle \/ req'[h].step \in {"write", "record", "listForRollup", "listForSale"}
    BY <1>0, <1>3 DEF ListItems, Record, End, Goto, AfterWrites, TypeOK, Request
  <2>3. ASSUME Owes(r)
        PROVE  req'[h] # Idle /\ Owes(req'[h]) /\ req'[h].bundle = r.bundle
    <3>1. r.step = "record" /\ r.op \notin SaleOps /\ Record(h)
      BY <1>3, <2>3 DEF ListItems, Record, At, Owes
    <3>2. req'[h] = [r EXCEPT !.step = "listForRollup"]
      BY <1>0, <3>1 DEF Record, Goto, TypeOK
    <3>3. Continues(r, req'[h]) \/ req'[h] = Idle
      BY <1>0 DEF Effect
    <3>4. req'[h].step = "listForRollup" /\ req'[h].bundle = r.bundle
      BY <1>0, <3>2 DEF Request
    <3>5. req'[h] # Idle
      BY <3>4 DEF Idle
    <3> QED
      BY <3>4, <3>5 DEF Owes
  <2> QED
    BY <1>0, <1>1, <2>1, <2>2, <2>3, QuietSteps
<1>4. CASE ListForRollup(h)
  <2>0. r.step = "listForRollup" /\ UNCHANGED <<shelf, docs, dirty>>
    BY <1>4 DEF ListForRollup, At
  <2>1. CASE ItemsIn(r.bundle) = {}
    <3>1. PICK n \in AfterRollup(r) : req'[h] = n
      BY <1>0, <1>4, <2>1 DEF ListForRollup, TypeOK
    <3>2. n.step # "rollBundle"
      BY <1>0, <3>1, AdvanceStep DEF AfterRollup, Request
    <3>3. CachedRight(r.bundle)
      BY <2>1 DEF CachedRight
    <3> QED
      BY <1>0, <2>0, <3>1, <3>2, <3>3, QuietSteps
  <2>2. CASE ItemsIn(r.bundle) # {}
    <3>1. req'[h] = [r EXCEPT !.view = RollupBundle(StatusesIn(r.bundle)),
                             !.step = "rollBundle"]
      BY <1>0, <1>4, <2>2 DEF ListForRollup, TypeOK
    <3>2. /\ req'[h].step = "rollBundle" /\ req'[h].bundle = r.bundle
          /\ req'[h].view = RollupBundle(StatusesIn(r.bundle))
      BY <1>0, <3>1 DEF Request
    <3>3. RollsRight(req[h])'
      BY <2>0, <3>2 DEF RollsRight, StatusesIn, ItemsIn
    <3>4. Owes(req'[h]) /\ req'[h] # Idle
      BY <3>2 DEF Owes, Idle
    <3>5. ASSUME NEW b \in Bundles, b \in r.touches
          PROVE  b \in dirty' \/ CachedRight(b)' \/ req'[h].bundle = b
      <4>1. CachedRight(b)' <=> CachedRight(b)
        BY <1>0, <2>0, CachedRightSame
      <4>2. b \notin dirty /\ ~CachedRight(b) => r.bundle = b
        BY <1>0, <3>5, DebtIsMine
      <4> QED
        BY <2>0, <3>2, <4>1, <4>2
    <3> QED
      BY <1>1, <3>3, <3>4, <3>5 DEF OwnBundles
  <2> QED
    BY <2>1, <2>2
<1>5. CASE WriteItem(h)
  <2>0. /\ r.step = "write" /\ UNCHANGED <<shelf, dirty>>
        /\ r.op \notin StatusOps /\ r.bundle \in Bundles
    BY <1>0, <1>5 DEF WriteItem, At, Shaped, Request
  <2>1. PICK i \in r.todo :
          /\ docs' = [docs EXCEPT ![r.bundle][i] = Updated(r.op, @)]
          /\ req' = [req EXCEPT
               ![h].todo = r.todo \ {i},
               ![h].step = IF r.todo = {i} THEN AfterWrites(r.op) ELSE "write"]
    BY <1>5 DEF WriteItem
  <2>2. /\ req'[h].op = r.op /\ req'[h].bundle = r.bundle
        /\ req'[h].step = IF r.todo = {i} THEN AfterWrites(r.op) ELSE "write"
    BY <1>0, <2>1 DEF TypeOK, Request
  <2>3. /\ req'[h] # Idle /\ Owes(req'[h])
        /\ req'[h].step # "rollBundle"
    BY <2>2 DEF Idle, Owes, AfterWrites
  <2>4. ASSUME NEW b \in Bundles, b \in r.touches
        PROVE  b \in dirty' \/ CachedRight(b)' \/ req'[h].bundle = b
    <3>1. b # r.bundle => docs'[b] = docs[b]
      BY <1>0, <2>0, <2>1 DEF TypeOK
    <3>2. b # r.bundle => (CachedRight(b)' <=> CachedRight(b))
      BY <1>0, <2>0, <3>1, CachedRightSame
    <3>3. b \notin dirty /\ ~CachedRight(b) => r.bundle = b
      BY <1>0, <2>4, DebtIsMine
    <3> QED
      BY <2>0, <2>2, <3>2, <3>3
  <2> QED
    BY <1>1, <2>3, <2>4 DEF OwnBundles, RollsRight
<1>6. CASE RollBundle(h)
  <2>0. /\ r.step = "rollBundle" /\ UNCHANGED docs /\ r.bundle \in Shelved
        /\ shelf' = [shelf EXCEPT ![r.bundle] = r.view]
        /\ dirty' = IF r.bundle \in r.contended THEN dirty ELSE dirty \ {r.bundle}
    BY <1>6 DEF RollBundle, At
  <2>1. r.op \notin StatusOps /\ r.bundle \in Bundles
    BY <1>0, <2>0 DEF Shaped, Request
  <2>2. req'[h].step # "rollBundle"
    <3>1. PICK n \in AfterRollup(r) : req'[h] = n
      BY <1>0, <1>6 DEF RollBundle, TypeOK
    <3> QED
      BY <1>0, <3>1, AdvanceStep DEF AfterRollup, Request
  <2>3. ASSUME NEW b \in Bundles, b = r.bundle
        PROVE  b \in dirty' \/ CachedRight(b)'
    <3>1. CASE b \in r.contended
      BY <1>0, <2>0, <2>3, <3>1 DEF WellFormed, Marked
    <3>2. CASE b \notin r.contended
      <4>1. r.view = RollupBundle(StatusesIn(b))
        BY <1>0, <2>0, <2>3, <3>2 DEF BundlesInv, RollsRight
      <4>2. shelf'[b] = RollupBundle(StatusesIn(b))
        BY <1>0, <2>0, <2>3, <4>1 DEF TypeOK
      <4>3. /\ shelf'[b].status = BundleStatusOf(StatusesIn(b))
            /\ shelf'[b].sold = Count(StatusesIn(b), "sold")
        BY <4>2 DEF RollupBundle
      <4> QED
        BY <2>0, <4>3 DEF CachedRight, StatusesIn, ItemsIn
    <3> QED
      BY <3>1, <3>2
  <2>4. ASSUME NEW b \in Bundles, b \in r.touches, b # r.bundle
        PROVE  b \in dirty' \/ CachedRight(b)'
    <3>1. shelf'[b] = shelf[b] /\ docs'[b] = docs[b]
      BY <1>0, <2>0, <2>1, <2>4 DEF TypeOK
    <3>2. CachedRight(b)' <=> CachedRight(b)
      BY <1>0, <3>1, CachedRightSame
    <3>3. b \notin dirty /\ ~CachedRight(b) => r.bundle = b
      BY <1>0, <2>4, DebtIsMine
    <3> QED
      BY <2>0, <2>4, <3>2, <3>3
  <2> QED
    BY <2>2, <2>3, <2>4 DEF OwnBundles, RollsRight
<1>7. CASE WriteMissing(h) \/ RollMissing(h) \/ Fail(h)
  <2>1. req'[h] = Idle /\ dirty' = dirty \cup r.touches
    BY <1>0, <1>7 DEF WriteMissing, RollMissing, Fail, Abort, End, TypeOK, Busy
  <2> QED
    BY <1>1, <2>1 DEF OwnBundles
<1>8. CASE \/ SetBundle(h) \/ SetItem(h) \/ DeleteItem(h) \/ SetTarget(h)
           \/ DeleteSource(h) \/ DeleteItems(h) \/ DeleteBundle(h)
  <2>1. /\ dirty' = dirty /\ r.step \notin LifecycleSteps
        /\ r.step # "setStatus"
    BY <1>8 DEF SetBundle, SetItem, DeleteItem, SetTarget, DeleteSource,
         DeleteItems, DeleteBundle, At, LifecycleSteps
  <2>2. r.op \in EditOps
    BY <1>0, <2>1 DEF Shaped, Request, Ops
  <2>3. r.touches \subseteq dirty'
    BY <1>0, <2>1, <2>2 DEF WellFormed, Marked, Unrolled
  <2>4. req'[h] = Idle \/ Continues(r, req'[h])
    BY <1>0 DEF Effect
  <2>5. h \in Busy' => req'[h].step # "rollBundle"
    <3>1. r.op \notin LifecycleOps
      BY <2>2 DEF LifecycleOps, ItemOps, BundleOps, SaleOps, EditOps
    <3> QED
      BY <1>1, <2>4, <3>1 DEF Continues, Shaped, LifecycleSteps
  <2> QED
    BY <2>3, <2>5 DEF OwnBundles, RollsRight
<1> QED
  BY <1>2, <1>3, <1>4, <1>5, <1>6, <1>7, <1>8 DEF Proceed

\* The invariant about bundles is inductive: a step settles the bundles its
\* request is about and leaves those of the others alone.
LEMMA BundlesStep == BundlesInv /\ [Next]_vars => BundlesInv'
<1> SUFFICES ASSUME BundlesInv, [Next]_vars PROVE BundlesInv'
  OBVIOUS
<1>0. Frame /\ TypeOK /\ Frame'
  BY StepFrame DEF BundlesInv, Frame
<1>1. CASE UNCHANGED vars
  BY <1>0, <1>1 DEF vars, BundlesInv, Busy, RollsRight, StatusesIn, ItemsIn,
                    BundlesVouched, CachedRight, Shelved
<1>2. ASSUME NEW h \in Handlers, BeginRequest(h)
      PROVE  BundlesInv'
  <2>1. Arrives(h)
    BY <1>0, <1>2, BeginRequestStep
  <2>2. \A g \in Busy' : g # h => g \in Busy
    BY <2>1 DEF Arrives, Busy
  <2>3. \A g \in Busy : g \in Busy' /\ g # h /\ g \in Handlers
    BY <2>1, RequestNotIdle DEF Arrives, Busy
  <2>4. ASSUME NEW g \in Busy'
        PROVE  RollsRight(req[g])'
    <3>1. CASE g = h
      BY <2>1, <3>1 DEF Arrives, RollsRight
    <3>2. CASE g # h
      <4>1. g \in Busy /\ RollsRight(req[g])
        BY <2>2, <2>4, <3>2 DEF BundlesInv
      <4>2. /\ req'[g].step = req[g].step /\ req'[g].bundle = req[g].bundle
            /\ req'[g].view = req[g].view /\ docs' = docs
            /\ req[g].contended \subseteq req'[g].contended
        BY <2>1, <4>1 DEF Arrives
      <4> QED
        BY <4>1, <4>2 DEF RollsRight, StatusesIn, ItemsIn
    <3> QED
      BY <3>1, <3>2
  <2>5. ASSUME NEW b \in Bundles, b \notin dirty', ~CachedRight(b)'
        PROVE  \E g \in Busy' : Owes(req'[g]) /\ req'[g].bundle = b
    <3>1. ~CachedRight(b) /\ b \notin dirty
      BY <1>0, <2>1, <2>5, CachedRightSame DEF Arrives
    <3>2. PICK g \in Busy : Owes(req[g]) /\ req[g].bundle = b
      BY <3>1 DEF BundlesInv, BundlesVouched
    <3>3. /\ req'[g].step = req[g].step /\ req'[g].bundle = req[g].bundle
          /\ req'[g].op = req[g].op
      BY <2>1 DEF Arrives
    <3> QED
      BY <2>3, <3>2, <3>3 DEF Owes
  <2> QED
    BY <1>0, <2>4, <2>5 DEF BundlesInv, BundlesVouched
<1>3. ASSUME NEW h \in Handlers, Proceed(h) \/ Fail(h)
      PROVE  BundlesInv'
  <2>1. Effect(h) /\ h \in Busy /\ OwnBundles(h)
    BY <1>0, <1>3, ProceedEffect, OwnBundleSteps
  <2>2. \A g \in Handlers : g # h => (g \in Busy' <=> g \in Busy) /\ req'[g] = req[g]
    BY <2>1 DEF Effect, Busy
  <2>3. ASSUME NEW g \in Busy'
        PROVE  RollsRight(req[g])'
    <3>1. CASE g = h
      BY <2>1, <2>3, <3>1 DEF OwnBundles
    <3>2. CASE g # h
      <4>1. g \in Busy
        BY <2>2, <2>3, <3>2 DEF Busy
      <4> QED
        BY <2>1, <3>2, <4>1, OthersRollRight
    <3> QED
      BY <3>1, <3>2
  <2>4. ASSUME NEW b \in Bundles, b \notin dirty', ~CachedRight(b)'
        PROVE  \E g \in Busy' : Owes(req'[g]) /\ req'[g].bundle = b
    <3>1. CASE b \in req[h].touches
      BY <2>1, <2>4, <3>1 DEF OwnBundles
    <3>2. CASE b \notin req[h].touches
      <4>1. docs'[b] = docs[b] /\ shelf'[b] = shelf[b] /\ b \notin dirty
        BY <2>1, <2>4, <3>2 DEF Effect
      <4>2. ~CachedRight(b)
        BY <1>0, <2>4, <4>1, CachedRightSame
      <4>3. PICK g \in Busy : Owes(req[g]) /\ req[g].bundle = b
        BY <4>1, <4>2 DEF BundlesInv, BundlesVouched
      <4>4. WellFormed(req[g]) /\ req[g].op \notin StatusOps
        BY <4>3 DEF BundlesInv, Frame, WellFormed, Shaped, Owes
      <4>5. g # h
        BY <3>2, <4>3, <4>4 DEF WellFormed, Shaped
      <4> QED
        BY <2>2, <4>3, <4>5 DEF Busy
    <3> QED
      BY <3>1, <3>2
  <2> QED
    BY <1>0, <2>3, <2>4 DEF BundlesInv, BundlesVouched
<1> QED
  BY <1>1, <1>2, <1>3 DEF Next

\* At the start every bundle without a roll-up has nothing sold.
LEMMA InitBundles == Init => BundlesInv
<1> SUFFICES ASSUME Init PROVE BundlesInv
  OBVIOUS
<1>1. Frame /\ Busy = {}
  BY InitFrame DEF Init, Busy
<1>2. ASSUME NEW b \in Bundles
      PROVE  CachedRight(b)
  <2> SUFFICES ASSUME b \in Shelved
               PROVE  /\ shelf[b].status = BundleStatusOf(StatusesIn(b))
                      /\ shelf[b].sold = Count(StatusesIn(b), "sold")
    BY DEF CachedRight
  <2> DEFINE f == StatusesIn(b)
  <2>1. PICK i \in Items : Home[i] = b
    BY DEF Init, Shelved, NoShelf, Missing
  <2>2. /\ DOMAIN f \in SUBSET Items /\ DOMAIN f # {}
        /\ \A x \in DOMAIN f : f[x] = "available"
    BY <2>1 DEF Init, StatusesIn, ItemsIn, NewItem, NoItem, Missing, Absent
  <2>3. IsFiniteSet(DOMAIN f)
    BY <2>2, FS_Subset
  <2> HIDE DEF f
  <2>4. /\ Count(f, "sold") = 0 /\ Count(f, "withdrawn") = 0
        /\ Count(f, "reserved") = 0
        /\ Cardinality(DOMAIN f) \in Nat /\ Cardinality(DOMAIN f) # 0
    BY <2>2, <2>3, CountFacts, FS_CardinalityType, FS_EmptySet
  <2>5. BundleStatusOf(f) = "available"
    BY <2>4 DEF BundleStatusOf
  <2>6. shelf[b] = FreshBundle
    BY <2>1 DEF Init
  <2> QED
    BY <2>4, <2>5, <2>6 DEF f, FreshBundle
<1> QED
  BY <1>1, <1>2 DEF BundlesInv, BundlesVouched

\* The invariant about bundles holds in every reachable state.
LEMMA BundlesInvariant == Spec => []BundlesInv
BY InitBundles, BundlesStep, PTL DEF Spec

\* Between requests, the cached status and sold count of a bundle are those of
\* its items, however many requests overlapped on other documents.
THEOREM BundlesRollUp == Spec => []BundleSynced
<1>1. BundlesInv => BundleSynced
  <2> SUFFICES ASSUME BundlesInv, NEW b \in Bundles \ dirty,
                      \A h \in Busy : b \notin req[h].touches
               PROVE  CachedRight(b)
    BY DEF BundleSynced
  <2>1. ASSUME NEW h \in Busy, Owes(req[h]), req[h].bundle = b
        PROVE  FALSE
    <3>1. WellFormed(req[h]) /\ req[h].op \notin StatusOps
      BY <2>1 DEF BundlesInv, Frame, WellFormed, Shaped, Owes
    <3> QED
      BY <2>1, <3>1 DEF WellFormed, Shaped
  <2> QED
    BY <2>1 DEF BundlesInv, BundlesVouched
<1> QED
  BY <1>1, BundlesInvariant, PTL
-----------------------------------------------------------------------------
(***************************************************************************)
(* The sale.                                                               *)
(***************************************************************************)
SalesInv == /\ Frame
            /\ \A h \in Busy : SaleRollsRight(req[h])
            /\ SaleVouched

\* What the step of h itself must do for the sale.
OwnSale(h) ==
  /\ h \in Busy' => SaleRollsRight(req[h])'
  /\ SaleDoc \in req[h].touches =>
       \/ SaleDoc \in dirty'
       \/ SaleRight'
       \/ h \in Busy' /\ OwesSale(req'[h])

\* Whether the sale's status is right depends on it and on the bundles.
LEMMA SaleRightSame ==
  ASSUME sale' = sale, shelf' = shelf
  PROVE  (SaleRight' <=> SaleRight) /\ (ShelfView' = ShelfView)
BY DEF SaleRight, ShelfView, Shelved

\* A request in debt to the sale is about the sale.
LEMMA SaleDebtor ==
  ASSUME Frame, NEW g \in Busy, OwesSale(req[g])
  PROVE  SaleDoc \in req[g].touches
<1>1. WellFormed(req[g]) /\ req[g].op \in LifecycleOps
  BY DEF Frame, OwesSale
<1>2. req[g].op \notin EditOps
  BY <1>1 DEF LifecycleOps, ItemOps, BundleOps, SaleOps, EditOps
<1> QED
  BY <1>1, <1>2 DEF WellFormed, Shaped

\* A wrong, unmarked sale is owed by the request that is about it.
LEMMA SaleDebtIsMine ==
  ASSUME SalesInv, NEW h \in Busy, SaleDoc \in req[h].touches,
         SaleDoc \notin dirty, ~SaleRight
  PROVE  OwesSale(req[h])
<1>1. PICK g \in Busy : OwesSale(req[g])
  BY DEF SalesInv, SaleVouched
<1>2. SaleDoc \in req[g].touches /\ WellFormed(req[g])
  BY <1>1, SaleDebtor DEF SalesInv, Frame
<1>3. g # h => SaleDoc \in dirty
  BY <1>2 DEF SalesInv, Frame, OverlapsKnown, WellFormed, Marked
<1> QED
  BY <1>1, <1>3

\* A lifecycle request stays in debt until it ends, once it has passed the
\* checks it starts with.
LEMMA StaysInDebt ==
  ASSUME NEW r, NEW n, Continues(r, n), r.op \in LifecycleOps,
         n.step \notin {"read", "listBundles"},
         n.step = "listItems" => r.op \in SaleOps
  PROVE  OwesSale(n)
BY DEF Continues, OwesSale, BundleOps, SaleOps

\* Another request's step leaves alone what an undisturbed roll-up of the
\* sale computed.
LEMMA OthersSaleRight ==
  ASSUME SalesInv, NEW h \in Busy, Effect(h), NEW g \in Busy, g # h
  PROVE  SaleRollsRight(req[g])'
<1>1. req'[g] = req[g] /\ WellFormed(req[g]) /\ SaleRollsRight(req[g])
  BY DEF Effect, SalesInv, Frame, Busy
<1> SUFFICES ASSUME req[g].step \in SaleSteps, SaleDoc \notin req[g].contended
             PROVE  /\ req[g].view = RollupSale(ShelfView')
                    /\ req[g].step = "countSale" => sale'.status = req[g].view.status
  BY <1>1 DEF SaleRollsRight
<1>2. req[g].op \in LifecycleOps
  BY <1>1 DEF WellFormed, Shaped, SaleSteps, LifecycleSteps
<1>3. SaleDoc \in req[g].touches
  BY <1>1, <1>2 DEF WellFormed, Shaped, LifecycleOps, ItemOps, BundleOps,
                    SaleOps, EditOps
<1>4. SaleDoc \notin req[h].touches
  BY <1>3 DEF SalesInv, Frame, OverlapsKnown
<1>5. sale' = sale /\ shelf' = shelf
  BY <1>4 DEF Effect
<1> QED
  BY <1>1, <1>5, SaleRightSame DEF SaleRollsRight

\* Steps that leave the sale, the bundles and the marks alone, and the request
\* in debt if it was.
LEMMA QuietForSale ==
  ASSUME SalesInv, NEW h \in Busy, UNCHANGED <<sale, shelf, dirty>>,
         h \in Busy' => req'[h].step \notin SaleSteps,
         OwesSale(req[h]) => SaleRight \/ (h \in Busy' /\ OwesSale(req'[h]))
  PROVE  OwnSale(h)
<1>1. SaleRight' <=> SaleRight
  BY SaleRightSame
<1>2. ASSUME SaleDoc \in req[h].touches, SaleDoc \notin dirty, ~SaleRight
      PROVE  OwesSale(req[h])
  BY <1>2, SaleDebtIsMine
<1> QED
  BY <1>1, <1>2 DEF OwnSale, SaleRollsRight

\* Each step of a request, and its failure, leaves the sale right or owed.
LEMMA OwnSaleSteps ==
  ASSUME SalesInv, NEW h \in Handlers, Proceed(h) \/ Fail(h)
  PROVE  OwnSale(h)
<1> DEFINE r == req[h]
<1>0. /\ Frame /\ h \in Busy /\ r \in Request /\ r # Idle
      /\ WellFormed(r) /\ Shaped(r) /\ Effect(h) /\ TypeOK
      /\ req'[h] = Idle \/ Continues(r, req'[h])
      /\ (h \in Busy' <=> req'[h] # Idle)
  <2>1. Frame
    BY DEF SalesInv
  <2>2. h \in Busy /\ Effect(h)
    BY <2>1, ProceedEffect
  <2> QED
    BY <2>1, <2>2, BusyRequest DEF Frame, WellFormed, Busy, Effect
<1>1. CASE ReadItem(h) \/ ListBundles(h)
  <2>1. UNCHANGED <<sale, shelf, dirty>> /\ ~OwesSale(r)
    BY <1>1 DEF ReadItem, ListBundles, At, OwesSale
  <2>2. req'[h] # Idle => req'[h].step \notin SaleSteps
    <3>1. CASE ReadItem(h)
      BY <1>0, <3>1 DEF ReadItem, End, TypeOK, Request, SaleSteps
    <3>2. CASE ListBundles(h)
      <4>1. PICK n \in Advance(r, Shelved) : req'[h] = n
        BY <1>0, <3>2 DEF ListBundles, TypeOK
      <4> QED
        BY <1>0, <4>1, AdvanceStep DEF SaleSteps
    <3> QED
      BY <1>1, <3>1, <3>2
  <2> QED
    BY <1>0, <2>1, <2>2, QuietForSale
<1>2. CASE ListItems(h) \/ WriteItem(h) \/ Record(h) \/ ListForRollup(h)
  <2>1. UNCHANGED <<sale, shelf, dirty>> /\ r.step \in LifecycleSteps
    BY <1>2 DEF ListItems, WriteItem, Record, ListForRollup, At, LifecycleSteps
  <2>2. r.op \in LifecycleOps
    BY <1>0, <2>1 DEF Shaped
  <2>3. \/ req'[h] = Idle /\ r.op \in BundleOps /\ r.step = "listItems"
        \/ req'[h].step \in {"write", "record", "listForRollup", "rollBundle",
                             "listForSale"}
        \/ req'[h].step = "listItems" /\ r.op \in SaleOps
    <3>1. CASE ListItems(h)
      BY <1>0, <3>1 DEF ListItems, End, At, TypeOK, Request, AfterWrites, BundleOps
    <3>2. CASE WriteItem(h)
      <4>1. PICK i \in r.todo :
              req' = [req EXCEPT ![h].todo = r.todo \ {i},
                       ![h].step = IF r.todo = {i} THEN AfterWrites(r.op) ELSE "write"]
        BY <3>2 DEF WriteItem
      <4> QED
        BY <1>0, <4>1 DEF TypeOK, Request, AfterWrites
    <3>3. CASE Record(h)
      BY <1>0, <3>3 DEF Record, Goto, TypeOK, Request
    <3>4. CASE ListForRollup(h)
      <4>1. CASE ItemsIn(r.bundle) = {}
        <5>1. PICK n \in AfterRollup(r) : req'[h] = n
          BY <1>0, <3>4, <4>1 DEF ListForRollup, TypeOK
        <5> QED
          BY <1>0, <5>1, AdvanceStep DEF AfterRollup, Request
      <4>2. CASE ItemsIn(r.bundle) # {}
        BY <1>0, <3>4, <4>2 DEF ListForRollup, TypeOK, Request
      <4> QED
        BY <4>1, <4>2
    <3> QED
      BY <1>2, <3>1, <3>2, <3>3, <3>4
  <2>4. OwesSale(r) => req'[h] # Idle /\ OwesSale(req'[h])
    <3>1. OwesSale(r) => ~(r.op \in BundleOps /\ r.step = "listItems")
      BY DEF OwesSale
    <3>2. req'[h] # Idle => Continues(r, req'[h])
      BY <1>0
    <3>3. ASSUME OwesSale(r) PROVE req'[h] # Idle
      BY <2>3, <3>1, <3>3 DEF Idle
    <3> QED
      BY <2>2, <2>3, <3>1, <3>2, <3>3, StaysInDebt
  <2>5. req'[h] # Idle => req'[h].step \notin SaleSteps
    BY <2>3 DEF SaleSteps
  <2> QED
    BY <1>0, <2>1, <2>4, <2>5, QuietForSale
<1>3. CASE RollBundle(h)
  <2>1. r.step = "rollBundle" /\ r.op \in LifecycleOps
    BY <1>0, <1>3 DEF RollBundle, At, Shaped, LifecycleSteps
  <2>2. PICK n \in AfterRollup(r) : req'[h] = n
    BY <1>0, <1>3 DEF RollBundle, TypeOK
  <2>3. \/ n.step \in {"record", "listForSale"}
        \/ n.step = "listItems" /\ r.op \in SaleOps
    BY <1>0, <2>2, AdvanceStep DEF AfterRollup, Request
  <2>4. req'[h] # Idle /\ OwesSale(req'[h])
    <3>1. req'[h] # Idle
      BY <2>2, <2>3 DEF Idle
    <3> QED
      BY <1>0, <2>1, <2>2, <2>3, <3>1, StaysInDebt
  <2> QED
    BY <1>0, <2>2, <2>3, <2>4 DEF OwnSale, SaleRollsRight, SaleSteps
<1>4. CASE ListForSale(h)
  <2>1. UNCHANGED <<sale, shelf, dirty>> /\ r.op \in LifecycleOps
    BY <1>0, <1>4 DEF ListForSale, At, Shaped, LifecycleSteps
  <2>2. CASE Shelved = {}
    <3>1. req'[h] = Idle /\ SaleRight
      BY <1>0, <1>4, <2>2 DEF ListForSale, End, TypeOK, SaleRight
    <3> QED
      BY <1>0, <2>1, <3>1, QuietForSale
  <2>3. CASE Shelved # {}
    <3>1. req'[h] = [r EXCEPT !.view = RollupSale(ShelfView), !.step = "readSale"]
      BY <1>0, <1>4, <2>3 DEF ListForSale, TypeOK
    <3>2. req'[h].step = "readSale" /\ req'[h].view = RollupSale(ShelfView)
      BY <1>0, <3>1 DEF Request
    <3>3. req'[h] # Idle
      BY <3>2 DEF Idle
    <3>4. OwesSale(req'[h])
      BY <1>0, <2>1, <3>2, <3>3, StaysInDebt
    <3>5. SaleRollsRight(req[h])'
      BY <2>1, <3>2, SaleRightSame DEF SaleRollsRight
    <3> QED
      BY <1>0, <3>3, <3>4, <3>5 DEF OwnSale
  <2> QED
    BY <2>2, <2>3
<1>5. CASE ReadSale(h)
  <2>1. /\ UNCHANGED <<sale, shelf, dirty>> /\ r.op \in LifecycleOps
        /\ r.step = "readSale" /\ SaleRollsRight(r)
    BY <1>0, <1>5 DEF ReadSale, At, Shaped, LifecycleSteps, SalesInv
  <2>2. CASE sale.status \notin RolledUpStatuses
    <3>1. req'[h] = Idle /\ SaleRight
      BY <1>0, <1>5, <2>2 DEF ReadSale, End, TypeOK, SaleRight
    <3> QED
      BY <1>0, <2>1, <3>1, QuietForSale
  <2>3. CASE sale.status \in RolledUpStatuses
    <3> DEFINE s == IF sale.status = r.view.status THEN "countSale" ELSE "moveSale"
    <3>1. req'[h] = [r EXCEPT !.step = s]
      BY <1>0, <1>5, <2>3 DEF ReadSale, Goto, TypeOK
    <3>2. /\ req'[h].step = s /\ req'[h].view = r.view
          /\ req'[h].contended = r.contended
      BY <1>0, <3>1 DEF Request
    <3>3. req'[h] # Idle
      BY <3>2 DEF Idle
    <3>4. OwesSale(req'[h])
      BY <1>0, <2>1, <3>2, <3>3, StaysInDebt
    <3>5. SaleRollsRight(req[h])'
      BY <2>1, <3>2, SaleRightSame DEF SaleRollsRight, SaleSteps
    <3> QED
      BY <1>0, <3>3, <3>4, <3>5 DEF OwnSale
  <2> QED
    BY <2>2, <2>3
<1>6. CASE MoveSale(h)
  <2>1. /\ UNCHANGED <<shelf, dirty>> /\ r.op \in LifecycleOps
        /\ r.step = "moveSale" /\ SaleRollsRight(r)
        /\ sale' = [sale EXCEPT !.status = r.view.status]
    BY <1>0, <1>6 DEF MoveSale, At, Shaped, LifecycleSteps, SalesInv
  <2>2. req'[h] = [r EXCEPT !.step = "countSale"]
    BY <1>0, <1>6 DEF MoveSale, Goto, TypeOK
  <2>3. /\ req'[h].step = "countSale" /\ req'[h].view = r.view
        /\ req'[h].contended = r.contended
    BY <1>0, <2>2 DEF Request
  <2>4. req'[h] # Idle
    BY <2>3 DEF Idle
  <2>5. OwesSale(req'[h])
    BY <1>0, <2>1, <2>3, <2>4, StaysInDebt
  <2>6. sale'.status = r.view.status
    BY <1>0, <2>1 DEF TypeOK, SaleDocument
  <2>7. ShelfView' = ShelfView
    BY <2>1 DEF ShelfView, Shelved
  <2>8. SaleRollsRight(req[h])'
    BY <2>1, <2>3, <2>6, <2>7 DEF SaleRollsRight, SaleSteps
  <2> QED
    BY <1>0, <2>4, <2>5, <2>8 DEF OwnSale
<1>7. CASE CountSale(h)
  <2>1. /\ shelf' = shelf /\ r.step = "countSale" /\ SaleRollsRight(r)
        /\ sale' = [sale EXCEPT !.sold = r.view.sold, !.total = r.view.total]
        /\ dirty' = IF SaleDoc \in r.contended THEN dirty ELSE dirty \ {SaleDoc}
    BY <1>0, <1>7 DEF CountSale, At, SalesInv
  <2>2. req'[h] = Idle
    BY <1>0, <1>7 DEF CountSale, End, TypeOK
  <2>3. SaleDoc \in r.contended => SaleDoc \in dirty'
    BY <1>0, <2>1 DEF WellFormed, Marked
  <2>4. ASSUME SaleDoc \notin r.contended PROVE SaleRight'
    <3>1. r.view = RollupSale(ShelfView) /\ sale.status = r.view.status
      BY <2>1, <2>4 DEF SaleRollsRight, SaleSteps
    <3>2. sale'.status = sale.status /\ ShelfView' = ShelfView
      BY <1>0, <2>1 DEF TypeOK, SaleDocument, ShelfView, Shelved
    <3>3. r.view.status = SaleStatusOf(ShelfView)
      BY <3>1 DEF RollupSale
    <3> QED
      BY <3>1, <3>2, <3>3 DEF SaleRight
  <2> QED
    BY <1>0, <2>2, <2>3, <2>4 DEF OwnSale
<1>8. CASE SetStatus(h)
  <2>1. /\ r.op \in StatusOps /\ dirty' = dirty
        /\ sale' = [sale EXCEPT !.status = Becomes(r.op)]
    BY <1>0, <1>8 DEF SetStatus, At, Shaped
  <2>2. req'[h] = Idle
    BY <1>0, <1>8 DEF SetStatus, End, TypeOK
  <2>3. CASE r.op \in Unrolled
    BY <1>0, <2>1, <2>2, <2>3 DEF WellFormed, Marked, OwnSale
  <2>4. CASE r.op \notin Unrolled
    <3>1. sale'.status = Becomes(r.op)
      BY <1>0, <2>1 DEF TypeOK, SaleDocument
    <3>2. r.op \in {"unpublish_sale", "archive_sale"}
      BY <2>1, <2>4 DEF StatusOps, Unrolled
    <3>3. Becomes(r.op) \notin RolledUpStatuses
      BY <3>2 DEF Becomes, RolledUpStatuses
    <3> QED
      BY <1>0, <2>2, <3>1, <3>3 DEF OwnSale, SaleRight
  <2> QED
    BY <2>3, <2>4
<1>9. CASE WriteMissing(h) \/ RollMissing(h) \/ Fail(h)
  <2>1. req'[h] = Idle /\ dirty' = dirty \cup r.touches
    BY <1>0, <1>9 DEF WriteMissing, RollMissing, Fail, Abort, End, TypeOK
  <2> QED
    BY <1>0, <2>1 DEF OwnSale
<1>10. CASE \/ SetBundle(h) \/ SetItem(h) \/ DeleteItem(h) \/ SetTarget(h)
            \/ DeleteSource(h) \/ DeleteItems(h) \/ DeleteBundle(h)
            \/ ReadSource(h) \/ ListDoomed(h)
  <2>1. /\ dirty' = dirty /\ r.step \notin LifecycleSteps
        /\ r.step # "setStatus"
    BY <1>10 DEF SetBundle, SetItem, DeleteItem, SetTarget, DeleteSource,
         DeleteItems, DeleteBundle, ReadSource, ListDoomed, At, LifecycleSteps
  <2>2. r.op \in EditOps
    BY <1>0, <2>1 DEF Shaped, Request, Ops
  <2>3. r.touches \subseteq dirty'
    BY <1>0, <2>1, <2>2 DEF WellFormed, Marked, Unrolled
  <2>4. req'[h] # Idle => req'[h].step \notin SaleSteps
    <3>1. r.op \notin LifecycleOps
      BY <2>2 DEF LifecycleOps, ItemOps, BundleOps, SaleOps, EditOps
    <3> QED
      BY <1>0, <3>1 DEF Continues, Shaped, LifecycleSteps, SaleSteps
  <2> QED
    BY <1>0, <2>3, <2>4 DEF OwnSale, SaleRollsRight
<1> QED
  BY <1>1, <1>2, <1>3, <1>4, <1>5, <1>6, <1>7, <1>8, <1>9, <1>10 DEF Proceed

\* The invariant about the sale is inductive.
LEMMA SalesStep == SalesInv /\ [Next]_vars => SalesInv'
<1> SUFFICES ASSUME SalesInv, [Next]_vars PROVE SalesInv'
  OBVIOUS
<1>0. Frame /\ TypeOK /\ Frame'
  BY StepFrame DEF SalesInv, Frame
<1>1. CASE UNCHANGED vars
  BY <1>0, <1>1 DEF vars, SalesInv, Busy, SaleRollsRight, ShelfView, Shelved,
                    SaleVouched, SaleRight
<1>2. ASSUME NEW h \in Handlers, BeginRequest(h)
      PROVE  SalesInv'
  <2>1. Arrives(h)
    BY <1>0, <1>2, BeginRequestStep
  <2>2. \A g \in Busy' : g # h => g \in Busy
    BY <2>1 DEF Arrives, Busy
  <2>3. \A g \in Busy : g \in Busy' /\ g # h /\ g \in Handlers
    BY <2>1, RequestNotIdle DEF Arrives, Busy
  <2>4. (SaleRight' <=> SaleRight) /\ ShelfView' = ShelfView /\ sale' = sale
    BY <2>1, SaleRightSame DEF Arrives
  <2>5. ASSUME NEW g \in Busy'
        PROVE  SaleRollsRight(req[g])'
    <3>1. CASE g = h
      BY <2>1, <3>1 DEF Arrives, SaleRollsRight
    <3>2. CASE g # h
      <4>1. g \in Busy /\ SaleRollsRight(req[g])
        BY <2>2, <2>5, <3>2 DEF SalesInv
      <4>2. /\ req'[g].step = req[g].step /\ req'[g].view = req[g].view
            /\ req[g].contended \subseteq req'[g].contended
        BY <2>1, <4>1 DEF Arrives
      <4> QED
        BY <2>4, <4>1, <4>2 DEF SaleRollsRight
    <3> QED
      BY <3>1, <3>2
  <2>6. ASSUME SaleDoc \notin dirty', ~SaleRight'
        PROVE  \E g \in Busy' : OwesSale(req'[g])
    <3>1. PICK g \in Busy : OwesSale(req[g])
      BY <2>1, <2>4, <2>6 DEF Arrives, SalesInv, SaleVouched
    <3>2. req'[g].step = req[g].step /\ req'[g].op = req[g].op
      BY <2>1 DEF Arrives
    <3> QED
      BY <2>3, <3>1, <3>2 DEF OwesSale
  <2> QED
    BY <1>0, <2>5, <2>6 DEF SalesInv, SaleVouched
<1>3. ASSUME NEW h \in Handlers, Proceed(h) \/ Fail(h)
      PROVE  SalesInv'
  <2>1. Effect(h) /\ h \in Busy /\ OwnSale(h)
    BY <1>0, <1>3, ProceedEffect, OwnSaleSteps
  <2>2. \A g \in Handlers : g # h => (g \in Busy' <=> g \in Busy) /\ req'[g] = req[g]
    BY <2>1 DEF Effect, Busy
  <2>3. ASSUME NEW g \in Busy'
        PROVE  SaleRollsRight(req[g])'
    <3>1. CASE g = h
      BY <2>1, <2>3, <3>1 DEF OwnSale
    <3>2. CASE g # h
      <4>1. g \in Busy
        BY <2>2, <2>3, <3>2 DEF Busy
      <4> QED
        BY <2>1, <3>2, <4>1, OthersSaleRight
    <3> QED
      BY <3>1, <3>2
  <2>4. ASSUME SaleDoc \notin dirty', ~SaleRight'
        PROVE  \E g \in Busy' : OwesSale(req'[g])
    <3>1. CASE SaleDoc \in req[h].touches
      BY <2>1, <2>4, <3>1 DEF OwnSale
    <3>2. CASE SaleDoc \notin req[h].touches
      <4>1. sale' = sale /\ shelf' = shelf /\ SaleDoc \notin dirty
        BY <2>1, <2>4, <3>2 DEF Effect
      <4>2. PICK g \in Busy : OwesSale(req[g])
        BY <2>4, <4>1, SaleRightSame DEF SalesInv, SaleVouched
      <4>3. g # h
        BY <1>0, <3>2, <4>2, SaleDebtor
      <4> QED
        BY <2>2, <4>2, <4>3 DEF Busy
    <3> QED
      BY <3>1, <3>2
  <2> QED
    BY <1>0, <2>3, <2>4 DEF SalesInv, SaleVouched
<1> QED
  BY <1>1, <1>2, <1>3 DEF Next

\* A reviewed sale is not rolled up yet, and needs not be.
LEMMA InitSales == Init => SalesInv
<1> SUFFICES ASSUME Init PROVE SalesInv
  OBVIOUS
<1>1. Frame /\ Busy = {}
  BY InitFrame DEF Init, Busy
<1>2. SaleRight
  BY DEF Init, SaleRight, RolledUpStatuses
<1> QED
  BY <1>1, <1>2 DEF SalesInv, SaleVouched

\* The invariant about the sale holds in every reachable state.
LEMMA SalesInvariant == Spec => []SalesInv
BY InitSales, SalesStep, PTL DEF Spec

\* Between requests, the status of a published sale is the one its bundle
\* documents call for, however many requests overlapped elsewhere.
THEOREM SalesRollUp == Spec => []SaleSynced
<1>1. SalesInv => SaleSynced
  BY SaleDebtor DEF SalesInv, SaleSynced, SaleVouched
<1> QED
  BY <1>1, SalesInvariant, PTL

\* Both inductive invariants, as the runs check them, hold in every reachable
\* state.
THEOREM InvariantsHold == Spec => []SaleInv
<1>1. BundlesInv /\ SalesInv => SaleInv
  BY DEF BundlesInv, SalesInv, Frame, BundleInv, SaleInv
<1> QED
  BY <1>1, BundlesInvariant, SalesInvariant, PTL

\* The part of the inductive invariant about bundles: undisturbed bundles are
\* right or owed a roll-up, and undisturbed roll-ups are right, whatever overlaps.
THEOREM BundleInvariantHolds == Spec => []BundleInv
<1>1. SaleInv => BundleInv
  BY DEF SaleInv
<1> QED
  BY <1>1, InvariantsHold, PTL
-----------------------------------------------------------------------------
(***************************************************************************)
(* Both together, as the repository states them.                           *)
(***************************************************************************)
\* The roll-up of the sale tests the status and the sold count of a bundle
\* document, and nothing else of it.
LEMMA SaleStatusDepends ==
  ASSUME NEW c, NEW d, DOMAIN c = DOMAIN d,
         \A b \in DOMAIN c : c[b].status = d[b].status /\ c[b].sold = d[b].sold
  PROVE  SaleStatusOf(c) = SaleStatusOf(d)
<1>1. [b \in DOMAIN c |-> c[b].sold] = [b \in DOMAIN d |-> d[b].sold]
  OBVIOUS
<1>2. SoldItems(c) = SoldItems(d)
  BY <1>1 DEF SoldItems
<1>3. ASSUME NEW s
      PROVE  {b \in DOMAIN c : c[b].status = s} = {b \in DOMAIN d : d[b].status = s}
  OBVIOUS
<1>4. /\ {b \in DOMAIN c : c[b].status = "sold"}
           = {b \in DOMAIN d : d[b].status = "sold"}
      /\ {b \in DOMAIN c : c[b].status = "withdrawn"}
           = {b \in DOMAIN d : d[b].status = "withdrawn"}
  BY <1>3
<1> QED
  BY <1>2, <1>4, Zenon DEF SaleStatusOf

\* What the queries return of an item is a status.
LEMMA ListedStatuses ==
  ASSUME TypeOK, NEW b \in Bundles
  PROVE  /\ DOMAIN StatusesIn(b) = ItemsIn(b)
         /\ IsFiniteSet(ItemsIn(b))
         /\ \A i \in ItemsIn(b) : StatusesIn(b)[i] \in ItemStatuses
<1>1. ItemsIn(b) \in SUBSET Items
  BY DEF ItemsIn
<1>2. IsFiniteSet(ItemsIn(b))
  BY <1>1, FS_Subset
<1>3. ASSUME NEW i \in ItemsIn(b)
      PROVE  StatusesIn(b)[i] \in ItemStatuses
  BY DEF StatusesIn, ItemsIn, TypeOK, ItemDoc
<1> QED
  BY <1>2, <1>3 DEF StatusesIn

\* Between requests, the bundle statuses and the status of the sale are what the
\* items say they should be, with any number of requests before that, any of
\* which may have failed half way.  (README.md:63)
THEOREM RollsUp == Spec => []RollsUpAutomatically
<1>1. TypeOK /\ BundleSynced /\ SaleSynced => RollsUpAutomatically
  <2> SUFFICES ASSUME TypeOK, BundleSynced, SaleSynced, Busy = {}
               PROVE  RollsUpAutomatically
    BY DEF RollsUpAutomatically
  <2> DEFINE filled == {b \in Shelved : ItemsIn(b) # {}}
             stock == [b \in Shelved |-> StatusesIn(b)]
             rolled == [b \in Shelved |-> RollupBundle(stock[b])]
  <2>0. Shelved \in SUBSET Bundles
    BY DEF Shelved
  <2>1. ASSUME NEW b \in filled \ dirty
        PROVE  /\ shelf[b].status = BundleStatusOf(StatusesIn(b))
               /\ shelf[b].sold = Count(StatusesIn(b), "sold")
               /\ shelf[b].status = DeclaredBundleStatus(StatusesIn(b))
    <3>1. b \in Bundles \ dirty
      BY <2>0
    <3>2. CachedRight(b)
      BY <3>1 DEF BundleSynced
    <3>3. BundleStatusOf(StatusesIn(b)) = DeclaredBundleStatus(StatusesIn(b))
      BY <3>1, ListedStatuses, BundleStatusMeaning
    <3> QED
      BY <3>2, <3>3 DEF CachedRight
  <2>2. ASSUME SaleDoc \notin dirty, dirty = {}, Shelved # {}, filled = Shelved,
               sale.status \in RolledUpStatuses
        PROVE  sale.status = DeclaredSaleStatus(stock)
    <3>1. sale.status = SaleStatusOf(ShelfView)
      BY <2>2 DEF SaleSynced, SaleRight
    <3>2. ASSUME NEW b \in Shelved
          PROVE  /\ ShelfView[b].status = rolled[b].status
                 /\ ShelfView[b].sold = rolled[b].sold
      BY <2>1, <2>2 DEF ShelfView, RollupBundle
    <3>3. SaleStatusOf(ShelfView) = SaleStatusOf(rolled)
      <4>1. DOMAIN ShelfView = Shelved /\ DOMAIN rolled = Shelved
        BY DEF ShelfView
      <4> QED
        BY <3>2, <4>1, SaleStatusDepends
    <3>4. SaleStatusOf(rolled) = DeclaredSaleStatus(stock)
      <4>1. IsFiniteSet(Shelved)
        BY <2>0, FS_Subset
      <4>2. ASSUME NEW b \in Shelved
            PROVE  /\ IsFiniteSet(DOMAIN stock[b]) /\ DOMAIN stock[b] # {}
                   /\ \A i \in DOMAIN stock[b] : stock[b][i] \in ItemStatuses
        <5>1. b \in Bundles /\ ItemsIn(b) # {}
          BY <2>0, <2>2
        <5> QED
          BY <5>1, ListedStatuses
      <4>3. DOMAIN stock = Shelved
        OBVIOUS
      <4> HIDE DEF stock
      <4> QED
        BY <4>1, <4>2, <4>3, SaleStatusMeaning
    <3> QED
      BY <3>1, <3>3, <3>4
  <2> QED
    BY <2>1, <2>2 DEF RollsUpAutomatically
<1> QED
  BY <1>1, TypeCorrect, BundlesRollUp, SalesRollUp, PTL
=============================================================================
