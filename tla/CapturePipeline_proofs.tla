------------------------ MODULE CapturePipeline_proofs ------------------------
(***************************************************************************)
(* Proofs about CapturePipeline: types, that a failed sale can be retried  *)
(* and that no status is orphaned, for any number of overlapping requests; *)
(* and for one at a time, what its runs make of the photos and the status. *)
(***************************************************************************)
EXTENDS CapturePipeline, SequenceTheorems, TLAPS

USE PipelineAssumption

ClearSteps == {"listBundles", "listItems", "deleteItem", "deleteBundle"}
KeySteps == {"checkKey", "storeInput", "storeKey"}
TaskSteps == RunSteps \cup PricingSteps \cup {"fail", "failPricing"}

\* The steps of each operation.
StepsOf(op) ==
  CASE op = "finalize"    -> KeySteps \cup TaskSteps
    [] op = "retry"       -> ClearSteps \cup TaskSteps
    [] op = "delete_sale" -> ClearSteps \cup {"deleteSale"}
    [] OTHER              -> {"setStatus"}

\* A request is at a step of its operation; who starts a run has photos and a
\* number for its documents.
Known(r) ==
  /\ r.op \in EnabledOps /\ r.step \in StepsOf(r.op)
  /\ r.op \in RunOps => r.run \in 1..MaxRuns /\ r.input # {}
  /\ Len(r.groups) <= General
  /\ r.step = "addBundle" => r.bundle \in BundleIds
  /\ r.step \in {"checkKey", "storeKey"} => r.key # NoKey

Good == {r \in Request : Known(r)}

TypeInv == TypeOK /\ \A h \in Busy : req[h] \in Good

LEMMA NotIdle == \A r \in Request : r # Idle
<1> SUFFICES ASSUME NEW r \in Request, r = Idle PROVE FALSE
  OBVIOUS
<1>1. r.step \in Steps /\ r.step = "idle"
  BY DEF Request, Idle
<1> QED
  BY <1>1 DEF Steps, RunSteps, PricingSteps

LEMMA BusyGood ==
  ASSUME TypeInv, NEW h \in Handlers, req[h] # Idle
  PROVE  req[h] \in Good /\ req[h] \in Request /\ Known(req[h]) /\ h \in Busy
BY DEF TypeInv, Good, Busy

\* The steps of a run's background task.
LEMMA TaskOps ==
  ASSUME NEW r \in Good, r.step \in TaskSteps
  PROVE  r.op \in RunOps /\ TaskSteps \subseteq StepsOf(r.op)
<1>1. r.op \in Ops /\ r.step \in StepsOf(r.op)
  BY DEF Good, Known, Request
<1> QED
  BY <1>1 DEF Ops, RunOps, StepsOf, TaskSteps, ClearSteps, RunSteps, PricingSteps

\* Only the step of a request changes.
LEMMA StepGood ==
  ASSUME NEW r \in Good, NEW step \in StepsOf(r.op), step # "addBundle",
         step \in {"checkKey", "storeKey"} => r.key # NoKey
  PROVE  /\ [r EXCEPT !.step = step] \in Good
         /\ [r EXCEPT !.step = step].step = step
<1> DEFINE n == [r EXCEPT !.step = step]
<1>1. r \in Request /\ Known(r) /\ r.op \in Ops
  BY DEF Good, Request
<1>2. step \in Steps
  BY <1>1 DEF StepsOf, Ops, Steps, ClearSteps, KeySteps, TaskSteps
<1>3. n \in Request
  BY <1>1, <1>2 DEF Request
<1>4. /\ n.op = r.op /\ n.step = step /\ n.run = r.run /\ n.input = r.input
      /\ n.groups = r.groups /\ n.key = r.key
  BY <1>1 DEF Request
<1> QED
  BY <1>1, <1>3, <1>4 DEF Good, Known

\* The next bundle of a run.
LEMMA PlaceGood ==
  ASSUME NEW r \in Good, r.op \in RunOps, NEW label \in NeedsReview..General,
         NEW photos \in SUBSET Photos
  PROVE  LET n == Place(r, label, photos)
         IN /\ n \in Good /\ n.step = "addBundle" /\ n.bundle \in BundleIds
            /\ n.todo = [bundle : {n.bundle}, photo : photos]
            /\ n.op = r.op /\ n.input = r.input /\ n.seen = r.seen
            /\ n.groups = r.groups /\ n.grouped = r.grouped
<1> DEFINE b == <<r.run, label>>
           todo == [bundle : {b}, photo : photos]
           n == [r EXCEPT !.step = "addBundle", !.bundle = b, !.todo = todo]
<1>1. r \in Request /\ Known(r)
  BY DEF Good
<1>2. b \in BundleIds
  BY <1>1 DEF Known, BundleIds
<1>3. todo \in SUBSET ItemDocs
  BY <1>2 DEF ItemDocs
<1>4. Place(r, label, photos) = n
  BY DEF Place
<1>5. "addBundle" \in StepsOf(r.op) /\ "addBundle" \in Steps
  BY DEF StepsOf, RunOps, TaskSteps, RunSteps, Steps
<1> HIDE DEF b, todo
<1>6. /\ n \in Request
      /\ n.step = "addBundle" /\ n.bundle = b /\ n.todo = todo /\ n.op = r.op
      /\ n.input = r.input /\ n.seen = r.seen /\ n.groups = r.groups
      /\ n.grouped = r.grouped /\ n.run = r.run
  BY <1>1, <1>2, <1>3, <1>5 DEF Request
<1>7. n \in Good
  BY <1>1, <1>2, <1>5, <1>6 DEF Good, Known
<1>8. todo = [bundle : {b}, photo : photos]
  BY DEF todo
<1> QED
  BY <1>2, <1>4, <1>6, <1>7, <1>8

\* What a run does next, when it has placed some photos: it asks for groups,
\* starts a bundle of photos it has not placed, or has placed them all.
LEMMA NextGood ==
  ASSUME NEW r \in Good, r.op \in RunOps, r.step \in TaskSteps, NEW S \in SUBSET Photos,
         r.input \subseteq S, r.groups \in Seq(SUBSET S)
  PROVE  LET n == NextBundle(r)
         IN /\ n \in Good /\ n.op = r.op /\ n.input = r.input /\ n.seen = r.seen
            /\ n.step \in {"refine", "addBundle", "ready"}
            /\ n.groups \in Seq(SUBSET S)
            /\ n.step = "addBundle" =>
                 \E photos \in SUBSET (S \ r.seen) :
                   n.todo = [bundle : {n.bundle}, photo : photos]
            /\ n.step = "ready" => r.input \subseteq r.seen
<1> DEFINE missed == r.input \ r.seen
<1>0. r \in Request /\ Known(r) /\ TaskSteps \subseteq StepsOf(r.op)
  BY TaskOps DEF Good
<1>1. CASE ~r.grouped /\ ~(r.input \subseteq Unclear)
  <2> DEFINE n == [r EXCEPT !.step = "refine"]
  <2>1. NextBundle(r) = n
    BY <1>1 DEF NextBundle
  <2>2. n \in Good
    BY <1>0, StepGood DEF TaskSteps, RunSteps
  <2>3. /\ n.op = r.op /\ n.input = r.input /\ n.seen = r.seen /\ n.step = "refine"
        /\ n.groups = r.groups
    BY <1>0 DEF Request
  <2> QED
    BY <2>1, <2>2, <2>3
<1>2. CASE ~(~r.grouped /\ ~(r.input \subseteq Unclear)) /\ r.groups # << >>
  <2> DEFINE m == [r EXCEPT !.groups = Tail(@)]
             photos == Head(r.groups) \ r.seen
             n == Place(m, Len(r.groups), photos)
  <2>1. NextBundle(r) = n
    BY <1>2 DEF NextBundle
  <2>2. /\ Head(r.groups) \in SUBSET S /\ Tail(r.groups) \in Seq(SUBSET S)
        /\ Len(r.groups) \in 1..General
        /\ Len(Tail(r.groups)) = Len(r.groups) - 1
        /\ Tail(r.groups) \in Seq(SUBSET Photos)
    <3>1. /\ Head(r.groups) \in SUBSET S /\ Tail(r.groups) \in Seq(SUBSET S)
          /\ Len(Tail(r.groups)) = Len(r.groups) - 1 /\ Len(r.groups) \in Nat \ {0}
      BY <1>2, HeadTailProperties, EmptySeq
    <3>2. Tail(r.groups) \in Seq(SUBSET Photos)
      BY <3>1, SeqMonotonic
    <3> QED
      BY <1>0, <3>1, <3>2 DEF Known, General
  <2>3. /\ m \in Request /\ m.op = r.op /\ m.input = r.input /\ m.seen = r.seen
        /\ m.groups = Tail(r.groups) /\ m.run = r.run /\ m.step = r.step
        /\ m.bundle = r.bundle /\ m.key = r.key
    BY <1>0, <2>2 DEF Request
  <2>4. m \in Good
    <3> HIDE DEF m
    <3>1. Len(m.groups) <= General
      BY <2>2, <2>3 DEF General
    <3> QED
      BY <1>0, <2>3, <3>1 DEF Good, Known
  <2>5. Len(r.groups) \in NeedsReview..General /\ photos \in SUBSET Photos
    BY <2>2 DEF NeedsReview, General
  <2>6. /\ n \in Good /\ n.step = "addBundle" /\ n.op = r.op /\ n.input = r.input
        /\ n.seen = r.seen /\ n.groups = Tail(r.groups)
        /\ n.todo = [bundle : {n.bundle}, photo : photos]
    <3> HIDE DEF m, photos
    <3> QED
      BY <2>3, <2>4, <2>5, PlaceGood
  <2>7. photos \in SUBSET (S \ r.seen)
    BY <2>2
  <2> HIDE DEF n, photos
  <2> QED
    BY <2>1, <2>2, <2>6, <2>7
<1>3. CASE ~(~r.grouped /\ ~(r.input \subseteq Unclear)) /\ r.groups = << >> /\ missed # {}
  <2> DEFINE n == Place(r, General, missed)
  <2>1. NextBundle(r) = n
    BY <1>3 DEF NextBundle
  <2>2. General \in NeedsReview..General /\ missed \in SUBSET Photos
    BY DEF NeedsReview, General
  <2>3. /\ n \in Good /\ n.step = "addBundle" /\ n.op = r.op /\ n.input = r.input
        /\ n.seen = r.seen /\ n.groups = r.groups
        /\ n.todo = [bundle : {n.bundle}, photo : missed]
    <3> HIDE DEF missed
    <3> QED
      BY <2>2, PlaceGood
  <2>4. missed \in SUBSET (S \ r.seen)
    OBVIOUS
  <2> HIDE DEF n, missed
  <2> QED
    BY <2>1, <2>3, <2>4
<1>4. CASE ~(~r.grouped /\ ~(r.input \subseteq Unclear)) /\ r.groups = << >> /\ missed = {}
  <2> DEFINE n == [r EXCEPT !.step = "ready"]
  <2>1. NextBundle(r) = n
    BY <1>4 DEF NextBundle
  <2>2. n \in Good
    BY <1>0, StepGood DEF TaskSteps, RunSteps
  <2>3. /\ n.op = r.op /\ n.input = r.input /\ n.seen = r.seen /\ n.step = "ready"
        /\ n.groups = r.groups
    BY <1>0 DEF Request
  <2> QED
    BY <1>4, <2>1, <2>2, <2>3
<1> QED
  BY <1>1, <1>2, <1>3, <1>4
-----------------------------------------------------------------------------
(***************************************************************************)
(* What a step makes of its request.                                       *)
(***************************************************************************)

\* The request of h becomes n; the others stay as they are.
Turns(h, n) == req' = [req EXCEPT ![h] = n]

LEMMA TurnsTo ==
  ASSUME TypeInv, NEW h \in Handlers, NEW n, Turns(h, n)
  PROVE  req'[h] = n /\ \A g \in Handlers : g # h => req'[g] = req[g]
BY DEF TypeInv, TypeOK, Turns

LEMMA GoesOn ==
  ASSUME TypeInv, NEW h \in Handlers, req[h] # Idle
  PROVE  /\ \A step : Goto(h, step) => Turns(h, [req[h] EXCEPT !.step = step])
         /\ End(h) => Turns(h, Idle)
BY DEF TypeInv, TypeOK, Goto, End, Turns

\* Where a request goes on when a call of it raises: nowhere, if "idle".
Caught(step) ==
  CASE step = "checkKey" -> "storeInput"
    [] step = "storeKey" -> "start"
    [] step \in RunSteps \cup {"failPricing"} -> "fail"
    [] step \in PricingSteps -> "failPricing"
    [] OTHER -> "idle"

LEMMA Raises ==
  ASSUME TypeInv, NEW h \in Handlers, req[h] # Idle, Raise(h)
  PROVE  IF Caught(req[h].step) = "idle" THEN End(h) ELSE Goto(h, Caught(req[h].step))
BY DEF Raise, Caught, RunSteps, PricingSteps

\* The same but for the step.
Same(r, n) == /\ n.op = r.op /\ n.input = r.input /\ n.seen = r.seen
              /\ n.groups = r.groups /\ n.key = r.key /\ n.run = r.run

LEMMA StepSame ==
  ASSUME NEW r \in Good, NEW step
  PROVE  Same(r, [r EXCEPT !.step = step]) /\ [r EXCEPT !.step = step].step = step
BY DEF Good, Request, Same

LEMMA CaughtGood ==
  ASSUME NEW r \in Good, Caught(r.step) # "idle"
  PROVE  [r EXCEPT !.step = Caught(r.step)] \in Good
<1>1. r.op \in Ops /\ r.step \in StepsOf(r.op)
  BY DEF Good, Known, Request
<1>2. Caught(r.step) \in StepsOf(r.op) /\ Caught(r.step) \notin {"addBundle", "checkKey", "storeKey"}
  BY <1>1 DEF Caught, Ops, StepsOf, KeySteps, TaskSteps, ClearSteps, RunSteps,
              PricingSteps
<1> QED
  BY <1>2, StepGood

\* The steps that follow each step when nothing raises, but for the choice of
\* bundles.
Follow(r) ==
  CASE r.step = "checkKey"   -> {"storeInput"}
    [] r.step = "storeInput" -> {IF r.key = NoKey THEN "start" ELSE "storeKey"}
    [] r.step = "storeKey"   -> {"start"}
    [] r.step \in {"listBundles", "deleteBundle"} -> {"listItems", Cleared(r.op)}
    [] r.step \in {"listItems", "deleteItem"} -> {"deleteItem", "deleteBundle"}
    [] r.step = "ready" -> {"price"}
    [] r.step = "price" -> {"readInventory"}
    [] r.step \in {"readInventory", "placeholder", "estimate", "writePrice"} ->
         {"placeholder", "estimate", "writePrice", "recalculate"}
    [] r.step = "recalculate" -> {"finish"}
    [] r.step = "finish" -> {"metadata"}
    [] OTHER -> {}

LEMMA FollowGood ==
  ASSUME NEW r \in Good
  PROVE  /\ Follow(r) \subseteq StepsOf(r.op) \ {"addBundle", "addItem", "refine", "checkKey"}
         /\ "storeKey" \in Follow(r) => r.key # NoKey
<1>1. r.op \in Ops /\ r.step \in StepsOf(r.op)
  BY DEF Good, Known, Request
<1> QED
  BY <1>1 DEF Follow, Ops, StepsOf, KeySteps, TaskSteps, ClearSteps, RunSteps,
              PricingSteps, Cleared

\* n is r at a following step, whatever is left to be done at it.
Follows(r, n) == n \in Good /\ Same(r, n) /\ n.step \in Follow(r)

Fails(r, n) == \/ n = Idle /\ Caught(r.step) = "idle"
               \/ n \in Good /\ Same(r, n) /\ n.step = Caught(r.step)

LEMMA RaiseFails ==
  ASSUME TypeInv, NEW h \in Handlers, req[h] # Idle, Raise(h)
  PROVE  \E n : Turns(h, n) /\ Fails(req[h], n)
<1> DEFINE r == req[h]
<1>1. r \in Good
  BY BusyGood
<1>2. CASE Caught(r.step) = "idle"
  BY <1>2, Raises, GoesOn DEF Fails
<1>3. CASE Caught(r.step) # "idle"
  <2> DEFINE n == [r EXCEPT !.step = Caught(r.step)]
  <2>1. Turns(h, n)
    BY <1>3, Raises, GoesOn
  <2>2. n \in Good /\ Same(r, n) /\ n.step = Caught(r.step)
    BY <1>1, <1>3, CaughtGood, StepSame
  <2> HIDE DEF n
  <2> QED
    BY <2>1, <2>2 DEF Fails
<1> QED
  BY <1>2, <1>3

LEMMA GotoFollows ==
  ASSUME TypeInv, NEW h \in Handlers, req[h] # Idle,
         NEW step \in Follow(req[h]), Goto(h, step)
  PROVE  \E n : Turns(h, n) /\ Follows(req[h], n)
<1> DEFINE r == req[h]
           n == [r EXCEPT !.step = step]
<1>1. r \in Good
  BY BusyGood
<1>2. Turns(h, n)
  BY GoesOn
<1>3. n \in Good /\ Same(r, n) /\ n.step = step
  BY <1>1, FollowGood, StepGood, StepSame
<1> HIDE DEF n
<1> QED
  BY <1>2, <1>3 DEF Follows

\* What is left to be done changes with the step.
LEMMA WorkFollows ==
  ASSUME NEW r \in Good, NEW n \in Request, Same(r, n), n.run = r.run,
         n.step \in Follow(r)
  PROVE  Follows(r, n)
<1>1. /\ n.step \in StepsOf(r.op) /\ n.step \notin {"addBundle", "checkKey"}
      /\ n.step = "storeKey" => n.key # NoKey
  BY FollowGood DEF Same
<1> QED
  BY <1>1 DEF Good, Known, Same, Follows

\* Steps that read, or take one thing off the list of what is left.
LEMMA WorkSteps ==
  ASSUME TypeInv, NEW h \in Handlers,
         \/ ListBundles(h) \/ ListItems(h) \/ DeleteItem(h) \/ ReadInventory(h)
         \/ Placeholder(h) \/ Estimate(h) \/ WritePrice(h)
  PROVE  \E n : Turns(h, n) /\ (Follows(req[h], n) \/ Fails(req[h], n))
<1> DEFINE r == req[h]
<1>0. r # Idle
  BY DEF At, ListBundles, ListItems, DeleteItem, ReadInventory, Placeholder,
         Estimate, WritePrice, Update
<1>1. /\ r \in Good /\ r \in Request /\ Known(r) /\ bundles \subseteq BundleIds
      /\ items \subseteq ItemDocs
  BY <1>0, BusyGood DEF TypeInv, TypeOK
<1> SUFFICES ASSUME ~Raise(h)
             PROVE  \E n \in Request : /\ Turns(h, n) /\ Same(r, n) /\ n.run = r.run
                                       /\ n.step \in Follow(r)
  BY <1>0, <1>1, RaiseFails, WorkFollows
<1>2. CASE ListBundles(h)
  <2> DEFINE rest == IF r.op = "retry" /\ ~Exists THEN {} ELSE bundles
             s == IF rest = {} THEN Cleared(r.op) ELSE "listItems"
             n == [r EXCEPT !.rest = rest, !.step = s]
  <2>1. Turns(h, n) /\ r.step = "listBundles"
    BY <1>0, <1>2 DEF ListBundles, Turns, TypeInv, TypeOK, At
  <2>2. s \in Follow(r) /\ s \in Steps
    BY <2>1 DEF Follow, Cleared, Steps, RunSteps
  <2>3. rest \subseteq BundleIds
    BY <1>1
  <2> HIDE DEF s, rest
  <2>4. n \in Request /\ Same(r, n) /\ n.run = r.run /\ n.step = s
    BY <1>1, <2>2, <2>3 DEF Request, Same
  <2> HIDE DEF n
  <2> QED
    BY <2>1, <2>2, <2>4
<1>3. CASE ListItems(h)
  <2>0. PICK b \in r.rest :
          LET found == {d \in items : d.bundle = b}
          IN req' = [req EXCEPT
               ![h].bundle = b, ![h].rest = r.rest \ {b}, ![h].todo = found,
               ![h].step = IF found = {} THEN "deleteBundle" ELSE "deleteItem"]
    BY <1>3 DEF ListItems
  <2> DEFINE found == {d \in items : d.bundle = b}
             s == IF found = {} THEN "deleteBundle" ELSE "deleteItem"
             n == [r EXCEPT !.bundle = b, !.rest = r.rest \ {b}, !.todo = found,
                            !.step = s]
  <2>1. Turns(h, n) /\ r.step = "listItems"
    BY <1>0, <1>3, <2>0 DEF ListItems, Turns, TypeInv, TypeOK, At
  <2>2. s \in Follow(r) /\ s \in Steps
    BY <2>1 DEF Follow, Steps
  <2>3. b \in BundleIds /\ found \subseteq ItemDocs
    BY <1>1 DEF Request
  <2> HIDE DEF s, found
  <2>4. n \in Request /\ Same(r, n) /\ n.run = r.run /\ n.step = s
    BY <1>1, <2>2, <2>3 DEF Request, Same
  <2> HIDE DEF n
  <2> QED
    BY <2>1, <2>2, <2>4
<1>4. CASE DeleteItem(h)
  <2>0. PICK d \in r.todo :
          req' = [req EXCEPT
            ![h].todo = r.todo \ {d},
            ![h].step = IF r.todo = {d} THEN "deleteBundle" ELSE "deleteItem"]
    BY <1>4 DEF DeleteItem
  <2> DEFINE s == IF r.todo = {d} THEN "deleteBundle" ELSE "deleteItem"
             n == [r EXCEPT !.todo = r.todo \ {d}, !.step = s]
  <2>1. Turns(h, n) /\ r.step = "deleteItem"
    BY <1>0, <1>4, <2>0 DEF DeleteItem, Turns, TypeInv, TypeOK, At
  <2>2. s \in Follow(r) /\ s \in Steps
    BY <2>1 DEF Follow, Steps
  <2> HIDE DEF s
  <2>4. n \in Request /\ Same(r, n) /\ n.run = r.run /\ n.step = s
    BY <1>1, <2>2 DEF Request, Same
  <2> HIDE DEF n
  <2> QED
    BY <2>1, <2>2, <2>4
<1>5. CASE ReadInventory(h)
  <2> DEFINE unclear == {d \in Listed : d.photo \in Unclear}
             context == Listed \ unclear
             m == [r EXCEPT !.rest = bundles, !.context = context,
                            !.todo = unclear, !.attempt = 1]
             s == IF unclear = {} THEN Unpriced(m) ELSE "placeholder"
             n == [m EXCEPT !.step = s]
  <2>1. Turns(h, n) /\ r.step = "readInventory"
    BY <1>0, <1>5 DEF ReadInventory, Turns, TypeInv, TypeOK, At
  <2>2. s \in Follow(r) /\ s \in Steps
    BY <2>1 DEF Follow, Steps, PricingSteps, Unpriced
  <2>3. unclear \subseteq ItemDocs /\ context \subseteq ItemDocs /\ 1 \in 0..MaxAttempts
    BY <1>1 DEF Listed
  <2> HIDE DEF s, unclear, context
  <2>4. n \in Request /\ Same(r, n) /\ n.run = r.run /\ n.step = s
    BY <1>1, <2>2, <2>3 DEF Request, Same
  <2> HIDE DEF n
  <2> QED
    BY <2>1, <2>2, <2>4
<1>6. CASE Placeholder(h) \/ WritePrice(h)
  <2>0. PICK step \in {"placeholder", "writePrice"}, next \in {"estimate", "recalculate"} :
          Update(h, step, next)
    BY <1>6 DEF Placeholder, WritePrice, Unpriced
  <2>1. PICK d \in r.todo :
          req' = [req EXCEPT ![h].todo = r.todo \ {d},
                             ![h].step = IF r.todo = {d} THEN next ELSE step]
    BY <2>0 DEF Update
  <2> DEFINE s == IF r.todo = {d} THEN next ELSE step
             n == [r EXCEPT !.todo = r.todo \ {d}, !.step = s]
  <2>2. Turns(h, n) /\ r.step = step
    BY <1>0, <2>0, <2>1 DEF Update, Turns, TypeInv, TypeOK, At
  <2>3. s \in Follow(r) /\ s \in Steps
    BY <2>2 DEF Follow, Steps, PricingSteps
  <2> HIDE DEF s
  <2>4. n \in Request /\ Same(r, n) /\ n.run = r.run /\ n.step = s
    BY <1>1, <2>3 DEF Request, Same
  <2> HIDE DEF n
  <2> QED
    BY <2>2, <2>3, <2>4
<1>7. CASE Estimate(h)
  <2>0. r.step = "estimate"
    BY <1>7 DEF Estimate, At
  <2>1. CASE \E priced \in SUBSET r.context :
               req' = [req EXCEPT
                 ![h].todo = priced,
                 ![h].step = IF priced = {} THEN "recalculate" ELSE "writePrice"]
    <3>0. PICK priced \in SUBSET r.context :
               req' = [req EXCEPT
                 ![h].todo = priced,
                 ![h].step = IF priced = {} THEN "recalculate" ELSE "writePrice"]
      BY <2>1
    <3> DEFINE s == IF priced = {} THEN "recalculate" ELSE "writePrice"
               n == [r EXCEPT !.todo = priced, !.step = s]
    <3>1. Turns(h, n)
      BY <1>0, <3>0 DEF Turns, TypeInv, TypeOK
    <3>2. s \in Follow(r) /\ s \in Steps
      BY <2>0 DEF Follow, Steps, PricingSteps
    <3>3. priced \subseteq ItemDocs
      BY <1>1 DEF Request
    <3> HIDE DEF s
    <3>4. n \in Request /\ Same(r, n) /\ n.run = r.run /\ n.step = s
      BY <1>1, <3>2, <3>3 DEF Request, Same
    <3> HIDE DEF n
    <3> QED
      BY <3>1, <3>2, <3>4
  <2>2. CASE r.attempt < MaxAttempts /\ req' = [req EXCEPT ![h].attempt = @ + 1]
    <3> DEFINE n == [r EXCEPT !.attempt = @ + 1]
    <3>1. Turns(h, n)
      BY <1>0, <2>2 DEF Turns, TypeInv, TypeOK
    <3>2. r.attempt \in 0..MaxAttempts /\ r.attempt + 1 \in 0..MaxAttempts
      BY <1>1, <2>2 DEF Request
    <3>3. n \in Request /\ Same(r, n) /\ n.run = r.run /\ n.step = r.step
      BY <1>1, <3>2 DEF Request, Same
    <3> HIDE DEF n
    <3> QED
      BY <2>0, <3>1, <3>3 DEF Follow
  <2> QED
    BY <1>7, <2>1, <2>2 DEF Estimate
<1> QED
  BY <1>2, <1>3, <1>4, <1>5, <1>6, <1>7

\* Steps that only move on, whatever document they write.
Control(h) ==
  \/ CheckKey(h) \/ StoreInput(h) \/ StoreKey(h) \/ SetStatus(h)
  \/ DeleteBundle(h) \/ DeleteSale(h) \/ Ready(h) \/ Price(h) \/ Recalculate(h)
  \/ Finish(h) \/ WriteMetadata(h) \/ SetFailed(h) \/ Fail(h) \/ Crash(h)

LEMMA ControlSteps ==
  ASSUME TypeInv, NEW h \in Handlers, Control(h)
  PROVE  /\ req[h] # Idle
         /\ \E n : Turns(h, n) /\ (Follows(req[h], n) \/ Fails(req[h], n) \/ n = Idle)
<1> DEFINE r == req[h]
<1>0. r # Idle
  BY DEF Control, At, CheckKey, StoreInput, StoreKey, SetStatus, DeleteBundle,
         DeleteSale, Ready, Price, Recalculate, Finish, WriteMetadata, SetFailed,
         Fail, Crash, Transition
<1> SUFFICES \/ Raise(h) \/ End(h)
             \/ \E step \in Follow(r) : Goto(h, step)
  BY <1>0, RaiseFails, GotoFollows, GoesOn
<1>1. CASE CheckKey(h) \/ StoreInput(h) \/ StoreKey(h) \/ DeleteBundle(h)
  BY <1>1 DEF CheckKey, StoreInput, StoreKey, DeleteBundle, At, Follow
<1>2. CASE SetStatus(h) \/ DeleteSale(h) \/ WriteMetadata(h) \/ Fail(h) \/ Crash(h)
  BY <1>2 DEF SetStatus, DeleteSale, WriteMetadata, Fail, Crash
<1>3. CASE Ready(h) \/ Price(h) \/ Recalculate(h) \/ Finish(h) \/ SetFailed(h)
  BY <1>3 DEF Ready, Price, Recalculate, Finish, SetFailed, Transition, At, Follow
<1> QED
  BY <1>1, <1>2, <1>3 DEF Control

\* What begins: a request of the operation, at its first step, with nothing
\* placed.
Begins(r) ==
  /\ r \in Good /\ r.seen = {} /\ r.groups = << >>
  /\ r.step = CASE r.op = "finalize" -> IF r.key = NoKey THEN "storeInput" ELSE "checkKey"
                [] r.op \in {"retry", "delete_sale"} -> "listBundles"
                [] OTHER -> "setStatus"

LEMMA BeginSteps ==
  ASSUME TypeInv, NEW h \in Handlers, BeginRequest(h)
  PROVE  /\ req[h] = Idle /\ Exists /\ runs' \in 0..MaxRuns
         /\ \E r : /\ Turns(h, r) /\ Begins(r)
                   /\ r.op \in RunOps => r.run = runs + 1 /\ runs' = runs + 1
                   /\ r.op = "retry" => sale.status = "failed" /\ r.input = sale.input
                   /\ r.op = "delete_sale" => sale.status \in {"pending_upload", "failed"}
         /\ UNCHANGED <<sale, bundles, items, cached, history>> /\ runs <= runs'
<1> DEFINE First(op, step, key) ==
             step = CASE op = "finalize" -> IF key = NoKey THEN "storeInput" ELSE "checkKey"
                      [] op \in {"retry", "delete_sale"} -> "listBundles"
                      [] OTHER -> "setStatus"
           Begun(op, step, key, input) ==
             /\ key \in Keys \cup {NoKey} /\ input \in SUBSET Photos
             /\ op \in RunOps => input # {}
             /\ op = "retry" => sale.status = "failed" /\ input = sale.input
             /\ op = "delete_sale" => sale.status \in {"pending_upload", "failed"}
             /\ Begin(h, op, step, key, input) /\ First(op, step, key)
<1>0. PICK op, step, key, input : Begun(op, step, key, input)
  <2>1. CASE BeginFinalize(h)
    <3>1. PICK key \in Keys, input \in (SUBSET Photos) \ {{}} :
            Begin(h, "finalize", IF key = NoKey THEN "storeInput" ELSE "checkKey", key, input)
      BY <2>1 DEF BeginFinalize
    <3>2. Begun("finalize", IF key = NoKey THEN "storeInput" ELSE "checkKey", key, input)
      BY <3>1
    <3> QED
      BY <3>2
  <2>2. CASE BeginRetry(h)
    <3>1. Begun("retry", "listBundles", NoKey, sale.input)
      BY <2>2 DEF BeginRetry, TypeInv, TypeOK
    <3> QED
      BY <3>1
  <2>3. CASE BeginDelete(h)
    <3>1. Begun("delete_sale", "listBundles", NoKey, {})
      BY <2>3 DEF BeginDelete, RunOps
    <3> QED
      BY <3>1
  <2>4. CASE BeginStatusOp(h)
    <3>1. \/ Begun("publish_sale", "setStatus", NoKey, {})
          \/ Begun("archive_sale", "setStatus", NoKey, {})
      BY <2>4 DEF BeginStatusOp, RunOps
    <3> QED
      BY <3>1
  <2> QED
    BY <2>1, <2>2, <2>3, <2>4 DEF BeginRequest
<1> DEFINE run == IF op \in RunOps THEN runs' ELSE 0
           r == [op |-> op, step |-> step, key |-> key, run |-> run,
                 input |-> input, rest |-> {}, bundle |-> << >>, todo |-> {},
                 groups |-> << >>, grouped |-> FALSE, seen |-> {}, context |-> {},
                 attempt |-> 0]
<1>1. /\ req[h] = Idle /\ Exists /\ Turns(h, r)
      /\ op \in RunOps => runs < MaxRuns
      /\ runs' = IF op \in RunOps THEN runs + 1 ELSE runs
      /\ UNCHANGED <<sale, bundles, items, cached, history>> /\ op \in EnabledOps
  BY <1>0 DEF Begin, Turns
<1>2. /\ runs' \in 0..MaxRuns /\ run \in 0..MaxRuns /\ runs <= runs'
      /\ op \in RunOps => run \in 1..MaxRuns /\ run = runs + 1 /\ runs' = runs + 1
  BY <1>1 DEF TypeInv, TypeOK
<1>3. op \in Ops /\ step \in StepsOf(op) /\ step \in Steps /\ step # "addBundle"
  BY <1>0, <1>1 DEF Ops, StepsOf, KeySteps, ClearSteps, Steps
<1>4. << >> \in Seq(SUBSET Photos) /\ Len(<< >>) = 0
  BY EmptySeq
<1> HIDE DEF run
<1>5. r \in Request
  BY <1>0, <1>2, <1>3, <1>4 DEF Request
<1>6. r \in Good
  BY <1>0, <1>1, <1>2, <1>3, <1>4, <1>5 DEF Good, Known, General
<1>7. Begins(r) /\ r.op = op /\ r.input = input /\ r.key = key /\ r.run = run
  BY <1>0, <1>6 DEF Begins
<1> HIDE DEF r
<1> QED
  BY <1>0, <1>1, <1>2, <1>7

-----------------------------------------------------------------------------
(***************************************************************************)
(* The steps of a run that place its photos in bundles.                    *)
(***************************************************************************)

\* A run places photos of its input, each once: what it still has to write, it
\* has not placed, and before it starts it has placed nothing.
Placing(r) ==
  /\ r.seen \subseteq r.input /\ r.groups \in Seq(SUBSET r.input)
  /\ r.step \in KeySteps \cup ClearSteps \cup {"start"} => r.seen = {}
  /\ r.step \in {"addBundle", "addItem"} =>
       \E photos \in SUBSET (r.input \ r.seen) :
         r.todo = [bundle : {r.bundle}, photo : photos]

\* n goes on with the photos of r.
Placed(r, n) ==
  /\ n \in Good /\ n.op = r.op /\ n.input = r.input
  /\ n.step \in {"refine", "addBundle", "addItem", "ready"}
  /\ n.step = "ready" => r.input \subseteq n.seen

LEMMA NextPlaced ==
  ASSUME NEW r \in Good, r.op \in RunOps, r.step \in TaskSteps,
         r.seen \subseteq r.input, r.groups \in Seq(SUBSET r.input)
  PROVE  LET n == NextBundle(r)
         IN Placed(r, n) /\ Placing(n) /\ n.seen = r.seen
<1> DEFINE n == NextBundle(r)
<1>1. /\ n \in Good /\ n.op = r.op /\ n.input = r.input /\ n.seen = r.seen
      /\ n.step \in {"refine", "addBundle", "ready"}
      /\ n.groups \in Seq(SUBSET r.input)
      /\ n.step = "addBundle" =>
           \E photos \in SUBSET (r.input \ r.seen) :
             n.todo = [bundle : {n.bundle}, photo : photos]
      /\ n.step = "ready" => r.input \subseteq r.seen
  <2>1. r.input \in SUBSET Photos
    BY DEF Good, Request
  <2> QED
    BY <2>1, NextGood
<1> HIDE DEF n
<1>2. Placed(r, n) /\ Placing(n)
  BY <1>1 DEF Placed, Placing, KeySteps, ClearSteps
<1> QED
  BY <1>1, <1>2 DEF n

LEMMA NextStep ==
  ASSUME NEW r \in Good
  PROVE  NextBundle(r).step # "addItem"
<1>1. \A m \in Request : \A s : [m EXCEPT !.step = s].step = s
  BY DEF Request
<1>2. r \in Request /\ [r EXCEPT !.groups = Tail(@)].step = r.step
  BY DEF Good, Request
<1> QED
  BY <1>1, <1>2 DEF NextBundle, Place, Good, Request

\* An item is its bundle and its photo.
LEMMA ItemIs ==
  \A c, d \in ItemDocs : c.bundle = d.bundle /\ c.photo = d.photo => c = d
BY DEF ItemDocs

LEMMA StartPlaces ==
  ASSUME TypeInv, NEW h \in Handlers, Start(h), Placing(req[h])
  PROVE  \/ /\ Exists /\ sale' = [sale EXCEPT !.status = "processing"]
            /\ \E n : /\ Turns(h, n) /\ Placed(req[h], n) /\ Placing(n)
                      /\ n.seen = req[h].seen /\ n.step # "addItem"
         \/ ~Exists /\ UNCHANGED sale /\ Raise(h)
<1> DEFINE r == req[h]
           unclear == r.input \cap Unclear
<1>0. r # Idle /\ r.step = "start"
  BY DEF Start, At
<1>1. r \in Good /\ r \in Request /\ r.op \in RunOps /\ r.step \in TaskSteps
  BY <1>0, BusyGood, TaskOps DEF TaskSteps, RunSteps
<1>2. CASE Exists /\ unclear # {}
  <2> DEFINE n == Place(r, NeedsReview, unclear)
  <2>1. NeedsReview \in NeedsReview..General /\ unclear \in SUBSET Photos
    BY DEF NeedsReview, General
  <2>2. /\ n \in Good /\ n.step = "addBundle" /\ n.op = r.op /\ n.input = r.input
        /\ n.seen = r.seen /\ n.groups = r.groups
        /\ n.todo = [bundle : {n.bundle}, photo : unclear]
    <3> HIDE DEF unclear, r
    <3> QED
      BY <1>1, <2>1, PlaceGood
  <2>3. Turns(h, n) /\ sale' = [sale EXCEPT !.status = "processing"]
    BY <1>2 DEF Start, Turns
  <2> HIDE DEF n
  <2>4. Placed(r, n) /\ Placing(n)
    BY <1>0, <2>2 DEF Placed, Placing, KeySteps, ClearSteps
  <2> QED
    BY <1>2, <2>2, <2>3, <2>4
<1>3. CASE Exists /\ unclear = {}
  <2>1. /\ Turns(h, NextBundle(r)) /\ sale' = [sale EXCEPT !.status = "processing"]
    BY <1>3 DEF Start, Turns
  <2>2. /\ Placed(r, NextBundle(r)) /\ Placing(NextBundle(r))
        /\ NextBundle(r).seen = r.seen /\ NextBundle(r).step # "addItem"
    BY <1>1, NextPlaced, NextStep DEF Placing
  <2> QED
    BY <1>3, <2>1, <2>2
<1>4. CASE ~Exists
  BY <1>4 DEF Start
<1> QED
  BY <1>2, <1>3, <1>4

LEMMA AddBundlePlaces ==
  ASSUME TypeInv, NEW h \in Handlers, AddBundle(h), Placing(req[h])
  PROVE  /\ req[h].bundle \in BundleIds
         /\ \E n : /\ Turns(h, n) /\ Placed(req[h], n) /\ Placing(n)
                   /\ n.seen = req[h].seen
                   /\ n.step = "addItem" => n.bundle = req[h].bundle /\ n.todo # {}
<1> DEFINE r == req[h]
<1>0. r # Idle /\ r.step = "addBundle"
  BY DEF AddBundle, At
<1>1. r \in Good /\ r \in Request /\ r.op \in RunOps /\ r.step \in TaskSteps
      /\ TaskSteps \subseteq StepsOf(r.op)
  BY <1>0, BusyGood, TaskOps DEF TaskSteps, RunSteps
<1>2. r.bundle \in BundleIds
  BY <1>0, <1>1 DEF Good, Known
<1>3. CASE r.todo = {}
  <2>1. Turns(h, NextBundle(r))
    BY <1>3 DEF AddBundle, Turns
  <2>2. /\ Placed(r, NextBundle(r)) /\ Placing(NextBundle(r))
        /\ NextBundle(r).seen = r.seen
    BY <1>1, NextPlaced DEF Placing
  <2>3. NextBundle(r).step # "addItem"
    BY <1>1, NextStep
  <2> QED
    BY <1>2, <2>1, <2>2, <2>3
<1>4. CASE r.todo # {}
  <2> DEFINE n == [r EXCEPT !.step = "addItem"]
  <2>1. Turns(h, n)
    BY <1>4 DEF AddBundle, Turns
  <2>2. n \in Good
    BY <1>1, StepGood DEF TaskSteps, RunSteps
  <2>3. /\ n.step = "addItem" /\ Same(r, n) /\ n.bundle = r.bundle /\ n.todo = r.todo
    BY <1>1 DEF Request, Same
  <2> HIDE DEF n
  <2>4. Placed(r, n) /\ Placing(n) /\ n.seen = r.seen
    BY <1>0, <2>2, <2>3 DEF Placed, Placing, Same, KeySteps, ClearSteps
  <2> QED
    BY <1>2, <1>4, <2>1, <2>3, <2>4
<1> QED
  BY <1>3, <1>4

LEMMA AddItemPlaces ==
  ASSUME TypeInv, NEW h \in Handlers, AddItem(h), Placing(req[h])
  PROVE  \E d \in ItemDocs : \E n :
           /\ d \in req[h].todo /\ d.bundle = req[h].bundle
           /\ d.photo \in req[h].input \ req[h].seen
           /\ items' = items \cup {d}
           /\ Turns(h, n) /\ Placed(req[h], n) /\ Placing(n)
           /\ n.seen = req[h].seen \cup {d.photo}
           /\ n.step = "addItem" => n.bundle = req[h].bundle /\ n.todo # {}
<1> DEFINE r == req[h]
<1>0. r # Idle /\ r.step = "addItem"
  BY DEF AddItem, At
<1>1. r \in Good /\ r \in Request /\ r.op \in RunOps /\ r.step \in TaskSteps
  BY <1>0, BusyGood, TaskOps DEF TaskSteps, RunSteps
<1>2. PICK d \in r.todo :
        LET n == [r EXCEPT !.todo = @ \ {d}, !.seen = @ \cup {d.photo}]
        IN /\ items' = items \cup {d}
           /\ req' = [req EXCEPT ![h] = IF n.todo = {} THEN NextBundle(n) ELSE n]
  BY DEF AddItem
<1>3. PICK photos \in SUBSET (r.input \ r.seen) : r.todo = [bundle : {r.bundle}, photo : photos]
  BY <1>0 DEF Placing
<1>4. d \in ItemDocs /\ d.bundle = r.bundle /\ d.photo \in photos
  <2>1. d \in ItemDocs
    BY <1>1, <1>2 DEF Request
  <2>2. d \in [bundle : {r.bundle}, photo : photos]
    BY <1>2, <1>3
  <2> QED
    BY <2>1, <2>2
<1> DEFINE seen == r.seen \cup {d.photo}
           todo == r.todo \ {d}
           n == [r EXCEPT !.todo = todo, !.seen = seen]
<1>5. seen \subseteq r.input /\ todo \subseteq ItemDocs
  BY <1>1, <1>4 DEF Request, Placing
<1> HIDE DEF seen, todo
<1>6. /\ n \in Request /\ n.seen = seen /\ n.todo = todo /\ n.op = r.op
      /\ n.step = "addItem" /\ n.input = r.input /\ n.groups = r.groups
      /\ n.bundle = r.bundle /\ n.run = r.run
  BY <1>0, <1>1, <1>5 DEF Request
<1>7. n \in Good
  BY <1>0, <1>1, <1>6 DEF Good, Known
<1>8. req' = [req EXCEPT ![h] = IF todo = {} THEN NextBundle(n) ELSE n]
  <2>1. n = [r EXCEPT !.todo = @ \ {d}, !.seen = @ \cup {d.photo}]
    BY DEF seen, todo
  <2> HIDE DEF n
  <2> QED
    BY <1>2, <1>6, <2>1
<1> HIDE DEF n
<1>9. todo = [bundle : {n.bundle}, photo : photos \ {d.photo}]
  <2>1. \A e \in [bundle : {r.bundle}, photo : photos] :
          e # d <=> e \in [bundle : {r.bundle}, photo : photos \ {d.photo}]
    <3>1. TAKE e \in [bundle : {r.bundle}, photo : photos]
    <3>2. e \in ItemDocs
      BY <1>1, <1>3, <3>1 DEF Request
    <3>3. e # d <=> e.photo # d.photo
      BY <1>4, <3>1, <3>2, ItemIs
    <3> QED
      BY <3>1, <3>3
  <2>2. [bundle : {r.bundle}, photo : photos \ {d.photo}]
          \subseteq [bundle : {r.bundle}, photo : photos]
    OBVIOUS
  <2> QED
    BY <1>3, <1>6, <2>1, <2>2 DEF todo
<1>10. photos \ {d.photo} \in SUBSET (r.input \ seen)
  BY DEF seen
<1>11. CASE todo = {}
  <2>1. /\ Placed(n, NextBundle(n)) /\ Placing(NextBundle(n))
        /\ NextBundle(n).seen = seen
    BY <1>1, <1>5, <1>6, <1>7, NextPlaced DEF Placing, TaskSteps, RunSteps
  <2>2. NextBundle(n).step # "addItem"
    BY <1>7, NextStep
  <2>3. Placed(r, NextBundle(n)) /\ Turns(h, NextBundle(n))
    BY <1>6, <1>8, <1>11, <2>1 DEF Placed, Turns
  <2> QED
    BY <1>2, <1>4, <2>1, <2>2, <2>3 DEF seen
<1>12. CASE todo # {}
  <2>1. Turns(h, n)
    BY <1>8, <1>12 DEF Turns
  <2>2. Placed(r, n) /\ Placing(n)
    BY <1>5, <1>6, <1>7, <1>9, <1>10 DEF Placed, Placing, KeySteps, ClearSteps
  <2> QED
    BY <1>2, <1>4, <1>6, <1>12, <2>1, <2>2 DEF seen
<1> QED
  BY <1>11, <1>12

LEMMA RefinePlaces ==
  ASSUME TypeInv, NEW h \in Handlers, Refine(h), Placing(req[h])
  PROVE  \/ \E n : /\ Turns(h, n) /\ Placed(req[h], n) /\ Placing(n)
                   /\ n.seen = req[h].seen /\ n.step # "addItem"
         \/ Raise(h)
<1> DEFINE r == req[h]
           clear == r.input \ Unclear
<1>0. r # Idle /\ r.step = "refine"
  BY DEF Refine, At
<1>1. r \in Good /\ r \in Request /\ r.op \in RunOps /\ r.step \in TaskSteps
  BY <1>0, BusyGood, TaskOps DEF TaskSteps, RunSteps
<1> SUFFICES ASSUME ~Raise(h)
             PROVE  \E n : /\ Turns(h, n) /\ Placed(r, n) /\ Placing(n)
                           /\ n.seen = r.seen /\ n.step # "addItem"
  OBVIOUS
<1>2. PICK answer \in Groupings(clear) \cup {<<clear>>} :
        req' = [req EXCEPT
          ![h] = NextBundle([r EXCEPT !.grouped = TRUE, !.groups = answer])]
  BY DEF Refine
<1>3. answer \in Seq(SUBSET clear) /\ Len(answer) <= General
  <2>1. CASE answer \in Groupings(clear)
    <3>1. PICK k \in 0..MaxGroups : answer \in [1..k -> SUBSET clear]
      BY <2>1 DEF Groupings
    <3> QED
      BY <3>1 DEF General
  <2>2. CASE answer = <<clear>>
    <3>1. <<clear>> \in Seq(SUBSET clear) /\ Len(<<clear>>) = 1
      OBVIOUS
    <3> QED
      BY <2>2, <3>1 DEF General
  <2> QED
    BY <1>2, <2>1, <2>2
<1>4. answer \in Seq(SUBSET r.input) /\ answer \in Seq(SUBSET Photos)
  <2>1. clear \subseteq r.input /\ r.input \subseteq Photos
    BY <1>1 DEF Request
  <2> QED
    BY <1>3, <2>1, SeqMonotonic
<1> DEFINE n == [r EXCEPT !.grouped = TRUE, !.groups = answer]
<1>5. /\ n \in Request /\ n.seen = r.seen /\ n.op = r.op /\ n.step = "refine"
      /\ n.input = r.input /\ n.groups = answer /\ n.bundle = r.bundle /\ n.run = r.run
  BY <1>0, <1>1, <1>4 DEF Request
<1> HIDE DEF n
<1>6. n \in Good
  BY <1>0, <1>1, <1>3, <1>5 DEF Good, Known
<1>7. /\ Placed(n, NextBundle(n)) /\ Placing(NextBundle(n))
      /\ NextBundle(n).seen = r.seen /\ NextBundle(n).step # "addItem"
  BY <1>0, <1>1, <1>4, <1>5, <1>6, NextPlaced, NextStep DEF Placing, TaskSteps, RunSteps
<1>8. Placed(r, NextBundle(n)) /\ Turns(h, NextBundle(n))
  BY <1>2, <1>5, <1>7 DEF Placed, Turns, n
<1> QED
  BY <1>7, <1>8
-----------------------------------------------------------------------------
(***************************************************************************)
(* Type correctness, for any number of overlapping requests.               *)
(***************************************************************************)
PipeInv == TypeInv /\ \A h \in Busy : Placing(req[h])

Step(h) == BeginRequest(h) \/ Proceed(h) \/ Fail(h) \/ Crash(h)

Work(h) ==
  \/ ListBundles(h) \/ ListItems(h) \/ DeleteItem(h) \/ ReadInventory(h)
  \/ Placeholder(h) \/ Estimate(h) \/ WritePrice(h)

PlaceStep(h) == Start(h) \/ AddBundle(h) \/ AddItem(h) \/ Refine(h)

LEMMA StepCases ==
  ASSUME NEW h \in Handlers, Step(h)
  PROVE  BeginRequest(h) \/ Control(h) \/ Work(h) \/ PlaceStep(h)
BY DEF Step, Proceed, Control, Work, PlaceStep

\* A request that moves on, or raises, has placed what it had placed.
LEMMA MovesOn ==
  ASSUME NEW r \in Good, Placing(r), NEW n, Follows(r, n) \/ Fails(r, n) \/ n = Idle
  PROVE  n = Idle \/ (n \in Good /\ Placing(n) /\ Same(r, n))
<1>1. r.step \in Steps
  BY DEF Good, Request
<1>2. CASE Follows(r, n)
  <2>1. n.step \notin {"addBundle", "addItem"}
    BY <1>2, FollowGood DEF Follows
  <2>2. n.step \in KeySteps \cup ClearSteps \cup {"start"} =>
          r.step \in KeySteps \cup ClearSteps \cup {"start"}
    BY <1>1, <1>2 DEF Follows, Follow, KeySteps, ClearSteps, Steps, RunSteps, PricingSteps,
                      Cleared
  <2> QED
    BY <1>2, <2>1, <2>2 DEF Follows, Placing, Same
<1>3. CASE Fails(r, n) /\ n # Idle
  <2>1. n \in Good /\ Same(r, n) /\ n.step = Caught(r.step)
    BY <1>3 DEF Fails
  <2>2. n.step \notin {"addBundle", "addItem"}
    BY <1>1, <2>1 DEF Caught, Steps, RunSteps, PricingSteps
  <2>3. n.step \in KeySteps \cup ClearSteps \cup {"start"} =>
          r.step \in KeySteps \cup ClearSteps \cup {"start"}
    BY <1>1, <2>1 DEF Caught, KeySteps, ClearSteps, Steps, RunSteps, PricingSteps
  <2> QED
    BY <2>1, <2>2, <2>3 DEF Placing, Same
<1> QED
  BY <1>2, <1>3

\* What a step makes of its request.
LEMMA StepTurns ==
  ASSUME PipeInv, NEW h \in Handlers, Step(h)
  PROVE  \E n : Turns(h, n) /\ (n = Idle \/ (n \in Good /\ Placing(n)))
<1>1. CASE BeginRequest(h)
  <2>1. PICK n : Turns(h, n) /\ Begins(n)
    BY <1>1, BeginSteps DEF PipeInv
  <2>2. n \in Good /\ Placing(n)
    <3>1. << >> \in Seq(SUBSET n.input)
      BY EmptySeq
    <3>2. n.step \notin {"addBundle", "addItem"}
      BY <2>1 DEF Begins
    <3> QED
      BY <2>1, <3>1, <3>2 DEF Begins, Placing
  <2> QED
    BY <2>1, <2>2
<1> SUFFICES ASSUME ~BeginRequest(h)
             PROVE  \E n : Turns(h, n) /\ (n = Idle \/ (n \in Good /\ Placing(n)))
  BY <1>1
<1>0. req[h] # Idle
  BY StepCases, ControlSteps
     DEF PipeInv, Work, PlaceStep, At, ListBundles, ListItems, DeleteItem, ReadInventory,
         Placeholder, Estimate, WritePrice, Update, Start, AddBundle, AddItem, Refine
<1>2. req[h] \in Good /\ Placing(req[h]) /\ TypeInv
  BY <1>0, BusyGood DEF PipeInv
<1>3. CASE Control(h) \/ Work(h) \/ Raise(h)
  <2>1. PICK n : Turns(h, n) /\ (Follows(req[h], n) \/ Fails(req[h], n) \/ n = Idle)
    BY <1>0, <1>2, <1>3, ControlSteps, WorkSteps, RaiseFails DEF Work
  <2> QED
    BY <1>2, <2>1, MovesOn
<1>4. CASE PlaceStep(h) /\ ~Raise(h)
  BY <1>2, <1>4, StartPlaces, AddBundlePlaces, AddItemPlaces, RefinePlaces
     DEF PlaceStep, Placed
<1> QED
  BY <1>3, <1>4, StepCases

\* What a step writes into the sale document.
Writes(r) ==
  CASE r.step = "setStatus" -> {"live", "archived"}
    [] r.step = "start" -> {"processing"}
    [] r.step \in {"ready", "finish"} -> {"ready_for_review"}
    [] r.step = "price" -> {"pricing_in_progress"}
    [] r.step \in {"fail", "failPricing"} -> {"failed"}
    [] OTHER -> {}

LEMMA SaleSteps ==
  ASSUME TypeInv, NEW h \in Handlers, Step(h)
  PROVE  \/ UNCHANGED sale
         \/ Exists /\ \E s \in Writes(req[h]) : sale' = [sale EXCEPT !.status = s]
         \/ /\ Exists /\ req[h].step = "storeInput"
            /\ sale' = [sale EXCEPT !.input = req[h].input]
         \/ /\ req[h].step = "deleteSale"
            /\ sale' = [status |-> Absent, input |-> {}]
<1>1. CASE BeginRequest(h)
  BY <1>1, BeginSteps
<1>2. CASE StoreInput(h) \/ DeleteSale(h)
  BY <1>2 DEF StoreInput, DeleteSale, At
<1>3. CASE SetStatus(h) \/ Start(h) \/ Ready(h) \/ Price(h) \/ Finish(h) \/ SetFailed(h)
  BY <1>3 DEF SetStatus, Start, Ready, Price, Finish, SetFailed, Transition, At, Writes
<1>4. CASE \/ CheckKey(h) \/ StoreKey(h) \/ DeleteBundle(h) \/ Recalculate(h)
           \/ WriteMetadata(h) \/ Fail(h) \/ Crash(h) \/ AddBundle(h) \/ AddItem(h)
           \/ Refine(h)
  BY <1>4 DEF CheckKey, StoreKey, DeleteBundle, Recalculate, WriteMetadata, Fail, Crash,
              AddBundle, AddItem, Refine
<1>5. CASE Work(h)
  BY <1>5 DEF Work, ListBundles, ListItems, DeleteItem, ReadInventory, Placeholder,
              Estimate, WritePrice, Update
<1> QED
  BY <1>1, <1>2, <1>3, <1>4, <1>5, StepCases DEF Control, PlaceStep

\* What a step writes into the other documents.
LEMMA OtherSteps ==
  ASSUME PipeInv, NEW h \in Handlers, Step(h)
  PROVE  /\ \/ bundles' \subseteq bundles
            \/ AddBundle(h) /\ bundles' = bundles \cup {req[h].bundle}
         /\ \/ items' \subseteq items
            \/ AddItem(h) /\ \E d \in ItemDocs : items' = items \cup {d}
         /\ cached' = cached \/ (StoreKey(h) /\ cached' = cached \cup {req[h].key})
         /\ runs' = runs \/ (BeginRequest(h) /\ runs' \in 0..MaxRuns)
<1>1. CASE BeginRequest(h)
  BY <1>1, BeginSteps DEF PipeInv
<1>2. CASE Control(h)
  BY <1>2 DEF Control, CheckKey, StoreInput, StoreKey, SetStatus, DeleteBundle, DeleteSale,
              Ready, Price, Recalculate, Finish, WriteMetadata, SetFailed, Fail, Crash,
              Transition
<1>3. CASE Work(h)
  BY <1>3 DEF Work, ListBundles, ListItems, DeleteItem, ReadInventory, Placeholder,
              Estimate, WritePrice, Update
<1>4. CASE Start(h) \/ AddBundle(h) \/ Refine(h)
  BY <1>4 DEF Start, AddBundle, Refine
<1>5. CASE AddItem(h)
  <2>1. req[h] # Idle
    BY <1>5 DEF AddItem, At
  <2>2. \E d \in ItemDocs : items' = items \cup {d}
    BY <1>5, <2>1, BusyGood, AddItemPlaces DEF PipeInv
  <2> QED
    BY <1>5, <2>2 DEF AddItem
<1> QED
  BY <1>1, <1>2, <1>3, <1>4, <1>5, StepCases DEF PlaceStep

\* The run a request stands for.
Ran(r) == [op |-> r.op, key |-> r.key, run |-> r.run]

\* What a step adds to the history.
LEMMA HistorySteps ==
  ASSUME TypeInv, NEW h \in Handlers, Step(h)
  PROVE  \/ UNCHANGED history
         \/ Fail(h)
         \/ /\ Start(h) /\ Exists /\ lost' = lost
            /\ started' = started \cup {Ran(req[h])} /\ taken' = req[h].input
<1>1. CASE BeginRequest(h)
  BY <1>1, BeginSteps
<1>2. CASE Control(h) /\ ~Fail(h)
  BY <1>2 DEF Control, CheckKey, StoreInput, StoreKey, SetStatus, DeleteBundle, DeleteSale,
              Ready, Price, Recalculate, Finish, WriteMetadata, SetFailed, Crash, Transition
<1>3. CASE Work(h)
  BY <1>3 DEF Work, ListBundles, ListItems, DeleteItem, ReadInventory, Placeholder,
              Estimate, WritePrice, Update
<1>4. CASE AddBundle(h) \/ AddItem(h) \/ Refine(h)
  BY <1>4 DEF AddBundle, AddItem, Refine
<1>5. CASE Start(h)
  BY <1>5 DEF Start, Ran, history
<1> QED
  BY <1>1, <1>2, <1>3, <1>4, <1>5, StepCases DEF PlaceStep

\* What a failure adds: the key of a look-up, or of a store, that failed.
LEMMA FailLoses ==
  ASSUME NEW h \in Handlers, Fail(h)
  PROVE  /\ req[h] # Idle /\ Raise(h)
         /\ UNCHANGED <<sale, bundles, items, cached, runs, started, taken>>
         /\ lost \subseteq lost' /\ lost' \subseteq lost \cup {req[h].key}
         /\ req[h].step = "checkKey" /\ req[h].key \in cached => req[h].key \in lost'
         /\ req[h].step = "storeKey" => req[h].key \in lost'
BY DEF Fail

LEMMA PipeInit == Init => PipeInv
<1> SUFFICES ASSUME Init PROVE PipeInv
  OBVIOUS
<1>1. Busy = {} /\ req \in [Handlers -> {Idle} \cup Request]
  BY DEF Init, Busy
<1>2. sale \in [status : SaleStatuses \cup {Absent}, input : SUBSET Photos]
  BY DEF Init, SaleStatuses
<1>3. bundles \subseteq BundleIds /\ items \subseteq ItemDocs
  BY DEF Init
<1>4. cached \subseteq Keys \ {NoKey}
  BY DEF Init
<1>5. runs \in 0..MaxRuns /\ lost \subseteq Keys \cup {NoKey} /\ started \subseteq Runs
      /\ taken \subseteq Photos
  BY DEF Init
<1> QED
  BY <1>1, <1>2, <1>3, <1>4, <1>5 DEF PipeInv, TypeInv, TypeOK

LEMMA PipeNext ==
  ASSUME PipeInv, [Next]_vars
  PROVE  PipeInv'
<1>1. CASE UNCHANGED vars
  BY <1>1 DEF vars, history, PipeInv, TypeInv, TypeOK, Busy
<1>2. CASE \E h \in Handlers : Step(h)
  <2>1. PICK h \in Handlers : Step(h)
    BY <1>2
  <2>2. PICK n : Turns(h, n) /\ (n = Idle \/ (n \in Good /\ Placing(n)))
    BY <2>1, StepTurns
  <2>3. /\ req' \in [Handlers -> {Idle} \cup Request]
        /\ \A g \in Handlers :
             req'[g] # Idle => req'[g] \in Good /\ Placing(req'[g])
    <3>1. TypeInv /\ n \in {Idle} \cup Request
      BY <2>2 DEF PipeInv, Good
    <3>2. \A g \in Handlers : req[g] # Idle => req[g] \in Good /\ Placing(req[g])
      BY DEF PipeInv, TypeInv, Busy
    <3> QED
      BY <2>2, <3>1, <3>2, TurnsTo DEF Turns, TypeInv, TypeOK
  <2>4. sale' \in [status : SaleStatuses \cup {Absent}, input : SUBSET Photos]
    <3>1. req[h].step = "storeInput" => req[h].input \in SUBSET Photos
      <4>1. CASE req[h] = Idle
        BY <4>1 DEF Idle
      <4>2. CASE req[h] # Idle
        BY <4>2, BusyGood DEF PipeInv, Request
      <4> QED
        BY <4>1, <4>2
    <3>2. Writes(req[h]) \subseteq SaleStatuses
      BY DEF Writes, SaleStatuses
    <3> QED
      BY <2>1, <3>1, <3>2, SaleSteps DEF PipeInv, TypeInv, TypeOK
  <2>5. /\ bundles' \subseteq BundleIds /\ items' \subseteq ItemDocs
        /\ cached' \subseteq Keys \ {NoKey} /\ runs' \in 0..MaxRuns
    <3>1. AddBundle(h) => req[h].bundle \in BundleIds
      BY AddBundlePlaces, BusyGood DEF PipeInv, AddBundle, At
    <3>2. /\ bundles \subseteq BundleIds /\ items \subseteq ItemDocs
          /\ cached \subseteq Keys \ {NoKey} /\ runs \in 0..MaxRuns
      BY DEF PipeInv, TypeInv, TypeOK
    <3>3. bundles' \subseteq BundleIds
      BY <2>1, <3>1, <3>2, OtherSteps
    <3>4. items' \subseteq ItemDocs
      BY <2>1, <3>2, OtherSteps
    <3>5. cached' \subseteq Keys \ {NoKey}
      <4>1. StoreKey(h) => req[h].key \in Keys \ {NoKey}
        BY BusyGood DEF PipeInv, StoreKey, At, Known, Request
      <4> QED
        BY <2>1, <3>2, <4>1, OtherSteps
    <3>6. runs' \in 0..MaxRuns
      BY <2>1, <3>2, OtherSteps
    <3> QED
      BY <3>3, <3>4, <3>5, <3>6
  <2>6. /\ lost' \subseteq Keys \cup {NoKey} /\ started' \subseteq Runs
        /\ taken' \subseteq Photos
    <3>1. /\ lost \subseteq Keys \cup {NoKey} /\ started \subseteq Runs
          /\ taken \subseteq Photos
      BY DEF PipeInv, TypeInv, TypeOK
    <3>2. CASE Fail(h)
      <4>1. req[h].key \in Keys \cup {NoKey}
        BY <3>2, FailLoses, BusyGood DEF PipeInv, Request
      <4> QED
        BY <3>1, <3>2, <4>1, FailLoses
    <3>3. CASE Start(h) /\ ~Fail(h)
      <4>1. /\ req[h] \in Good /\ req[h] \in Request /\ req[h].op \in RunOps
            /\ req[h].run \in 1..MaxRuns
        BY <3>3, BusyGood, TaskOps DEF PipeInv, Start, At, Known, TaskSteps, RunSteps
      <4>2. Ran(req[h]) \in Runs /\ req[h].input \subseteq Photos
        BY <4>1 DEF Ran, Runs, Request
      <4> QED
        BY <2>1, <3>1, <3>3, <4>2, HistorySteps DEF PipeInv, history
    <3> QED
      BY <2>1, <3>1, <3>2, <3>3, HistorySteps DEF PipeInv, history
  <2> QED
    BY <2>3, <2>4, <2>5, <2>6 DEF PipeInv, TypeInv, TypeOK, Busy
<1>3. CASE \E key \in Keys : Expire(key)
  BY <1>3 DEF Expire, PipeInv, TypeInv, TypeOK, Busy
<1> QED
  BY <1>1, <1>2, <1>3 DEF Next, Step

\* Documents, requests and counters keep their types.
THEOREM TypeCorrect == Spec => []TypeOK
<1>1. PipeInv => TypeOK
  BY DEF PipeInv, TypeInv
<1> QED
  BY <1>1, PipeInit, PipeNext, PTL DEF Spec

\* A request is at a step of its operation, and a run has placed photos of its
\* input only, each once.
THEOREM PipeInvHolds == Spec => []PipeInv
BY PipeInit, PipeNext, PTL DEF Spec
-----------------------------------------------------------------------------
(***************************************************************************)
(* A failed sale can be retried, whatever fails, crashes or overlaps.      *)
(***************************************************************************)

\* Requests whose photos the sale holds: a retry found them there, a finalize
\* request has stored them.
Stored(r) == r.op = "retry" \/ r.step \in TaskSteps \cup {"storeKey"}

\* Once stored, the photos stay as long as the sale: a run that fails does so
\* on a sale that has them.
InputInv ==
  /\ FailedIsRetryable
  /\ \A h \in Busy : Stored(req[h]) /\ Exists => sale.input # {}

LEMMA InputNext ==
  ASSUME PipeInv, InputInv, [Next]_vars
  PROVE  InputInv'
<1>1. CASE UNCHANGED vars
  BY <1>1 DEF vars, InputInv, FailedIsRetryable, Busy, Exists
<1>2. CASE \E h \in Handlers : Step(h)
  <2>1. PICK h \in Handlers : Step(h)
    BY <1>2
  <2> DEFINE r == req[h]
  <2>2. TypeInv /\ (r # Idle => r \in Good /\ Placing(r) /\ r.step \in Steps /\ r.op \in Ops
                                /\ r.step \in StepsOf(r.op))
    BY BusyGood DEF PipeInv, Good, Known, Request
  <2>3. sale \in [status : SaleStatuses \cup {Absent}, input : SUBSET Photos]
    BY DEF PipeInv, TypeInv, TypeOK
  <2>4. \/ sale' = sale
        \/ Exists /\ \E s \in Writes(r) : sale' = [sale EXCEPT !.status = s]
        \/ Exists /\ r.step = "storeInput" /\ sale' = [sale EXCEPT !.input = r.input]
        \/ sale' = [status |-> Absent, input |-> {}]
    BY <2>1, <2>2, SaleSteps
  <2>5. r.step = "storeInput" /\ r # Idle => r.input # {}
    BY <2>2 DEF Good, Known, StepsOf, ClearSteps, Ops, RunOps
  <2>6. ~BeginRequest(h) => r # Idle
    BY <2>1, StepCases, ControlSteps
       DEF PipeInv, Work, PlaceStep, At, ListBundles, ListItems, DeleteItem, ReadInventory,
           Placeholder, Estimate, WritePrice, Update, Start, AddBundle, AddItem, Refine
  <2>7. BeginRequest(h) => sale' = sale
    BY <2>2, BeginSteps
  <2>8. Exists' => Exists /\ (sale.input # {} => sale'.input # {})
    BY <2>3, <2>4, <2>5, <2>6, <2>7 DEF Exists
  <2>9. r.step \in {"fail", "failPricing"} /\ r # Idle => Stored(r)
    BY DEF Stored, TaskSteps
  <2>10. FailedIsRetryable'
    <3>1. CASE r # Idle /\ r.step \in {"fail", "failPricing"}
      BY <2>3, <2>4, <2>8, <2>9, <3>1 DEF InputInv, Busy, Exists, FailedIsRetryable, Absent
    <3>2. CASE sale'.status = sale.status \/ ~Exists'
      BY <2>8, <3>2 DEF InputInv, FailedIsRetryable, Exists, Absent
    <3>3. CASE \E s \in Writes(r) : s # "failed" /\ sale' = [sale EXCEPT !.status = s]
      BY <2>3, <3>3 DEF FailedIsRetryable
    <3> QED
      BY <2>3, <2>4, <2>6, <2>7, <3>1, <3>2, <3>3 DEF Writes, Exists
  <2>11. PICK n : Turns(h, n) /\ (n = Idle \/ n \in Good)
    BY <2>1, StepTurns
  <2>12. n # Idle /\ Stored(n) /\ Exists' => sale'.input # {}
    <3>1. CASE BeginRequest(h)
      <4>1. PICK m : /\ Turns(h, m) /\ Begins(m)
                     /\ m.op = "retry" => m.input = sale.input
        BY <2>2, <3>1, BeginSteps
      <4>2. m = n /\ sale' = sale
        BY <2>2, <2>7, <2>11, <3>1, <4>1, TurnsTo
      <4>3. Stored(m) => m.op = "retry"
        BY <4>1 DEF Begins, Stored, TaskSteps, RunSteps, PricingSteps
      <4> QED
        BY <4>1, <4>2, <4>3 DEF Begins, Good, Known, RunOps
    <3>2. CASE r # Idle /\ Stored(r)
      BY <2>8, <3>2 DEF InputInv, Busy
    <3>3. CASE r # Idle /\ ~Stored(r) /\ n # Idle /\ Stored(n) /\ Exists'
      <4>1. Control(h) \/ Work(h)
        <5>1. ~BeginRequest(h)
          BY <2>2, <3>3, BeginSteps
        <5>2. ~PlaceStep(h)
          BY <3>3 DEF PlaceStep, Start, AddBundle, AddItem, Refine, At, Stored, TaskSteps,
                      RunSteps
        <5> QED
          BY <2>1, <5>1, <5>2, StepCases
      <4>2. Follows(r, n) \/ Fails(r, n)
        BY <2>2, <2>11, <3>3, <4>1, ControlSteps, WorkSteps, TurnsTo DEF Work
      <4>3. r.step = "storeInput" /\ Follows(r, n)
        BY <2>2, <3>3, <4>2
           DEF Follows, Fails, Same, Follow, Caught, Stored, TaskSteps, StepsOf, Ops, Steps,
               KeySteps, ClearSteps, RunSteps, PricingSteps, Cleared
      <4>4. ~Raise(h) /\ ~End(h)
        <5>1. Turns(h, Idle) => n = Idle
          BY <2>2, <2>11, TurnsTo
        <5>2. Raise(h) => End(h)
          BY <4>3 DEF Raise, RunSteps, PricingSteps
        <5> QED
          BY <2>2, <3>3, <5>1, <5>2, GoesOn
      <4>5. StoreInput(h)
        BY <4>1, <4>3, <4>4
           DEF Control, Work, CheckKey, StoreKey, SetStatus, DeleteBundle, DeleteSale, Ready,
               Price, Recalculate, Finish, WriteMetadata, SetFailed, Fail, Crash, Transition,
               ListBundles, ListItems, DeleteItem, ReadInventory, Placeholder, Estimate,
               WritePrice, Update, At
      <4>6. sale' = [sale EXCEPT !.input = r.input]
        BY <4>4, <4>5 DEF StoreInput
      <4> QED
        BY <2>3, <2>5, <3>3, <4>3, <4>6
    <3> QED
      BY <2>6, <3>1, <3>2, <3>3
  <2>13. \A g \in Busy' : Stored(req'[g]) /\ Exists' => sale'.input # {}
    <3>1. TAKE g \in Busy'
    <3>2. CASE g = h
      BY <2>2, <2>11, <2>12, <3>1, <3>2, TurnsTo DEF Busy
    <3>3. CASE g # h
      <4>1. req'[g] = req[g] /\ g \in Busy
        BY <2>2, <2>11, <3>1, <3>3, TurnsTo DEF Busy
      <4> QED
        BY <2>8, <4>1 DEF InputInv
    <3> QED
      BY <3>2, <3>3
  <2> QED
    BY <2>10, <2>13 DEF InputInv
<1>3. CASE \E key \in Keys : Expire(key)
  BY <1>3 DEF Expire, InputInv, FailedIsRetryable, Busy, Exists
<1> QED
  BY <1>1, <1>2, <1>3 DEF Next, Step

\* The owner of a failed sale can always retry it.
THEOREM AlwaysRetryable == Spec => []FailedIsRetryable
<1>1. Init => InputInv
  BY DEF Init, InputInv, FailedIsRetryable, Busy
<1>2. InputInv => FailedIsRetryable
  BY DEF InputInv
<1> QED
  BY <1>1, <1>2, InputNext, PipeInvHolds, PTL DEF Spec
-----------------------------------------------------------------------------
(***************************************************************************)
(* A status never claims a run that is not there, unless the instance dies *)
(* or the write of "failed" is lost; whatever else fails or overlaps.      *)
(***************************************************************************)
FailureIsWritten == ~MayCrash /\ "fail" \notin Fallible

\* The steps of a run that still owes the sale a status.
OwingSteps == (RunSteps \ {"start"}) \cup (PricingSteps \ {"metadata"})
                \cup {"fail", "failPricing"}

\* Whoever works on the sale ends its status.
WorkInv ==
  sale.status \in PipelineStatuses => \E h \in Busy : req[h].step \in OwingSteps

LEMMA OwingNext ==
  ASSUME FailureIsWritten, PipeInv, NEW h \in Handlers, Step(h), req[h] # Idle,
         req[h].step \in OwingSteps
  PROVE  \/ req'[h] # Idle /\ req'[h].step \in OwingSteps
         \/ sale'.status \notin PipelineStatuses
<1> DEFINE r == req[h]
<1>1. TypeInv /\ r \in Good /\ Placing(r) /\ sale.status \in SaleStatuses \cup {Absent}
      /\ sale \in [status : SaleStatuses \cup {Absent}, input : SUBSET Photos]
  BY BusyGood DEF PipeInv, TypeInv, TypeOK
<1>2. BeginRequest(h) => FALSE
  BY <1>1, BeginSteps
<1>3. CASE r.step \in {"finish", "fail", "failPricing"} /\ (r.step = "fail" \/ ~Raise(h))
  <2>1. ~Crash(h) /\ (Fail(h) => r.step # "fail" /\ Raise(h))
    BY DEF FailureIsWritten, Crash, Fail
  <2>2. Finish(h) \/ SetFailed(h)
    BY <1>2, <1>3, <2>1, StepCases
       DEF Control, Work, PlaceStep, CheckKey, StoreInput, StoreKey, SetStatus, DeleteBundle,
           DeleteSale, Ready, Price, Recalculate, WriteMetadata, Transition, ListBundles,
           ListItems, DeleteItem, ReadInventory, Placeholder, Estimate, WritePrice, Update,
           Start, AddBundle, AddItem, Refine, At
  <2> QED
    BY <1>1, <1>3, <2>2
       DEF Finish, SetFailed, Transition, At, Exists, PipelineStatuses, Absent
<1>4. CASE Raise(h) /\ r.step # "fail"
  <2>1. Caught(r.step) # "idle" /\ Caught(r.step) \in OwingSteps
    BY <1>4 DEF OwingSteps, Caught, RunSteps, PricingSteps
  <2>2. Turns(h, [r EXCEPT !.step = Caught(r.step)])
    BY <1>1, <1>4, <2>1, Raises, GoesOn
  <2>3. /\ [r EXCEPT !.step = Caught(r.step)] \in Good
        /\ [r EXCEPT !.step = Caught(r.step)].step = Caught(r.step)
    BY <1>1, <2>1, CaughtGood, StepSame
  <2>4. req'[h] \in Good /\ req'[h].step = Caught(r.step)
    BY <1>1, <2>2, <2>3, TurnsTo
  <2> QED
    BY <2>1, <2>4, NotIdle DEF Good
<1>5. CASE PlaceStep(h) /\ ~Raise(h)
  <2>1. req'[h] \in Good /\ req'[h].step \in {"refine", "addBundle", "addItem", "ready"}
    BY <1>1, <1>5, StartPlaces, AddBundlePlaces, AddItemPlaces, RefinePlaces, TurnsTo
       DEF PlaceStep, Placed
  <2> QED
    BY <2>1, NotIdle DEF Good, OwingSteps, RunSteps
<1>6. CASE /\ Control(h) \/ Work(h)
           /\ ~Raise(h) /\ r.step \notin {"finish", "fail", "failPricing"}
  <2>1. PICK n : Turns(h, n) /\ (Follows(r, n) \/ Fails(r, n))
    <3>1. CASE Control(h)
      <4>1. Ready(h) \/ Price(h) \/ Recalculate(h)
        BY <1>6, <3>1
           DEF FailureIsWritten, Control, CheckKey, StoreInput, StoreKey, SetStatus,
               DeleteBundle, DeleteSale, Finish, WriteMetadata, SetFailed, Fail, Crash,
               Transition, At, OwingSteps, RunSteps, PricingSteps
      <4>2. \E step \in Follow(r) : Goto(h, step)
        BY <1>6, <4>1 DEF Ready, Price, Recalculate, Transition, At, Follow
      <4> QED
        BY <1>1, <4>2, GotoFollows
    <3>2. CASE Work(h)
      BY <1>1, <3>2, WorkSteps DEF Work
    <3> QED
      BY <1>6, <3>1, <3>2
  <2>2. n \in Good /\ n.step \in OwingSteps
    BY <1>6, <2>1
       DEF Follows, Fails, Follow, Caught, OwingSteps, RunSteps, PricingSteps
  <2> QED
    BY <1>1, <2>1, <2>2, TurnsTo, NotIdle DEF Good
<1> QED
  BY <1>2, <1>3, <1>4, <1>5, <1>6, StepCases

LEMMA WorkNext ==
  ASSUME FailureIsWritten, PipeInv, WorkInv, [Next]_vars
  PROVE  WorkInv'
<1>1. CASE UNCHANGED vars
  BY <1>1 DEF vars, WorkInv, Busy
<1>2. CASE \E h \in Handlers : Step(h)
  <2>1. PICK h \in Handlers : Step(h)
    BY <1>2
  <2> DEFINE r == req[h]
  <2>2. TypeInv /\ sale \in [status : SaleStatuses \cup {Absent}, input : SUBSET Photos]
    BY DEF PipeInv, TypeInv, TypeOK
  <2> SUFFICES ASSUME sale'.status \in PipelineStatuses
               PROVE  \E g \in Handlers : req'[g] # Idle /\ req'[g].step \in OwingSteps
    BY DEF WorkInv, Busy
  <2>3. CASE sale'.status = sale.status
    <3>1. PICK g \in Handlers : req[g] # Idle /\ req[g].step \in OwingSteps
      BY <2>3 DEF WorkInv, Busy
    <3>2. CASE g = h
      BY <2>1, <3>1, <3>2, OwingNext
    <3>3. CASE g # h
      BY <2>1, <2>2, <3>1, <3>3, StepTurns, TurnsTo
    <3> QED
      BY <3>2, <3>3
  <2>4. CASE sale'.status # sale.status
    <3>1. /\ Exists /\ \E s \in Writes(r) : sale' = [sale EXCEPT !.status = s]
          /\ r.step \in {"start", "price"}
      BY <2>1, <2>2, <2>4, SaleSteps DEF Writes, PipelineStatuses, Absent
    <3>2. Start(h) \/ Price(h)
      <4>1. ~BeginRequest(h)
        BY <2>2, <2>4, BeginSteps
      <4>2. ~Fail(h) /\ ~Crash(h)
        BY <2>4 DEF Fail, Crash
      <4> QED
        BY <2>1, <3>1, <4>1, <4>2, StepCases
           DEF Control, Work, PlaceStep, CheckKey, StoreInput, StoreKey, SetStatus,
               DeleteBundle, DeleteSale, Ready, Recalculate, Finish, WriteMetadata, SetFailed,
               Transition, ListBundles, ListItems, DeleteItem, ReadInventory, Placeholder,
               Estimate, WritePrice, Update, AddBundle, AddItem, Refine, At
    <3>3. r # Idle /\ r \in Good /\ Placing(r)
      BY <3>2, BusyGood DEF PipeInv, Start, Price, Transition, At
    <3>4. req'[h] # Idle /\ req'[h].step \in OwingSteps
      <4>1. CASE Start(h)
        <5>1. req'[h] \in Good /\ req'[h].step \in {"refine", "addBundle", "addItem", "ready"}
          BY <2>2, <3>1, <3>3, <4>1, StartPlaces, TurnsTo DEF Placed
        <5> QED
          BY <5>1, NotIdle DEF Good, OwingSteps, RunSteps
      <4>2. CASE Price(h)
        <5>1. Goto(h, "readInventory") /\ "readInventory" \in Follow(r)
          BY <3>1, <4>2 DEF Price, Transition, At, Follow
        <5>2. PICK n : Turns(h, n) /\ Follows(r, n)
          BY <2>2, <3>3, <5>1, GotoFollows
        <5>3. n \in Good /\ n.step = "readInventory"
          BY <4>2, <5>2 DEF Follows, Follow, Price, Transition, At
        <5> QED
          BY <2>2, <5>2, <5>3, NotIdle, TurnsTo DEF Good, OwingSteps, PricingSteps
      <4> QED
        BY <3>2, <4>1, <4>2
    <3> QED
      BY <3>4
  <2> QED
    BY <2>3, <2>4
<1>3. CASE \E key \in Keys : Expire(key)
  BY <1>3 DEF Expire, WorkInv, Busy
<1> QED
  BY <1>1, <1>2, <1>3 DEF Next, Step

\* When nothing runs, no status says that something does.
THEOREM NoneOrphaned ==
  ASSUME FailureIsWritten
  PROVE  Spec => []NoOrphanedStatus
<1>1. Init => WorkInv
  BY DEF Init, WorkInv, PipelineStatuses
<1>2. WorkInv => NoOrphanedStatus
  BY DEF WorkInv, NoOrphanedStatus
<1>3. PipeInv /\ WorkInv /\ [Next]_vars => WorkInv'
  BY WorkNext
<1> QED
  BY <1>1, <1>2, <1>3, PipeInvHolds, PTL DEF Spec
-----------------------------------------------------------------------------
(***************************************************************************)
(* One request at a time, which may stop or fail anywhere, under any keys: *)
(* which finalize requests run, and what the runs make of the photos and   *)
(* of the status.                                                          *)
(***************************************************************************)
OneAtATime ==
  /\ \A g, h \in Handlers : g = h
  /\ EnabledOps \subseteq {"finalize", "retry", "delete_sale"}

\* The steps before a run starts, and those of a run that has started.
Asked   == KeySteps \cup ClearSteps \cup {"start"}
Running == TaskSteps \ {"start", "fail"}

\* A run that is to start has a number of its own.  A finalize request gets
\* past the look-up only under a key no run started under, or one that is not
\* found; and its key is stored before it runs, or not found later.
Turn(r) ==
  /\ r.step \in Asked /\ r.op \in RunOps =>
       r.run <= runs /\ \A a \in started : a.run < r.run
  /\ r.step \in {"storeInput", "storeKey", "start"} /\ r.op = "finalize" =>
       \A a \in started : a.op = "finalize" /\ a.key = r.key => r.key \in lost
  /\ r.step = "start" /\ r.op = "finalize" => r.key \in cached \cup lost
  /\ r.step \in Running => started # {}

KeyInv ==
  /\ NoKey \in lost
  /\ \A a \in started : a.run <= runs /\ (a.op = "finalize" => a.key \in cached \cup lost)
  /\ \A h \in Busy : Turn(req[h])

\* The request after a step: gone, moved on, or placing photos.
LEMMA Onward ==
  ASSUME PipeInv, NEW h \in Handlers, Step(h), ~BeginRequest(h)
  PROVE  /\ req[h] # Idle
         /\ \E n : Turns(h, n) /\ \/ n = Idle
                                  \/ n \in Good /\ (Follows(req[h], n) \/ Fails(req[h], n))
                                  \/ PlaceStep(h) /\ Placed(req[h], n)
<1>0. req[h] # Idle /\ TypeInv
  BY StepCases, ControlSteps
     DEF PipeInv, Work, PlaceStep, At, ListBundles, ListItems, DeleteItem, ReadInventory,
         Placeholder, Estimate, WritePrice, Update, Start, AddBundle, AddItem, Refine
<1>1. req[h] \in Good /\ Placing(req[h])
  BY <1>0, BusyGood DEF PipeInv
<1>2. CASE Control(h) \/ Work(h) \/ Raise(h)
  <2>1. PICK n : Turns(h, n) /\ (Follows(req[h], n) \/ Fails(req[h], n) \/ n = Idle)
    BY <1>0, <1>2, ControlSteps, WorkSteps, RaiseFails DEF Work
  <2> QED
    BY <1>0, <2>1 DEF Follows, Fails
<1>3. CASE PlaceStep(h) /\ ~Raise(h)
  BY <1>0, <1>1, <1>3, StartPlaces, AddBundlePlaces, AddItemPlaces, RefinePlaces
     DEF PlaceStep
<1> QED
  BY <1>0, <1>2, <1>3, StepCases

\* Only requests that had not started are still to start.
LEMMA AskedBefore ==
  ASSUME NEW r \in Good, NEW n \in Good, Follows(r, n) \/ Fails(r, n)
  PROVE  /\ Same(r, n)
         /\ n.step \in Asked => r.step \in Asked \ {"start"}
         /\ n.step \in Running => r.step \in Running
         /\ n.step \in {"storeInput", "storeKey"} => r.step \in {"checkKey", "storeInput"}
         /\ n.step = "storeInput" => r.step = "checkKey"
         /\ n.step = "storeKey" => r.step = "storeInput"
         /\ n.step = "start" /\ r.op = "finalize" =>
              r.step = "storeKey" \/ (r.step = "storeInput" /\ r.key = NoKey)
<1>1. r.step \in Steps /\ r.op \in Ops /\ r.step \in StepsOf(r.op)
  BY DEF Good, Known, Request
<1>2. n # Idle
  BY NotIdle DEF Good
<1>3. CASE Follows(r, n)
  BY <1>1, <1>3
     DEF Follows, Follow, Steps, Asked, Running, KeySteps, ClearSteps, TaskSteps, RunSteps,
         PricingSteps, Cleared, StepsOf, Ops
<1>4. CASE Fails(r, n)
  BY <1>1, <1>2, <1>4
     DEF Fails, Caught, Steps, Asked, Running, KeySteps, ClearSteps, TaskSteps, RunSteps,
         PricingSteps, StepsOf, Ops
<1> QED
  BY <1>3, <1>4

LEMMA HistoryGrows ==
  ASSUME PipeInv, [Next]_vars
  PROVE  /\ started \subseteq started' /\ lost \subseteq lost'
         /\ cached \cup lost \subseteq cached' \cup lost'
         /\ runs <= runs'
<1>1. CASE UNCHANGED vars
  BY <1>1 DEF vars, history, PipeInv, TypeInv, TypeOK
<1>2. CASE \E h \in Handlers : Step(h)
  <2>1. PICK h \in Handlers : Step(h)
    BY <1>2
  <2>2. started \subseteq started' /\ lost \subseteq lost'
    BY <2>1, HistorySteps, FailLoses DEF PipeInv, history
  <2>3. cached \subseteq cached'
    BY <2>1, OtherSteps
  <2>4. runs <= runs'
    BY <2>1, OtherSteps, BeginSteps DEF PipeInv, TypeInv, TypeOK
  <2> QED
    BY <2>2, <2>3, <2>4
<1>3. CASE \E key \in Keys : Expire(key)
  BY <1>3 DEF Expire, PipeInv, TypeInv, TypeOK
<1> QED
  BY <1>1, <1>2, <1>3 DEF Next, Step

LEMMA RenewedStays ==
  ASSUME started \subseteq started', lost \subseteq lost', Renewed
  PROVE  Renewed'
BY DEF Renewed

\* A request at the look-up, or at the store, of its key.
LEMMA KeySeen ==
  ASSUME PipeInv, NEW h \in Handlers, Step(h), req[h] # Idle, NEW n, Turns(h, n), n # Idle
  PROVE  /\ req[h].step = "checkKey" => req[h].key \notin cached \/ req[h].key \in lost'
         /\ req[h].step = "storeKey" => req[h].key \in cached' \cup lost'
<1> DEFINE r == req[h]
<1>1. /\ TypeInv /\ ~End(h)
  <2>1. End(h) => Turns(h, Idle)
    BY GoesOn DEF PipeInv
  <2> QED
    BY <2>1, TurnsTo DEF PipeInv
<1>2. ~BeginRequest(h)
  BY <1>1, BeginSteps
<1>3. CASE Fail(h)
  BY <1>3, FailLoses
<1>4. CASE ~Fail(h) /\ r.step \in {"checkKey", "storeKey"}
  <2>1. CheckKey(h) \/ StoreKey(h)
    BY <1>1, <1>2, <1>4, StepCases
       DEF Control, Work, PlaceStep, StoreInput, SetStatus, DeleteBundle, DeleteSale, Ready,
           Price, Recalculate, Finish, WriteMetadata, SetFailed, Crash, Transition,
           ListBundles, ListItems, DeleteItem, ReadInventory, Placeholder, Estimate,
           WritePrice, Update, Start, AddBundle, AddItem, Refine, At
  <2> QED
    BY <1>1, <1>4, <2>1 DEF CheckKey, StoreKey, At
<1> QED
  BY <1>3, <1>4

LEMMA KeyNext ==
  ASSUME OneAtATime, PipeInv, KeyInv, [Next]_vars
  PROVE  KeyInv'
<1>0. /\ started \subseteq started' /\ lost \subseteq lost' /\ runs <= runs'
      /\ cached \cup lost \subseteq cached' \cup lost'
      /\ runs \in Nat /\ runs' \in Nat /\ started \subseteq Runs
  BY HistoryGrows, PipeNext DEF PipeInv, TypeInv, TypeOK
<1>1. CASE UNCHANGED <<req, started>>
  <2>1. ASSUME NEW r, Turn(r), r \in Good
        PROVE  Turn(r)'
    <3>1. r.run \in Int /\ \A a \in started : a.run \in Int
      BY <1>0, <2>1 DEF Good, Request, Runs
    <3> QED
      BY <1>0, <1>1, <2>1, <3>1 DEF Turn
  <2>2. \A a \in started : a.run \in Int
    BY <1>0 DEF Runs
  <2> QED
    BY <1>0, <1>1, <2>1, <2>2 DEF KeyInv, Busy, PipeInv, TypeInv
<1>2. ASSUME NEW h \in Handlers, Step(h)
      PROVE  KeyInv'
  <2> DEFINE r == req[h]
  <2>1. TypeInv /\ \A a \in started : a.run \in Int
    BY <1>0 DEF PipeInv, Runs
  <2> SUFFICES ASSUME NEW n, Turns(h, n)
               PROVE  /\ n \in Good => Turn(n)'
                      /\ \A a \in started' :
                           a.run <= runs' /\ (a.op = "finalize" => a.key \in (cached \cup lost)')
    <3>1. PICK n : Turns(h, n) /\ (n = Idle \/ n \in Good)
      BY <1>2, StepTurns
    <3>2. \A g \in Busy' : req'[g] = n /\ n # Idle
      BY <2>1, <3>1, TurnsTo DEF Busy, OneAtATime
    <3> QED
      BY <1>0, <3>1, <3>2 DEF KeyInv, Turn
  <2>2. CASE BeginRequest(h)
    <3>1. PICK m : /\ Turns(h, m) /\ Begins(m) /\ UNCHANGED <<cached, history>>
                   /\ m.op \in RunOps => m.run = runs + 1 /\ runs' = runs + 1
      BY <2>1, <2>2, BeginSteps
    <3>2. m = n
      BY <2>1, <3>1, TurnsTo
    <3>3. n.step \in {"checkKey", "storeInput", "listBundles", "setStatus"}
          /\ (n.op = "finalize" /\ n.step = "storeInput" => n.key = NoKey)
      BY <3>1, <3>2 DEF Begins
    <3> QED
      BY <1>0, <2>1, <3>1, <3>2, <3>3
         DEF KeyInv, Turn, Running, TaskSteps, RunSteps, PricingSteps, history
  <2>3. CASE ~BeginRequest(h)
    <3>1. /\ r # Idle /\ r \in Good /\ Turn(r) /\ r.run \in Int /\ runs' = runs
      <4>1. r # Idle
        BY <1>2, <2>3, Onward
      <4> QED
        BY <1>2, <2>1, <2>3, <4>1, BusyGood, OtherSteps DEF KeyInv, Request
    <3>2. CASE n \in Good /\ (Follows(r, n) \/ Fails(r, n)) /\ UNCHANGED started
      <4>1. n.op = r.op /\ n.key = r.key /\ n.run = r.run /\ n # Idle
        BY <3>1, <3>2, AskedBefore, NotIdle DEF Same, Good
      <4>2. n.step \in Asked /\ n.op \in RunOps =>
              n.run <= runs' /\ \A a \in started' : a.run < n.run
        BY <1>0, <3>1, <3>2, <4>1, AskedBefore DEF Turn
      <4>3. n.step \in {"storeInput", "storeKey", "start"} /\ n.op = "finalize" =>
              \A a \in started' : a.op = "finalize" /\ a.key = n.key => n.key \in lost'
        <5>1. CASE r.step \in {"storeInput", "storeKey"}
          BY <1>0, <3>1, <3>2, <4>1, <5>1 DEF Turn
        <5>2. CASE r.step = "checkKey"
          BY <1>0, <1>2, <3>1, <3>2, <4>1, <5>2, KeySeen DEF KeyInv
        <5>3. n.step \in {"storeInput", "storeKey", "start"} /\ n.op = "finalize" =>
                r.step \in {"checkKey", "storeInput", "storeKey"}
          <6>1. n.step \in {"storeInput", "storeKey"} => r.step \in {"checkKey", "storeInput"}
            BY <3>1, <3>2, AskedBefore
          <6>2. n.step = "start" /\ r.op = "finalize" => r.step \in {"storeKey", "storeInput"}
            BY <3>1, <3>2, AskedBefore
          <6> QED
            BY <4>1, <6>1, <6>2
        <5> QED
          BY <5>1, <5>2, <5>3
      <4>4. n.step = "start" /\ n.op = "finalize" => n.key \in (cached \cup lost)'
        BY <1>0, <1>2, <3>1, <3>2, <4>1, AskedBefore, KeySeen DEF KeyInv
      <4>5. n.step \in Running => started' # {}
        BY <3>1, <3>2, AskedBefore DEF Turn
      <4> QED
        BY <1>0, <2>1, <3>1, <3>2, <4>2, <4>3, <4>4, <4>5 DEF KeyInv, Turn
    <3>3. CASE n = Idle /\ UNCHANGED started
      BY <1>0, <3>1, <3>3, NotIdle DEF KeyInv, Good
    <3>4. CASE PlaceStep(h) /\ Placed(r, n) /\ UNCHANGED started /\ r.step # "start"
      <4>1. r.step \in Running
        BY <3>4 DEF PlaceStep, Start, AddBundle, AddItem, Refine, At, Running, TaskSteps,
                    RunSteps
      <4>2. n.step \notin Asked
        BY <3>4 DEF Placed, Asked, KeySteps, ClearSteps
      <4> QED
        BY <1>0, <3>1, <3>4, <4>1, <4>2 DEF KeyInv, Turn, Asked, KeySteps
    <3>5. CASE Start(h) /\ ~Fail(h) /\ Exists
      <4>1. /\ r.step = "start" /\ started' = started \cup {Ran(r)} /\ UNCHANGED <<lost, cached>>
        BY <3>5 DEF Start, At, Ran
      <4>2. r.op \in RunOps
        BY <3>1, <4>1, TaskOps DEF TaskSteps, RunSteps
      <4>3. /\ Ran(r).run <= runs'
            /\ Ran(r).op = "finalize" => Ran(r).key \in (cached \cup lost)'
        BY <1>0, <3>1, <4>1, <4>2 DEF Turn, Ran, Asked
      <4>4. n \in Good => n.step \notin Asked
        <5>1. PICK m : Turns(h, m) /\ Placed(r, m)
          BY <2>1, <3>1, <3>5, StartPlaces, BusyGood DEF PipeInv, Busy
        <5>2. m = n
          BY <2>1, <5>1, TurnsTo
        <5> QED
          BY <5>1, <5>2 DEF Placed, Asked, KeySteps, ClearSteps
      <4>5. \A a \in started' : a.run <= runs' /\ (a.op = "finalize" => a.key \in (cached \cup lost)')
        BY <1>0, <3>1, <4>1, <4>3 DEF KeyInv
      <4>6. started' # {}
        BY <4>1
      <4> QED
        BY <4>4, <4>5, <4>6 DEF Turn, Asked, KeySteps
    <3>6. UNCHANGED started \/ (Start(h) /\ ~Fail(h) /\ Exists)
      BY <1>2, <2>1, HistorySteps, FailLoses DEF history
    <3>7. \/ n = Idle
          \/ n \in Good /\ (Follows(r, n) \/ Fails(r, n))
          \/ PlaceStep(h) /\ Placed(r, n)
      BY <1>2, <2>1, <2>3, Onward, TurnsTo
    <3>8. CASE PlaceStep(h) /\ Placed(r, n) /\ r.step = "start" /\ UNCHANGED started
      <4>1. Start(h)
        BY <3>8 DEF PlaceStep, AddBundle, AddItem, Refine, At
      <4>2. Exists => Ran(r) \in started
        BY <3>8, <4>1 DEF Start, Ran
      <4>3. r.op \in RunOps
        BY <3>1, <3>8, TaskOps DEF TaskSteps, RunSteps
      <4>4. Ran(r) \notin started
        BY <3>1, <3>8, <4>3 DEF Turn, Ran, Asked
      <4>5. ~Exists /\ Raise(h)
        BY <4>1, <4>2, <4>4 DEF Start
      <4> QED
        BY <2>1, <3>1, <3>2, <3>3, <3>8, <4>5, RaiseFails, TurnsTo DEF Placed, Fails
    <3> QED
      BY <3>2, <3>3, <3>4, <3>5, <3>6, <3>7, <3>8
  <2> QED
    BY <2>2, <2>3
<1> QED
  BY <1>1, <1>2 DEF Next, Step, vars, history, Expire

\* A sale that had a run and is finalized again is renewed.
LEMMA RunAgain ==
  ASSUME PipeInv, KeyInv, NEW h \in Handlers, Start(h), Exists, req[h].op = "finalize",
         started # {}
  PROVE  Renewed'
<1> DEFINE r == req[h]
<1>1. r # Idle /\ r.step = "start" /\ started' = started \cup {Ran(r)} /\ lost' = lost
  BY DEF Start, At, Ran
<1>2. Turn(r) /\ r.op \in RunOps
  BY <1>1 DEF KeyInv, Busy, RunOps
<1>3. PICK a \in started : TRUE
  OBVIOUS
<1>4. a.run < r.run /\ (a.op = "finalize" /\ a.key = r.key => r.key \in lost)
  BY <1>1, <1>2 DEF Turn, Asked
<1>5. a.op \in RunOps
  BY DEF PipeInv, TypeInv, TypeOK, Runs
<1> DEFINE b == Ran(r)
<1>6. b \in started' /\ a \in started' /\ b.op = "finalize" /\ b.key = r.key /\ b.run = r.run
  BY <1>1 DEF Ran
<1> HIDE DEF b
<1>7. a.run < b.run /\ (a.op = "retry" \/ a.key # b.key \/ b.key \in lost')
  BY <1>1, <1>4, <1>5, <1>6 DEF RunOps
<1> QED
  BY <1>6, <1>7 DEF Renewed
-----------------------------------------------------------------------------
\* The statuses of a sale that was not published.
Captured == {"pending_upload", "failed", "processing", "ready_for_review",
             "pricing_in_progress"}

PlacingSteps == {"addBundle", "addItem", "refine", "ready"}

\* The statuses a request may find the sale in, at each of its steps.
StatusAt(step) ==
  CASE step \in KeySteps \cup {"start", "fail"} -> Captured
    [] step \in ClearSteps \cup {"deleteSale"} -> {"pending_upload", "failed"}
    [] step \in PlacingSteps -> {"processing"}
    [] step \in {"price", "metadata"} -> {"ready_for_review"}
    [] step \in PricingSteps \ {"metadata"} -> {"pricing_in_progress"}
    [] step = "failPricing" -> {"ready_for_review", "pricing_in_progress"}
    [] OTHER -> {}

\* What a request has found, or done, when it comes to a step.
Stage(r) ==
  /\ sale.status \in StatusAt(r.step)
  /\ r.op = "retry" /\ r.step = "start" =>
       bundles = {} /\ sale.status \in {"pending_upload", "failed"}
  /\ r.step = "listItems" => bundles \subseteq r.rest
  /\ r.step \in {"deleteItem", "deleteBundle"} =>
       /\ bundles \subseteq r.rest \cup {r.bundle}
       /\ \A d \in items : d.bundle = r.bundle => r.step = "deleteItem" /\ d \in r.todo
  /\ r.step = "deleteSale" => bundles = {}
  /\ r.step \in PlacingSteps =>
       /\ taken = r.input
       /\ \A p \in r.seen : \E d \in items : d.photo = p
       /\ ~Renewed => \A d \in items : d.photo \in r.seen
  /\ r.step = "addItem" => r.bundle \in bundles
  /\ r.step = "ready" => r.input \subseteq r.seen

\* Every item is in a bundle, and no photo is in two unless the sale was
\* renewed; a sale that had no run has neither.
Documents ==
  /\ sale.status \in Captured \cup {Absent}
  /\ \A d \in items : d.bundle \in bundles
  /\ ~Renewed => \A c, d \in items : c.photo = d.photo => c = d
  /\ NothingLost /\ DeletedMeansGone
  /\ started = {} => bundles = {} /\ sale.status \in {"pending_upload", "failed", Absent}

SerialInv == Documents /\ \A h \in Busy : Stage(req[h])

LEMMA Statuses ==
  /\ \A s \in KeySteps \cup {"start", "fail"} : StatusAt(s) = Captured
  /\ \A s \in ClearSteps \cup {"deleteSale"} : StatusAt(s) = {"pending_upload", "failed"}
  /\ \A s \in PlacingSteps : StatusAt(s) = {"processing"}
  /\ \A s \in {"price", "metadata"} : StatusAt(s) = {"ready_for_review"}
  /\ \A s \in PricingSteps \ {"metadata"} : StatusAt(s) = {"pricing_in_progress"}
  /\ StatusAt("failPricing") = {"ready_for_review", "pricing_in_progress"}
BY DEF StatusAt, KeySteps, ClearSteps, PlacingSteps, PricingSteps

LEMMA AllListed == Documents => Listed = items
BY DEF Documents, Listed

LEMMA StageExists ==
  ASSUME NEW r \in Request, Stage(r)
  PROVE  Exists /\ sale.status \in Captured
BY DEF Stage, StatusAt, Exists, Absent, Captured

\* A request of those enabled.
LEMMA Enabled ==
  ASSUME OneAtATime, NEW r \in Good
  PROVE  r.step # "setStatus" /\ r.op \in {"finalize", "retry", "delete_sale"}
BY DEF OneAtATime, Good, Known, StepsOf, KeySteps, ClearSteps, TaskSteps, RunSteps,
       PricingSteps

\* A step that writes no bundle, item or status.
Quiet == /\ sale'.status = sale.status
         /\ UNCHANGED <<bundles, items, started, taken>> /\ lost \subseteq lost'

\* A request that goes on without writing any of them, but to clear or to
\* place.
LEMMA StageStays ==
  ASSUME OneAtATime, NEW r \in Good, NEW n \in Good, Same(r, n), Stage(r), Quiet,
         \/ /\ n.step \in Follow(r)
            /\ \/ n.step \in PricingSteps /\ r.step \notin {"price", "finish"}
               \/ r.step \in KeySteps
         \/ n.step = Caught(r.step)
  PROVE  Stage(n)'
<1>1. r.step \in Steps /\ n.step \in Steps /\ n.op = r.op /\ r.step \in StepsOf(r.op)
  BY DEF Good, Known, Request, Same
<1>2. n.step \notin PlacingSteps \cup ClearSteps \cup {"deleteSale"}
  BY <1>1 DEF Follow, Caught, Steps, RunSteps, PricingSteps, KeySteps, Cleared, PlacingSteps,
              ClearSteps
<1>3. n.step = "start" => r.op # "retry"
  BY <1>1 DEF Follow, Caught, Steps, RunSteps, PricingSteps, KeySteps, StepsOf, ClearSteps,
              TaskSteps, Cleared
<1>4. StatusAt(r.step) \subseteq StatusAt(n.step)
  <2>1. CASE n.step \in Follow(r) /\ n.step \in PricingSteps /\ r.step \notin {"price", "finish"}
    <3>1. r.step \in PricingSteps \ {"metadata"} /\ n.step \in PricingSteps \ {"metadata"}
      BY <1>1, <2>1 DEF Follow, Steps, PricingSteps, RunSteps, Cleared
    <3> QED
      BY <3>1, Statuses
  <2>2. CASE n.step \in Follow(r) /\ r.step \in KeySteps
    <3>1. n.step \in KeySteps \cup {"start"}
      BY <2>2 DEF Follow, KeySteps
    <3> QED
      BY <2>2, <3>1, Statuses
  <2>3. CASE n.step = Caught(r.step)
    <3>1. CASE n.step = "fail"
      <4>1. StatusAt(r.step) \subseteq Captured
        BY DEF StatusAt, Captured
      <4> QED
        BY <3>1, <4>1, Statuses
    <3>2. CASE n.step = "failPricing"
      <4>1. r.step \in PricingSteps
        BY <1>1, <2>3, <3>2 DEF Caught, Steps, RunSteps
      <4> QED
        BY <3>2, <4>1, Statuses
    <3>3. CASE n.step \in {"storeInput", "start"}
      <4>1. r.step \in KeySteps
        BY <1>1, <2>3, <3>3
           DEF Caught, Steps, RunSteps, PricingSteps, KeySteps, StepsOf, ClearSteps, TaskSteps
      <4> QED
        BY <3>3, <4>1, Statuses DEF KeySteps
    <3>4. n.step \in {"fail", "failPricing", "storeInput", "start"}
      <4>1. "idle" \notin Steps
        BY DEF Steps, RunSteps, PricingSteps
      <4> QED
        BY <1>1, <2>3, <4>1 DEF Caught
    <3> QED
      BY <3>1, <3>2, <3>3, <3>4
  <2> QED
    BY <2>1, <2>2, <2>3
<1>5. n.step \notin {"listItems", "deleteItem", "deleteBundle", "addItem", "ready"}
  BY <1>2 DEF PlacingSteps, ClearSteps
<1>6. sale'.status \in StatusAt(n.step)
  BY <1>4 DEF Stage, Quiet
<1> QED
  BY <1>1, <1>2, <1>3, <1>5, <1>6 DEF Stage

\* A step of h keeps what SerialInv says.
Kept(h) == Documents' /\ \E n : Turns(h, n) /\ (n = Idle \/ Stage(n)')

LEMMA DocumentsStay ==
  ASSUME Documents, Quiet
  PROVE  Documents'
<1>1. Renewed => Renewed'
  BY RenewedStays DEF Quiet
<1> QED
  BY <1>1 DEF Documents, NothingLost, DeletedMeansGone, Listed, Exists, Quiet

\* The assumptions under which h acts.
Acts(h) == /\ OneAtATime /\ PipeInv /\ KeyInv /\ Documents
           /\ req[h] # Idle =>
                req[h] \in Good /\ Placing(req[h]) /\ Stage(req[h]) /\ Turn(req[h])

LEMMA QuietKept ==
  ASSUME NEW h \in Handlers, Acts(h),
         \/ CheckKey(h) \/ StoreInput(h) \/ StoreKey(h) \/ ReadInventory(h)
         \/ Placeholder(h) \/ Estimate(h) \/ WritePrice(h) \/ Recalculate(h)
         \/ WriteMetadata(h) \/ Fail(h) \/ Crash(h)
  PROVE  Kept(h)
<1> DEFINE r == req[h]
<1>1. r # Idle /\ TypeInv
      /\ sale \in [status : SaleStatuses \cup {Absent}, input : SUBSET Photos]
  BY DEF CheckKey, StoreInput, StoreKey, ReadInventory, Placeholder, Estimate, WritePrice,
         Recalculate, WriteMetadata, Fail, Crash, Update, At, Acts, PipeInv, TypeInv, TypeOK
<1>2. Quiet
  <2>1. CASE StoreInput(h)
    BY <1>1, <2>1 DEF StoreInput, Quiet, history
  <2>2. CASE Fail(h)
    BY <2>2, FailLoses DEF Quiet
  <2> QED
    BY <2>1, <2>2 DEF CheckKey, StoreKey, ReadInventory, Placeholder, Estimate, WritePrice,
                      Recalculate, WriteMetadata, Crash, Update, Quiet, history
<1>3. r \in Good /\ Stage(r) /\ OneAtATime /\ Documents
  BY <1>1 DEF Acts
<1> SUFFICES \E n : Turns(h, n) /\ (n = Idle \/ Stage(n)')
  BY <1>2, <1>3, DocumentsStay DEF Kept
<1>4. CASE End(h)
  BY <1>1, <1>4, GoesOn
<1>5. CASE Raise(h)
  <2>1. PICK n : Turns(h, n) /\ Fails(r, n)
    BY <1>1, <1>5, RaiseFails
  <2> QED
    BY <1>2, <1>3, <2>1, StageStays DEF Fails
<1>6. CASE ~Raise(h) /\ ~End(h) /\ (CheckKey(h) \/ StoreInput(h) \/ StoreKey(h) \/ Recalculate(h))
  <2>1. PICK step \in Follow(r) : Goto(h, step)
    BY <1>6 DEF CheckKey, StoreInput, StoreKey, Recalculate, At, Follow
  <2>2. PICK n : Turns(h, n) /\ Follows(r, n)
    BY <1>1, <2>1, GotoFollows
  <2>3. r.step \in KeySteps \cup {"recalculate"}
    BY <1>6 DEF CheckKey, StoreInput, StoreKey, Recalculate, At, KeySteps
  <2>4. n \in Good /\ Same(r, n) /\ n.step \in Follow(r)
        /\ (r.step = "recalculate" => n.step = "finish")
    BY <2>2 DEF Follows, Follow
  <2> QED
    BY <1>2, <1>3, <2>2, <2>3, <2>4, StageStays DEF PricingSteps
<1>7. CASE ReadInventory(h) \/ Placeholder(h) \/ Estimate(h) \/ WritePrice(h)
  <2>1. r.step \in {"readInventory", "placeholder", "estimate", "writePrice"}
    BY <1>7 DEF ReadInventory, Placeholder, Estimate, WritePrice, Update, At
  <2>2. PICK n : Turns(h, n) /\ (Follows(r, n) \/ Fails(r, n))
    BY <1>1, <1>7, WorkSteps
  <2>3. Follow(r) \subseteq PricingSteps /\ Caught(r.step) # "idle"
    BY <2>1 DEF Follow, Caught, PricingSteps, RunSteps
  <2> QED
    BY <1>2, <1>3, <2>1, <2>2, <2>3, StageStays DEF Follows, Fails
<1>8. CASE WriteMetadata(h) \/ Fail(h) \/ Crash(h)
  BY <1>4, <1>5, <1>8 DEF WriteMetadata, Fail, Crash
<1> QED
  BY <1>4, <1>5, <1>6, <1>7, <1>8

LEMMA WriteKept ==
  ASSUME NEW h \in Handlers, Acts(h),
         Ready(h) \/ Price(h) \/ Finish(h) \/ SetFailed(h) \/ DeleteSale(h)
  PROVE  Kept(h)
<1> DEFINE r == req[h]
<1>1. /\ r # Idle /\ TypeInv
      /\ sale \in [status : SaleStatuses \cup {Absent}, input : SUBSET Photos]
  BY DEF Ready, Price, Finish, SetFailed, DeleteSale, Transition, At,
         Acts, PipeInv, TypeInv, TypeOK
<1>2. r \in Good /\ r \in Request /\ Stage(r) /\ Turn(r) /\ Documents
  BY <1>1 DEF Acts, Good
<1>3. Exists /\ UNCHANGED <<bundles, items, started, lost, taken>> /\ (Renewed => Renewed')
  <2>1. UNCHANGED <<bundles, items, started, lost, taken>>
    BY DEF Ready, Price, Finish, SetFailed, DeleteSale, Transition, history
  <2> QED
    BY <1>2, <2>1, StageExists, RenewedStays
<1>4. CASE Ready(h) \/ Price(h) \/ Finish(h)
  <2>1. PICK s, next :
          /\ <<r.step, s, next>> \in {<<"ready", "ready_for_review", "price">>,
                                     <<"price", "pricing_in_progress", "readInventory">>,
                                     <<"finish", "ready_for_review", "metadata">>}
          /\ sale' = [sale EXCEPT !.status = s] /\ Goto(h, next)
    BY <1>3, <1>4 DEF Ready, Price, Finish, Transition, At
  <2>2. PICK n : Turns(h, n) /\ Follows(r, n)
    BY <1>1, <2>1, GotoFollows DEF Follow
  <2>3. Same(r, n) /\ n.step = next
    BY <2>1, <2>2 DEF Follows, Follow
  <2>4. sale'.status = s /\ s \in StatusAt(next) /\ s \in Captured
    BY <1>1, <2>1, Statuses DEF PricingSteps, Captured
  <2>5. started # {}
    BY <1>2, <2>1 DEF Turn, Running, TaskSteps, RunSteps, PricingSteps
  <2>6. Stage(n)'
    BY <2>1, <2>3, <2>4 DEF Stage, PlacingSteps
  <2>7. \A p \in taken : \E d \in Listed : d.photo = p
    <3>1. CASE r.step = "ready"
      BY <1>2, <3>1, AllListed DEF Stage, PlacingSteps
    <3>2. CASE r.step \in {"price", "finish"}
      BY <1>2, <3>2, Statuses DEF Stage, Documents, NothingLost, PricingSteps
    <3> QED
      BY <2>1, <3>1, <3>2
  <2>8. Documents'
    BY <1>2, <1>3, <2>4, <2>5, <2>7
       DEF Documents, NothingLost, DeletedMeansGone, Exists, Listed, Absent, Captured
  <2> QED
    BY <2>2, <2>6, <2>8 DEF Kept
<1>5. CASE SetFailed(h)
  <2>1. sale' = [sale EXCEPT !.status = "failed"] /\ End(h)
    BY <1>3, <1>5 DEF SetFailed, Transition, At
  <2>2. sale'.status = "failed"
    BY <1>1, <2>1
  <2>3. Documents'
    BY <1>2, <1>3, <2>2
       DEF Documents, NothingLost, DeletedMeansGone, Exists, Absent, Captured
  <2> QED
    BY <1>1, <2>1, <2>3, GoesOn DEF Kept
<1>6. CASE DeleteSale(h)
  <2>1. sale'.status = Absent /\ End(h) /\ bundles = {}
    BY <1>2, <1>6 DEF DeleteSale, At, Stage
  <2>2. items = {}
    BY <1>2, <2>1 DEF Documents
  <2>3. Documents'
    BY <1>2, <1>3, <2>1, <2>2 DEF Documents, NothingLost, DeletedMeansGone, Absent
  <2> QED
    BY <1>1, <2>1, <2>3, GoesOn DEF Kept
<1> QED
  BY <1>4, <1>5, <1>6

LEMMA ClearKept ==
  ASSUME NEW h \in Handlers, Acts(h),
         ListBundles(h) \/ ListItems(h) \/ DeleteItem(h) \/ DeleteBundle(h)
  PROVE  Kept(h)
<1> DEFINE r == req[h]
<1>1. r # Idle /\ req \in [Handlers -> {Idle} \cup Request]
      /\ UNCHANGED <<sale, started, taken, lost>>
  BY DEF ListBundles, ListItems, DeleteItem, DeleteBundle, At, Acts, PipeInv, TypeInv,
         TypeOK, history
<1>2. r \in Good /\ r \in Request /\ Stage(r) /\ OneAtATime /\ Documents
  BY <1>1 DEF Acts, Good
<1>3. /\ r.op \in {"retry", "delete_sale"} /\ sale.status \in {"pending_upload", "failed"}
      /\ Exists /\ r.step \in ClearSteps
  <2>1. r.step \in ClearSteps
    BY DEF ListBundles, ListItems, DeleteItem, DeleteBundle, At, ClearSteps
  <2>2. r.op # "finalize"
    BY <1>2, <2>1 DEF Good, Known, StepsOf, KeySteps, TaskSteps, ClearSteps, RunSteps,
                      PricingSteps
  <2> QED
    BY <1>2, <2>1, <2>2, Enabled, StageExists, Statuses DEF Stage
\* What all of them keep, whatever they clear.
<1>4. ASSUME NEW n, Same(r, n), Turns(h, n),
             bundles' \subseteq bundles, items' \subseteq items,
             \A d \in items' : d.bundle \in bundles',
             n.step \in ClearSteps \cup {Cleared(r.op)},
             n.step = "listItems" => bundles' \subseteq n.rest,
             n.step \in {"deleteItem", "deleteBundle"} =>
               /\ bundles' \subseteq n.rest \cup {n.bundle}
               /\ \A d \in items' : d.bundle = n.bundle =>
                    n.step = "deleteItem" /\ d \in n.todo,
             n.step = Cleared(r.op) => bundles' = {}
      PROVE  Kept(h)
  <2>0. Renewed => Renewed'
    BY <1>1, RenewedStays
  <2>1. Documents'
    BY <1>1, <1>2, <1>3, <1>4, <2>0
       DEF Documents, NothingLost, DeletedMeansGone, Exists, Captured
  <2>2. n.step \notin PlacingSteps
    BY <1>3, <1>4 DEF PlacingSteps, ClearSteps, Cleared
  <2>3. sale.status \in StatusAt(n.step)
    BY <1>3, <1>4, Statuses DEF Cleared, Captured
  <2>4. n.step \in {"start", "deleteSale"} => bundles' = {}
    BY <1>4 DEF ClearSteps
  <2>5. Stage(n)'
    BY <1>1, <1>3, <1>4, <2>2, <2>3, <2>4 DEF Stage, PlacingSteps
  <2> QED
    BY <1>4, <2>1, <2>5 DEF Kept
<1>5. CASE ListBundles(h)
  <2> DEFINE rest == IF r.op = "retry" /\ ~Exists THEN {} ELSE bundles
             step == IF rest = {} THEN Cleared(r.op) ELSE "listItems"
  <2>1. rest = bundles /\ step \in {Cleared(r.op), "listItems"}
        /\ (step # "listItems" => bundles = {})
    BY <1>3 DEF Cleared
  <2> HIDE DEF step
  <2>2. PICK n : n = [r EXCEPT !.rest = bundles, !.step = step]
    OBVIOUS
  <2>3. Turns(h, n) /\ UNCHANGED <<bundles, items>>
    BY <1>1, <1>5, <2>1, <2>2 DEF ListBundles, Turns, step
  <2>4. Same(r, n) /\ n.step = step /\ n.rest = bundles
    BY <1>2, <2>2 DEF Request, Same
  <2> QED
    BY <1>2, <1>4, <2>1, <2>3, <2>4 DEF Documents, ClearSteps, Cleared
<1>6. CASE ListItems(h)
  <2>0. PICK b \in r.rest :
          LET found == {d \in items : d.bundle = b}
          IN req' = [req EXCEPT
               ![h].bundle = b, ![h].rest = r.rest \ {b}, ![h].todo = found,
               ![h].step = IF found = {} THEN "deleteBundle" ELSE "deleteItem"]
    BY <1>6 DEF ListItems
  <2> DEFINE found == {d \in items : d.bundle = b}
             step == IF found = {} THEN "deleteBundle" ELSE "deleteItem"
  <2>1. /\ step \in {"deleteBundle", "deleteItem"}
        /\ \A d \in items : d.bundle = b => step = "deleteItem" /\ d \in found
    OBVIOUS
  <2> HIDE DEF step, found
  <2>2. PICK n : n = [r EXCEPT !.bundle = b, !.rest = r.rest \ {b}, !.todo = found,
                               !.step = step]
    OBVIOUS
  <2>3. Turns(h, n) /\ UNCHANGED <<bundles, items>> /\ r.step = "listItems"
    BY <1>1, <1>6, <2>0, <2>2 DEF ListItems, Turns, At, step, found
  <2>4. /\ Same(r, n) /\ n.step = step /\ n.rest = r.rest \ {b} /\ n.bundle = b
        /\ n.todo = found
    BY <1>2, <2>2 DEF Request, Same
  <2>5. bundles \subseteq n.rest \cup {n.bundle}
    BY <1>2, <2>3, <2>4 DEF Stage
  <2> QED
    BY <1>2, <1>4, <2>1, <2>3, <2>4, <2>5 DEF Documents, ClearSteps, Cleared
<1>7. CASE DeleteItem(h)
  <2>0. PICK d \in r.todo :
          /\ items' = items \ {d}
          /\ req' = [req EXCEPT
               ![h].todo = r.todo \ {d},
               ![h].step = IF r.todo = {d} THEN "deleteBundle" ELSE "deleteItem"]
    BY <1>7 DEF DeleteItem
  <2> DEFINE step == IF r.todo = {d} THEN "deleteBundle" ELSE "deleteItem"
  <2>1. step \in {"deleteBundle", "deleteItem"} /\ (step = "deleteBundle" => r.todo = {d})
    OBVIOUS
  <2> HIDE DEF step
  <2>2. PICK n : n = [r EXCEPT !.todo = r.todo \ {d}, !.step = step]
    OBVIOUS
  <2>3. Turns(h, n) /\ UNCHANGED bundles /\ r.step = "deleteItem"
    BY <1>1, <1>7, <2>0, <2>2 DEF DeleteItem, Turns, At, step
  <2>4. /\ Same(r, n) /\ n.step = step /\ n.rest = r.rest /\ n.bundle = r.bundle
        /\ n.todo = r.todo \ {d}
    BY <1>2, <2>2 DEF Request, Same
  <2>5. /\ bundles \subseteq n.rest \cup {n.bundle}
        /\ \A e \in items' : e.bundle = n.bundle => n.step = "deleteItem" /\ e \in n.todo
    <3>1. /\ bundles \subseteq r.rest \cup {r.bundle}
          /\ \A e \in items : e.bundle = r.bundle => e \in r.todo
      BY <1>2, <2>3 DEF Stage
    <3> QED
      BY <2>0, <2>1, <2>4, <3>1
  <2> QED
    BY <1>2, <1>4, <2>0, <2>1, <2>3, <2>4, <2>5 DEF Documents, ClearSteps, Cleared
<1>8. CASE DeleteBundle(h)
  <2> DEFINE step == IF r.rest = {} THEN Cleared(r.op) ELSE "listItems"
  <2>1. step \in {Cleared(r.op), "listItems"} /\ (step # "listItems" => r.rest = {})
    BY DEF Cleared
  <2> HIDE DEF step
  <2>2. PICK n : n = [r EXCEPT !.step = step]
    OBVIOUS
  <2>3. /\ Turns(h, n) /\ bundles' = bundles \ {r.bundle} /\ UNCHANGED items
        /\ r.step = "deleteBundle"
    BY <1>1, <1>8, <2>2 DEF DeleteBundle, Goto, Turns, At, step
  <2>4. Same(r, n) /\ n.step = step /\ n.rest = r.rest
    BY <1>2, <2>2 DEF Request, Same
  <2>5. /\ bundles \subseteq r.rest \cup {r.bundle}
        /\ \A e \in items : e.bundle # r.bundle
    BY <1>2, <2>3 DEF Stage
  <2> QED
    BY <1>2, <1>3, <1>4, <2>1, <2>3, <2>4, <2>5 DEF Documents, ClearSteps, Cleared
<1> QED
  BY <1>5, <1>6, <1>7, <1>8

LEMMA PlaceKept ==
  ASSUME NEW h \in Handlers, Acts(h), PlaceStep(h)
  PROVE  Kept(h)
<1> DEFINE r == req[h]
<1>1. r # Idle /\ TypeInv
  BY DEF PlaceStep, Start, AddBundle, AddItem, Refine, At, Acts, PipeInv
<1>2. /\ r \in Good /\ r \in Request /\ Placing(r) /\ Stage(r) /\ Turn(r) /\ Documents
      /\ OneAtATime
      /\ sale \in [status : SaleStatuses \cup {Absent}, input : SUBSET Photos]
      /\ items \subseteq ItemDocs
  BY <1>1 DEF Acts, Good, TypeInv, TypeOK
<1>3. Exists /\ r.step \in {"start", "addBundle", "addItem", "refine"} /\ r.op \in RunOps
  <2>1. r.step \in {"start", "addBundle", "addItem", "refine"}
    BY DEF PlaceStep, Start, AddBundle, AddItem, Refine, At
  <2> QED
    BY <1>2, <2>1, StageExists, TaskOps DEF TaskSteps, RunSteps
<1>4. r.step # "start" => started # {} /\ taken = r.input
  BY <1>2, <1>3 DEF Turn, Running, TaskSteps, RunSteps, Stage, PlacingSteps
\* What they keep, whatever they place.
<1>5. ASSUME NEW n, Placed(r, n), Turns(h, n),
             sale'.status = "processing", started' # {}, taken' = r.input,
             \A d \in items' : d.bundle \in bundles',
             \A p \in n.seen : \E d \in items' : d.photo = p,
             ~Renewed' => /\ \A c, d \in items' : c.photo = d.photo => c = d
                          /\ \A d \in items' : d.photo \in n.seen,
             n.step = "addItem" => n.bundle \in bundles'
      PROVE  Kept(h)
  <2>1. Documents'
    BY <1>5 DEF Documents, NothingLost, DeletedMeansGone, Exists, Absent, Captured
  <2>2. n.step \in PlacingSteps /\ n.op = r.op /\ n.input = r.input /\ n \in Good
    BY <1>5 DEF Placed, PlacingSteps
  <2>3. sale'.status \in StatusAt(n.step)
    BY <1>5, <2>2, Statuses
  <2>4. Stage(n)'
    BY <1>5, <2>2, <2>3 DEF Stage, Placed, PlacingSteps
  <2> QED
    BY <1>5, <2>1, <2>4 DEF Kept
<1>6. /\ \A d \in items : d.bundle \in bundles
      /\ ~Renewed => \A c, d \in items : c.photo = d.photo => c = d
  BY <1>2 DEF Documents
<1>7. r.step # "start" =>
        /\ sale.status = "processing"
        /\ \A p \in r.seen : \E d \in items : d.photo = p
        /\ ~Renewed => \A d \in items : d.photo \in r.seen
  BY <1>2, <1>3, Statuses DEF Stage, PlacingSteps
<1>8. CASE Start(h)
  <2>1. r.seen = {} /\ r.step = "start" /\ UNCHANGED <<bundles, items>>
        /\ started' = started \cup {Ran(r)} /\ taken' = r.input
    BY <1>2, <1>3, <1>8 DEF Placing, Start, At, Ran
  <2>5. Renewed' \/ items = {}
    <3>1. CASE r.op = "retry"
      BY <1>2, <1>6, <2>1, <3>1 DEF Stage
    <3>2. CASE r.op = "finalize" /\ started = {}
      BY <1>2, <1>6, <3>2 DEF Documents
    <3>3. CASE r.op = "finalize" /\ started # {}
      <4>1. PipeInv /\ KeyInv
        BY DEF Acts
      <4> QED
        BY <1>3, <1>8, <3>3, <4>1, RunAgain
    <3> QED
      BY <1>3, <3>1, <3>2, <3>3 DEF RunOps
  <2>2. PICK n : /\ sale' = [sale EXCEPT !.status = "processing"]
                 /\ Turns(h, n) /\ Placed(r, n) /\ n.seen = r.seen
                 /\ n.step # "addItem"
    BY <1>1, <1>2, <1>3, <1>8, StartPlaces
  <2>3. sale'.status = "processing" /\ started' # {}
    BY <1>2, <2>1, <2>2
  <2> QED
    BY <1>5, <1>6, <2>1, <2>2, <2>3, <2>5
<1>9. CASE AddBundle(h)
  <2>1. PICK n : /\ Turns(h, n) /\ Placed(r, n) /\ n.seen = r.seen
                 /\ n.step = "addItem" => n.bundle = r.bundle
    BY <1>1, <1>2, <1>9, AddBundlePlaces
  <2>2. bundles' = bundles \cup {r.bundle} /\ UNCHANGED <<sale, items, started, lost, taken>>
        /\ r.step = "addBundle"
    BY <1>9 DEF AddBundle, At, history
  <2>3. Renewed => Renewed'
    BY <2>2, RenewedStays
  <2> QED
    BY <1>4, <1>5, <1>6, <1>7, <2>1, <2>2, <2>3
<1>10. CASE AddItem(h)
  <2>1. PICK d \in ItemDocs : \E n :
           /\ d.bundle = r.bundle /\ d.photo \in r.input \ r.seen
           /\ items' = items \cup {d}
           /\ Turns(h, n) /\ Placed(r, n)
           /\ n.seen = r.seen \cup {d.photo}
           /\ n.step = "addItem" => n.bundle = r.bundle
    BY <1>1, <1>2, <1>10, AddItemPlaces
  <2>2. PICK n :
           /\ d.bundle = r.bundle /\ d.photo \in r.input \ r.seen
           /\ items' = items \cup {d}
           /\ Turns(h, n) /\ Placed(r, n)
           /\ n.seen = r.seen \cup {d.photo}
           /\ n.step = "addItem" => n.bundle = r.bundle
    BY <2>1
  <2>3. UNCHANGED <<sale, bundles, started, lost, taken>> /\ r.step = "addItem"
        /\ r.bundle \in bundles
    BY <1>2, <1>10 DEF AddItem, At, Stage, history
  <2>4. ~Renewed' => ~Renewed /\ \A c \in items : c.photo # d.photo
    BY <1>7, <2>2, <2>3, RenewedStays
  <2>5. ~Renewed' => /\ \A c, e \in items' : c.photo = e.photo => c = e
                     /\ \A e \in items' : e.photo \in n.seen
    BY <1>6, <1>7, <2>2, <2>3, <2>4
  <2>6. \A p \in n.seen : \E e \in items' : e.photo = p
    BY <1>7, <2>2, <2>3
  <2>7. \A e \in items' : e.bundle \in bundles'
    BY <1>6, <2>2, <2>3
  <2> QED
    BY <1>4, <1>5, <1>7, <2>2, <2>3, <2>5, <2>6, <2>7
<1>11. CASE Refine(h) /\ ~Raise(h)
  <2>1. PICK n : Turns(h, n) /\ Placed(r, n) /\ n.seen = r.seen /\ n.step # "addItem"
    BY <1>1, <1>2, <1>11, RefinePlaces
  <2>2. UNCHANGED <<sale, bundles, items, started, lost, taken>> /\ r.step = "refine"
    BY <1>11 DEF Refine, At, history
  <2>3. Renewed => Renewed'
    BY <2>2, RenewedStays
  <2> QED
    BY <1>4, <1>5, <1>6, <1>7, <2>1, <2>2, <2>3
<1>12. CASE Refine(h) /\ Raise(h)
  <2>1. PICK n : Turns(h, n) /\ Fails(r, n)
    BY <1>1, <1>12, RaiseFails
  <2>2. Quiet /\ r.step = "refine"
    BY <1>12 DEF Refine, At, Quiet, history
  <2>3. n = Idle \/ Stage(n)'
    BY <1>2, <2>1, <2>2, StageStays DEF Fails
  <2> QED
    BY <1>2, <2>1, <2>2, <2>3, DocumentsStay DEF Kept
<1> QED
  BY <1>8, <1>9, <1>10, <1>11, <1>12 DEF PlaceStep

LEMMA BeginKept ==
  ASSUME NEW h \in Handlers, Acts(h), BeginRequest(h)
  PROVE  Kept(h)
<1>1. TypeInv /\ OneAtATime /\ Documents
  BY DEF Acts, PipeInv
<1>2. PICK r : /\ Turns(h, r) /\ Begins(r) /\ Exists
               /\ r.op = "retry" => sale.status = "failed"
               /\ r.op = "delete_sale" => sale.status \in {"pending_upload", "failed"}
               /\ UNCHANGED <<sale, bundles, items, cached, history>>
  BY <1>1, BeginSteps
<1>3. r.op \in {"finalize", "retry", "delete_sale"}
  BY <1>1, <1>2, Enabled DEF Begins
<1>4. r.step \in IF r.op = "finalize" THEN {"checkKey", "storeInput"} ELSE {"listBundles"}
  BY <1>2, <1>3 DEF Begins
<1>5. sale.status \in StatusAt(r.step)
  BY <1>1, <1>2, <1>3, <1>4, Statuses DEF Documents, Exists, ClearSteps, KeySteps
<1>6. Stage(r)'
  BY <1>2, <1>4, <1>5 DEF Stage, PlacingSteps
<1>7. Quiet
  BY <1>2 DEF Quiet, history
<1> QED
  BY <1>1, <1>2, <1>6, <1>7, DocumentsStay DEF Kept

LEMMA SerialNext ==
  ASSUME OneAtATime, PipeInv, KeyInv, SerialInv, [Next]_vars
  PROVE  SerialInv'
<1>1. CASE UNCHANGED <<sale, bundles, items, req, started, taken>> /\ lost \subseteq lost'
  <2>1. Quiet /\ (Renewed => Renewed')
    BY <1>1, RenewedStays DEF Quiet
  <2>2. ASSUME NEW r, Stage(r)
        PROVE  Stage(r)'
    BY <1>1, <2>1, <2>2 DEF Stage
  <2> QED
    BY <1>1, <2>1, <2>2, DocumentsStay DEF SerialInv, Busy
<1>2. CASE \E h \in Handlers : Step(h)
  <2>1. PICK h \in Handlers : Step(h)
    BY <1>2
  <2>2. Acts(h) /\ TypeInv
    BY BusyGood DEF Acts, SerialInv, KeyInv, PipeInv, Busy
  <2>3. req[h] # Idle => req[h].step # "setStatus"
    BY <2>2, Enabled DEF Acts
  <2>4. Kept(h)
    <3>1. ~SetStatus(h)
      BY <2>3 DEF SetStatus, At
    <3> QED
      BY <2>1, <2>2, <3>1, StepCases, QuietKept, WriteKept, ClearKept, PlaceKept, BeginKept
         DEF Control, Work
  <2>5. PICK n : Turns(h, n) /\ (n = Idle \/ Stage(n)')
    BY <2>4 DEF Kept
  <2>6. \A g \in Busy' : req'[g] = n /\ n # Idle
    BY <2>2, <2>5, TurnsTo DEF Busy, OneAtATime
  <2>7. ASSUME NEW g \in Busy'
        PROVE  Stage(req[g])'
    BY <2>5, <2>6, <2>7 DEF Stage
  <2> QED
    BY <2>4, <2>7 DEF SerialInv, Kept
<1> QED
  BY <1>1, <1>2, HistoryGrows DEF Next, Step, vars, history, Expire

\* The sale's status takes a step of the diagram, or none; it goes back from
\* the review only when the sale is renewed.
LEMMA DiagramNext ==
  ASSUME OneAtATime, PipeInv, KeyInv, SerialInv, [Next]_vars
  PROVE  Diagram!Next
<1>0. Renewed => Renewed'
  BY HistoryGrows, RenewedStays
<1> SUFFICES ASSUME sale'.status # sale.status
             PROVE  Diagram!Drawn \/ Diagram!Undrawn
  BY <1>0 DEF Diagram!Next
<1>1. PICK h \in Handlers : Step(h)
  BY DEF Next, Step, vars, Expire
<1> DEFINE r == req[h]
<1>2. TypeInv /\ sale \in [status : SaleStatuses \cup {Absent}, input : SUBSET Photos]
  BY DEF PipeInv, TypeInv, TypeOK
<1>3. ~BeginRequest(h)
  BY <1>2, BeginSteps
<1>4. r # Idle
  BY <1>1, <1>3, Onward
<1>5. r \in Good /\ r \in Request /\ Stage(r) /\ Turn(r) /\ r.step # "setStatus"
  BY <1>2, <1>4, BusyGood, Enabled DEF SerialInv, KeyInv
<1>6. CASE r.step = "start" /\ sale'.status = "processing"
  <2>1. Start(h) /\ Exists /\ r.op \in RunOps
    <3>1. Start(h)
      BY <1>1, <1>2, <1>3, <1>6, StepCases
         DEF Control, Work, PlaceStep, CheckKey, StoreInput, StoreKey, SetStatus,
             DeleteBundle, DeleteSale, Ready, Price, Recalculate, Finish, WriteMetadata,
             SetFailed, Fail, Crash, Transition, ListBundles, ListItems, DeleteItem,
             ReadInventory, Placeholder, Estimate, WritePrice, Update, AddBundle, AddItem,
             Refine, At
    <3> QED
      BY <1>5, <1>6, <3>1, StageExists, TaskOps DEF TaskSteps, RunSteps
  <2>2. sale.status \in {"pending_upload", "failed"} \/ started # {}
    BY <2>1 DEF SerialInv, Documents, Exists
  <2>3. r.op = "retry" => sale.status \in {"pending_upload", "failed"}
    BY <1>5, <1>6 DEF Stage
  <2>4. CASE sale.status \in {"pending_upload", "failed"}
    BY <1>6, <2>4 DEF Diagram!Drawn, Diagram!Process, Diagram!Move
  <2>5. CASE sale.status \in {"ready_for_review", "pricing_in_progress"}
    <3>1. Renewed'
      BY <2>1, <2>2, <2>3, <2>5, RunAgain DEF RunOps
    <3> QED
      BY <1>6, <2>5, <3>1 DEF Diagram!Undrawn, Diagram!Again, Diagram!Move
  <2>6. sale.status \in Captured \ {"processing"}
    BY <1>5, <1>6, StageExists
  <2> QED
    BY <2>4, <2>5, <2>6 DEF Captured
<1>7. CASE /\ r.step # "start"
           /\ \E s \in Writes(r) : sale' = [sale EXCEPT !.status = s]
  <2>1. sale'.status \in Writes(r) /\ sale.status \in StatusAt(r.step)
    BY <1>2, <1>5, <1>7 DEF Stage
  <2>2. CASE r.step \in {"ready", "finish", "price"}
    BY <2>1, <2>2, Statuses
       DEF Writes, PlacingSteps, PricingSteps, Diagram!Drawn, Diagram!Review, Diagram!Price,
           Diagram!Priced, Diagram!Move
  <2>3. CASE r.step \in {"fail", "failPricing"}
    BY <2>1, <2>3, Statuses
       DEF Writes, Captured, Diagram!Drawn, Diagram!GiveUp, Diagram!Undrawn,
           Diagram!FailEarly, Diagram!Move
  <2> QED
    BY <1>5, <1>7, <2>2, <2>3 DEF Writes
<1>8. CASE r.step = "deleteSale" /\ sale' = [status |-> Absent, input |-> {}]
  <2>1. sale.status \in {"pending_upload", "failed"} /\ sale'.status = "absent"
    BY <1>5, <1>8, Statuses DEF Stage, Absent
  <2> QED
    BY <2>1 DEF Diagram!Undrawn, Diagram!Delete, Diagram!Move
<1>9. sale' # sale /\ sale' # [sale EXCEPT !.input = r.input]
  BY <1>2
<1>10. r.step = "start" /\ (\E s \in Writes(r) : sale' = [sale EXCEPT !.status = s]) =>
         sale'.status = "processing"
  BY <1>2 DEF Writes
<1> QED
  BY <1>1, <1>2, <1>6, <1>7, <1>8, <1>9, <1>10, SaleSteps

LEMMA SerialInit == Init => KeyInv /\ SerialInv
BY DEF Init, KeyInv, SerialInv, Documents, NothingLost, DeletedMeansGone, Exists, Absent,
       Busy, Captured

\* Together, the invariants that hold with one request at a time.
THEOREM SerialHolds ==
  ASSUME OneAtATime
  PROVE  Spec => [](KeyInv /\ SerialInv)
<1>1. PipeInv /\ KeyInv /\ SerialInv /\ [Next]_vars => KeyInv' /\ SerialInv'
  BY KeyNext, SerialNext
<1> QED
  BY <1>1, SerialInit, PipeInvHolds, PTL DEF Spec

\* However often a client finalizes under one key that is not forgotten, and
\* retries, no photo is captured twice.
THEOREM EachOnce ==
  ASSUME OneAtATime
  PROVE  Spec => []CapturedOnce
<1>1. SerialInv => CapturedOnce
  BY DEF SerialInv, Documents, CapturedOnce, Listed
<1> QED
  BY <1>1, SerialHolds, PTL

\* What is up for review has every photo of the run that prepared it, under
\* whatever keys it was finalized.
THEOREM EveryPhoto ==
  ASSUME OneAtATime
  PROVE  Spec => []NothingLost
<1>1. SerialInv => NothingLost
  BY DEF SerialInv, Documents
<1> QED
  BY <1>1, SerialHolds, PTL

\* A sale is deleted after everything in it.
THEOREM NothingLeft ==
  ASSUME OneAtATime
  PROVE  Spec => []DeletedMeansGone
<1>1. SerialInv => DeletedMeansGone
  BY DEF SerialInv, Documents
<1> QED
  BY <1>1, SerialHolds, PTL

\* The status of a captured sale goes as the diagram draws, but for the moves
\* that CaptureDiagram names.
THEOREM DiagramImplemented ==
  ASSUME OneAtATime
  PROVE  Spec => FollowsDiagram
<1>1. Init => Diagram!Init
  BY DEF Init, Diagram!Init, Renewed
<1>2. PipeInv /\ KeyInv /\ SerialInv /\ [Next]_vars =>
        [Diagram!Next]_<<sale.status, Renewed>>
  BY DiagramNext
<1> QED
  BY <1>1, <1>2, SerialHolds, PipeInvHolds, PTL DEF Spec, FollowsDiagram, Diagram!Spec
=============================================================================
