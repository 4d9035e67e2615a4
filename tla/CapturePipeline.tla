--------------------------- MODULE CapturePipeline ---------------------------
(***************************************************************************)
(* From captured photos to a priced inventory: the finalize and retry      *)
(* requests of one sale, the background run each of them starts            *)
(* (refinement into bundles, then pricing), and the requests that publish, *)
(* archive or hard-delete the sale meanwhile.                              *)
(*                                                                         *)
(* A background task runs in the process of its request after the answer,  *)
(* so one handler goes through both.  Every write of a document is a step; *)
(* status transitions test nothing.  Gemini may answer anything or raise.  *)
(* The answer of a finalize request is stored under the idempotency key    *)
(* the client sent, if any, and forgotten when it lapses (_TTL_HOURS).     *)
(*                                                                         *)
(* Left out: names, prices, images; the metadata write between two         *)
(* transitions (a failure of it is one of the transition after it);        *)
(* notifications.  The summary of the inventory is read in one step, and   *)
(* the totals of all bundles are recalculated in one.                      *)
(***************************************************************************)
EXTENDS Naturals, Sequences, FiniteSets, SaleStatus

CONSTANTS
  Photos,      \* the captured frames a client may send
  Unclear,     \* those flagged needs_review
  Handlers,    \* requests in flight at the same time
  EnabledOps,  \* the requests clients send
  Keys,        \* the idempotency keys finalize requests carry
  NoKey,       \* stands for none: in Keys if one may come without
  MaxGroups,   \* bound: bundles Gemini groups the photos into
  MaxAttempts, \* pricing calls before giving up (max_retries + 1)
  MaxRuns,     \* bound: finalize and retry requests
  Fallible,    \* the steps whose Firestore call may raise
  MayCrash     \* whether an instance may die

Ops == {"finalize", "retry", "delete_sale", "publish_sale", "archive_sale"}
RunOps == {"finalize", "retry"}

ASSUME PipelineAssumption ==
  /\ IsFiniteSet(Photos) /\ Unclear \subseteq Photos
  /\ EnabledOps \subseteq Ops
  /\ MaxGroups \in Nat /\ MaxRuns \in Nat /\ MaxAttempts \in Nat \ {0}
  /\ MayCrash \in BOOLEAN

VARIABLES
  sale,     \* the sale document: status and captureInput
  bundles,  \* the bundle documents
  items,    \* the item documents, by the bundle they are in
  cached,   \* the keys under which a finalize's answer is stored
  req,      \* the request, then background run, of each handler
  runs,     \* requests so far that start a run (names their documents)
  \* History, read by the properties only:
  lost,     \* keys that did not, or not always, find what is stored under them
  started,  \* the runs that came to set "processing"
  taken     \* the photos of the last of them

history == <<lost, started, taken>>
vars == <<sale, bundles, items, cached, req, runs, history>>
-----------------------------------------------------------------------------
NeedsReview == 0               \* the bundle of unclear photos
General     == MaxGroups + 1   \* the catch-all; a group's is its number
BundleIds   == (1..MaxRuns) \X (NeedsReview..General)
ItemDocs    == [bundle : BundleIds, photo : Photos]

Idle == [step |-> "idle"]

RunSteps == {"start", "addBundle", "addItem", "refine", "ready", "price"}
PricingSteps == {"readInventory", "placeholder", "estimate", "writePrice",
                 "recalculate", "finish", "metadata"}
Steps == {"checkKey", "storeInput", "storeKey", "listBundles", "listItems",
          "deleteItem", "deleteBundle", "deleteSale", "setStatus", "fail",
          "failPricing"} \cup RunSteps \cup PricingSteps

\* A request: its photos (input), the bundles it still has to clear (rest),
\* the bundle it is at and what it still has to write there (todo, items); of
\* its run, the groups Gemini proposed and the photos it has placed (seen).
Request ==
  [op : Ops, step : Steps, key : Keys \cup {NoKey}, run : 0..MaxRuns,
   input : SUBSET Photos, rest : SUBSET BundleIds,
   bundle : {<< >>} \cup BundleIds, todo : SUBSET ItemDocs,
   groups : Seq(SUBSET Photos), grouped : BOOLEAN, seen : SUBSET Photos,
   context : SUBSET ItemDocs, attempt : 0..MaxAttempts]

Runs == [op : RunOps, key : Keys \cup {NoKey}, run : 1..MaxRuns]

Busy == {h \in Handlers : req[h] # Idle}

TypeOK ==
  /\ sale \in [status : SaleStatuses \cup {Absent}, input : SUBSET Photos]
  /\ bundles \subseteq BundleIds
  /\ items \subseteq ItemDocs
  /\ cached \subseteq Keys \ {NoKey}
  /\ req \in [Handlers -> {Idle} \cup Request]
  /\ runs \in 0..MaxRuns
  /\ lost \subseteq Keys \cup {NoKey}
  /\ started \subseteq Runs
  /\ taken \subseteq Photos

Exists == sale.status # Absent

\* The items a reader of the sale finds: those in bundles that exist.
Listed == {d \in items : d.bundle \in bundles}

Init ==
  /\ sale = [status |-> "pending_upload", input |-> {}]
  /\ bundles = {} /\ items = {}
  /\ cached = {}
  /\ req = [h \in Handlers |-> Idle]
  /\ runs = 0
  /\ lost = {NoKey} /\ started = {} /\ taken = {}
-----------------------------------------------------------------------------
(***************************************************************************)
(* Requests.                                                               *)
(***************************************************************************)
At(h, step) == req[h] # Idle /\ req[h].step = step

Goto(h, step) == req' = [req EXCEPT ![h].step = step]

End(h) == req' = [req EXCEPT ![h] = Idle]

\* Mutant: a run that raises in its refinement just ends.
RaiseQuietly(h) ==
  CASE req[h].step \in PricingSteps -> Goto(h, "failPricing")
    [] req[h].step = "failPricing" -> Goto(h, "fail")
    [] OTHER -> End(h)

\* The call of h raises: a run's except clause is next; the idempotency store
\* swallows its errors; any other handler answers 500.
Raise(h) ==
  CASE req[h].step = "checkKey" -> Goto(h, "storeInput")
    [] req[h].step = "storeKey" -> Goto(h, "start")
    [] req[h].step \in RunSteps -> Goto(h, "fail")
    [] req[h].step \in PricingSteps -> Goto(h, "failPricing")
    [] req[h].step = "failPricing" -> Goto(h, "fail")
    [] OTHER -> End(h)

\* Reading the sale document authorises the request; its guard tests that
\* reading.
Begin(h, op, step, key, input) ==
  /\ op \in EnabledOps
  /\ req[h] = Idle
  /\ Exists
  /\ op \in RunOps => runs < MaxRuns
  /\ runs' = IF op \in RunOps THEN runs + 1 ELSE runs
  /\ req' = [req EXCEPT ![h] =
       [op |-> op, step |-> step, key |-> key,
        run |-> IF op \in RunOps THEN runs' ELSE 0,
        input |-> input, rest |-> {}, bundle |-> << >>, todo |-> {},
        groups |-> << >>, grouped |-> FALSE, seen |-> {}, context |-> {},
        attempt |-> 0]]
  /\ UNCHANGED <<sale, bundles, items, cached, history>>

\* Finalizing tests no status.
BeginFinalize(h) ==
  \E key \in Keys, input \in (SUBSET Photos) \ {{}} :
    Begin(h, "finalize", IF key = NoKey THEN "storeInput" ELSE "checkKey", key, input)

CheckKey(h) ==
  /\ At(h, "checkKey")
  /\ IF req[h].key \in cached THEN End(h) ELSE Goto(h, "storeInput")
  /\ UNCHANGED <<sale, bundles, items, cached, runs, history>>

\* Mutant: the input is not stored.
SkipInput(h) ==
  /\ At(h, "storeInput")
  /\ Goto(h, IF req[h].key = NoKey THEN "start" ELSE "storeKey")
  /\ UNCHANGED <<sale, bundles, items, cached, runs, history>>

StoreInput(h) ==
  /\ At(h, "storeInput")
  /\ IF Exists
     THEN /\ sale' = [sale EXCEPT !.input = req[h].input]
          /\ Goto(h, IF req[h].key = NoKey THEN "start" ELSE "storeKey")
     ELSE Raise(h) /\ UNCHANGED sale
  /\ UNCHANGED <<bundles, items, cached, runs, history>>

\* Mutant: nothing is stored under the key.
StoreNothing(h) ==
  /\ At(h, "storeKey")
  /\ Goto(h, "start")
  /\ UNCHANGED <<sale, bundles, items, cached, runs, history>>

StoreKey(h) ==
  /\ At(h, "storeKey")
  /\ cached' = cached \cup {req[h].key}
  /\ Goto(h, "start")
  /\ UNCHANGED <<sale, bundles, items, runs, history>>

\* Mutant: a retry tests for the input only.
BeginRetryAny(h) ==
  /\ sale.input # {}
  /\ Begin(h, "retry", "listBundles", NoKey, sale.input)

BeginRetry(h) ==
  /\ sale.status = "failed"
  /\ sale.input # {}
  /\ Begin(h, "retry", "listBundles", NoKey, sale.input)

BeginDelete(h) ==
  /\ sale.status \in {"pending_upload", "failed"}
  /\ Begin(h, "delete_sale", "listBundles", NoKey, {})

BeginStatusOp(h) ==
  \/ Begin(h, "publish_sale", "setStatus", NoKey, {})
  \/ /\ sale.status \notin PipelineStatuses
     /\ Begin(h, "archive_sale", "setStatus", NoKey, {})

SetStatus(h) ==
  /\ At(h, "setStatus")
  /\ IF Exists
     THEN /\ sale' = [sale EXCEPT !.status =
                        IF req[h].op = "publish_sale" THEN "live" ELSE "archived"]
          /\ End(h)
     ELSE Raise(h) /\ UNCHANGED sale
  /\ UNCHANGED <<bundles, items, cached, runs, history>>
-----------------------------------------------------------------------------
(***************************************************************************)
(* Clearing: a retry deletes the bundles it finds, a hard delete the sale  *)
(* after them.  A deleted bundle's listing is what it held when listed.    *)
(***************************************************************************)
Cleared(op) == IF op = "retry" THEN "start" ELSE "deleteSale"

\* Mutant: the retry starts over without clearing.
ListNone(h) ==
  /\ At(h, "listBundles")
  /\ req' = [req EXCEPT ![h].rest = {}, ![h].step = Cleared(req[h].op)]
  /\ UNCHANGED <<sale, bundles, items, cached, runs, history>>

\* A retry of a sale that is gone finds no summary and clears nothing.
ListBundles(h) ==
  LET rest == IF req[h].op = "retry" /\ ~Exists THEN {} ELSE bundles
  IN /\ At(h, "listBundles")
     /\ req' = [req EXCEPT
          ![h].rest = rest,
          ![h].step = IF rest = {} THEN Cleared(req[h].op) ELSE "listItems"]
     /\ UNCHANGED <<sale, bundles, items, cached, runs, history>>

ListItems(h) ==
  /\ At(h, "listItems")
  /\ \E b \in req[h].rest :
       LET found == {d \in items : d.bundle = b}
       IN req' = [req EXCEPT
            ![h].bundle = b, ![h].rest = req[h].rest \ {b}, ![h].todo = found,
            ![h].step = IF found = {} THEN "deleteBundle" ELSE "deleteItem"]
  /\ UNCHANGED <<sale, bundles, items, cached, runs, history>>

DeleteItem(h) ==
  /\ At(h, "deleteItem")
  /\ \E d \in req[h].todo :
       /\ items' = items \ {d}
       /\ req' = [req EXCEPT
            ![h].todo = req[h].todo \ {d},
            ![h].step = IF req[h].todo = {d} THEN "deleteBundle" ELSE "deleteItem"]
  /\ UNCHANGED <<sale, bundles, cached, runs, history>>

DeleteBundle(h) ==
  /\ At(h, "deleteBundle")
  /\ bundles' = bundles \ {req[h].bundle}
  /\ Goto(h, IF req[h].rest = {} THEN Cleared(req[h].op) ELSE "listItems")
  /\ UNCHANGED <<sale, items, cached, runs, history>>

DeleteSale(h) ==
  /\ At(h, "deleteSale")
  /\ sale' = [status |-> Absent, input |-> {}]
  /\ End(h)
  /\ UNCHANGED <<bundles, items, cached, runs, history>>
-----------------------------------------------------------------------------
(***************************************************************************)
(* Refinement: photos into bundles.                                        *)
(***************************************************************************)
Place(r, label, photos) ==
  [r EXCEPT !.step = "addBundle", !.bundle = <<r.run, label>>,
            !.todo = [bundle : {<<r.run, label>>}, photo : photos]]

\* Mutant: the photos no group names are dropped.
NextNoCatchAll(r) ==
  IF ~r.grouped /\ ~(r.input \subseteq Unclear) THEN [r EXCEPT !.step = "refine"]
  ELSE IF r.groups # << >>
  THEN Place([r EXCEPT !.groups = Tail(@)], Len(r.groups), Head(r.groups) \ r.seen)
  ELSE [r EXCEPT !.step = "ready"]

\* What a run does after it has placed the photos seen so far: ask for groups,
\* the next group (a photo goes to the first group that names it), then the
\* catch-all bundle for what no group named.
NextBundle(r) ==
  LET missed == r.input \ r.seen
  IN IF ~r.grouped /\ ~(r.input \subseteq Unclear)
     THEN [r EXCEPT !.step = "refine"]
     ELSE IF r.groups # << >>
     THEN Place([r EXCEPT !.groups = Tail(@)], Len(r.groups),
                Head(r.groups) \ r.seen)
     ELSE IF missed # {}
     THEN Place(r, General, missed)
     ELSE [r EXCEPT !.step = "ready"]

Start(h) ==
  LET r == req[h]
      unclear == r.input \cap Unclear
  IN /\ At(h, "start")
     /\ IF Exists
        THEN /\ sale' = [sale EXCEPT !.status = "processing"]
             /\ started' = started \cup {[op |-> r.op, key |-> r.key, run |-> r.run]}
             /\ taken' = r.input
             /\ req' = [req EXCEPT ![h] =
                  IF unclear # {} THEN Place(r, NeedsReview, unclear)
                                  ELSE NextBundle(r)]
        ELSE Raise(h) /\ UNCHANGED <<sale, started, taken>>
     /\ UNCHANGED <<bundles, items, cached, runs, lost>>

AddBundle(h) ==
  LET r == req[h]
  IN /\ At(h, "addBundle")
     /\ bundles' = bundles \cup {r.bundle}
     /\ req' = [req EXCEPT ![h] = IF r.todo = {} THEN NextBundle(r)
                                  ELSE [r EXCEPT !.step = "addItem"]]
     /\ UNCHANGED <<sale, items, cached, runs, history>>

\* set() writes the item whether or not its bundle still exists.
AddItem(h) ==
  LET r == req[h]
  IN /\ At(h, "addItem")
     /\ \E d \in r.todo :
          LET n == [r EXCEPT !.todo = @ \ {d}, !.seen = @ \cup {d.photo}]
          IN /\ items' = items \cup {d}
             /\ req' = [req EXCEPT ![h] = IF n.todo = {} THEN NextBundle(n) ELSE n]
     /\ UNCHANGED <<sale, bundles, cached, runs, history>>

\* The groups Gemini may answer, without those that list no index (skipped):
\* it may repeat or forget photos; an index out of range names no photo.
Groupings(photos) == UNION {[1..n -> SUBSET photos] : n \in 0..MaxGroups}

\* No answer at all means one group of everything.
Refine(h) ==
  LET r == req[h]
      clear == r.input \ Unclear
  IN /\ At(h, "refine")
     /\ \/ \E answer \in Groupings(clear) \cup {<<clear>>} :
             req' = [req EXCEPT ![h] =
               NextBundle([r EXCEPT !.grouped = TRUE, !.groups = answer])]
        \/ Raise(h)
     /\ UNCHANGED <<sale, bundles, items, cached, runs, history>>

\* One transition of the sale's status by a run.
Transition(h, step, status, next) ==
  /\ At(h, step)
  /\ IF Exists
     THEN /\ sale' = [sale EXCEPT !.status = status]
          /\ IF next = "idle" THEN End(h) ELSE Goto(h, next)
     ELSE Raise(h) /\ UNCHANGED sale
  /\ UNCHANGED <<bundles, items, cached, runs, history>>

Ready(h) == Transition(h, "ready", "ready_for_review", "price")
Price(h) == Transition(h, "price", "pricing_in_progress", "readInventory")
-----------------------------------------------------------------------------
(***************************************************************************)
(* Pricing.                                                                *)
(***************************************************************************)
Unpriced(r) == IF r.context = {} THEN "recalculate" ELSE "estimate"

ReadInventory(h) ==
  LET unclear == {d \in Listed : d.photo \in Unclear}
      n == [req[h] EXCEPT !.rest = bundles, !.context = Listed \ unclear,
                          !.todo = unclear, !.attempt = 1]
  IN /\ At(h, "readInventory")
     /\ IF Exists
        THEN req' = [req EXCEPT ![h] =
               [n EXCEPT !.step = IF unclear = {} THEN Unpriced(n) ELSE "placeholder"]]
        ELSE Raise(h)
     /\ UNCHANGED <<sale, bundles, items, cached, runs, history>>

\* An update of an item: raises if the document is gone.
Update(h, step, next) ==
  LET r == req[h]
  IN /\ At(h, step)
     /\ \E d \in r.todo :
          IF d \in items
          THEN req' = [req EXCEPT
                 ![h].todo = r.todo \ {d},
                 ![h].step = IF r.todo = {d} THEN next ELSE step]
          ELSE Raise(h)
     /\ UNCHANGED <<sale, bundles, items, cached, runs, history>>

Placeholder(h) == Update(h, "placeholder", Unpriced(req[h]))
WritePrice(h)  == Update(h, "writePrice", "recalculate")

\* Mutant: one attempt too many.
EstimateAgain(h) ==
  LET r == req[h]
  IN /\ At(h, "estimate")
     /\ \/ \E priced \in SUBSET r.context :
             req' = [req EXCEPT
               ![h].todo = priced,
               ![h].step = IF priced = {} THEN "recalculate" ELSE "writePrice"]
        \/ IF r.attempt <= MaxAttempts
           THEN req' = [req EXCEPT ![h].attempt = @ + 1]
           ELSE Raise(h)
     /\ UNCHANGED <<sale, bundles, items, cached, runs, history>>

\* Gemini prices some of the items, or answers nothing, or raises: the last
\* attempt's failure fails the run.
Estimate(h) ==
  LET r == req[h]
  IN /\ At(h, "estimate")
     /\ \/ \E priced \in SUBSET r.context :
             req' = [req EXCEPT
               ![h].todo = priced,
               ![h].step = IF priced = {} THEN "recalculate" ELSE "writePrice"]
        \/ IF r.attempt < MaxAttempts
           THEN req' = [req EXCEPT ![h].attempt = @ + 1]
           ELSE Raise(h)
     /\ UNCHANGED <<sale, bundles, items, cached, runs, history>>

\* The totals of the bundles read at the start; a bundle that is gone raises.
Recalculate(h) ==
  /\ At(h, "recalculate")
  /\ IF req[h].rest \subseteq bundles THEN Goto(h, "finish") ELSE Raise(h)
  /\ UNCHANGED <<sale, bundles, items, cached, runs, history>>

Finish(h) == Transition(h, "finish", "ready_for_review", "metadata")

WriteMetadata(h) ==
  /\ At(h, "metadata")
  /\ IF Exists THEN End(h) ELSE Raise(h)
  /\ UNCHANGED <<sale, bundles, items, cached, runs, history>>

\* The except clauses.  That of the refinement also catches what that of the
\* pricing raises.
SetFailed(h) == \/ Transition(h, "fail", "failed", "idle")
                \/ Transition(h, "failPricing", "failed", "idle")

\* A call raises.  Of the two calls of the idempotency store nothing shows but
\* that a stored answer is not found, now or later.
Fail(h) ==
  LET r == req[h]
  IN /\ r # Idle /\ r.step \in Fallible
     /\ Raise(h)
     /\ lost' = lost \cup CASE r.step = "checkKey" -> {r.key} \cap cached
                           [] r.step = "storeKey" -> {r.key}
                           [] OTHER -> {}
     /\ UNCHANGED <<sale, bundles, items, cached, runs, started, taken>>

\* The instance dies: the request and its background task are gone.
Crash(h) == /\ MayCrash /\ req[h] # Idle
            /\ End(h)
            /\ UNCHANGED <<sale, bundles, items, cached, runs, history>>
-----------------------------------------------------------------------------
\* A stored answer lapses.
Expire(key) ==
  /\ key \in cached
  /\ cached' = cached \ {key} /\ lost' = lost \cup {key}
  /\ UNCHANGED <<sale, bundles, items, req, runs, started, taken>>

BeginRequest(h) == \/ BeginFinalize(h) \/ BeginRetry(h) \/ BeginDelete(h)
                   \/ BeginStatusOp(h)

Proceed(h) ==
  \/ CheckKey(h) \/ StoreInput(h) \/ StoreKey(h) \/ SetStatus(h)
  \/ ListBundles(h) \/ ListItems(h) \/ DeleteItem(h) \/ DeleteBundle(h)
  \/ DeleteSale(h) \/ Start(h) \/ AddBundle(h) \/ AddItem(h) \/ Refine(h)
  \/ Ready(h) \/ Price(h) \/ ReadInventory(h) \/ Placeholder(h) \/ Estimate(h)
  \/ WritePrice(h) \/ Recalculate(h) \/ Finish(h) \/ WriteMetadata(h)
  \/ SetFailed(h)

Next ==
  \/ \E h \in Handlers : BeginRequest(h) \/ Proceed(h) \/ Fail(h) \/ Crash(h)
  \/ \E key \in Keys : Expire(key)

Spec == Init /\ [][Next]_vars

\* Calls return or raise, and the event loop resumes the task.
FairSpec == Spec /\ \A h \in Handlers : WF_vars(Proceed(h))
-----------------------------------------------------------------------------
(***************************************************************************)
(* Properties.                                                             *)
(***************************************************************************)

\* A finalize request ran after another run of the sale had: its key was
\* another one, or it was the same and was not found.
Renewed ==
  \E a, b \in started :
    /\ a.run < b.run /\ b.op = "finalize"
    /\ a.op = "retry" \/ a.key # b.key \/ b.key \in lost

\* However often a client sends its finalize request, under one key that is
\* not forgotten, and retries what failed or died, the inventory lists each
\* photo once.  (Idempotency-Key, sales.py 162-182; "Clears existing bundles
\* first", sales.py:214; seen_indices of the pipeline)
CapturedOnce ==
  ~Renewed => \A c, d \in Listed : c.photo = d.photo => c = d

\* What is presented for review holds every photo of the run that prepared it,
\* whatever Gemini answered.  (pipelines.py 153-184)
NothingLost ==
  sale.status \in {"ready_for_review", "pricing_in_progress"} =>
    \A p \in taken : \E d \in Listed : d.photo = p

\* A deleted sale leaves nothing behind ("Purges GCS + Firestore",
\* sales.py:1028).
DeletedMeansGone == ~Exists => bundles = {} /\ items = {}

\* A failed sale can be retried: the input is there.  (FAILED is
\* "recoverable", README.md:294; sales.py 217-224)
FailedIsRetryable == sale.status = "failed" => sale.input # {}

\* When nothing runs, no status claims that something does.
NoOrphanedStatus == Busy = {} => sale.status \notin PipelineStatuses

\* Processing comes to an end, in review or in failure.
ProcessingEnds ==
  sale.status \in PipelineStatuses ~> sale.status \notin PipelineStatuses

\* The lifecycle diagram of a captured sale, up to its review, and the moves
\* that are not drawn there.  (README.md 266-283)
Diagram == INSTANCE CaptureDiagram WITH status <- sale.status, renewed <- Renewed
FollowsDiagram == Diagram!Spec
=============================================================================
