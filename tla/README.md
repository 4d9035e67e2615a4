# ShiftReady backend: TLA+ models, checks and proofs

The backend (`src/app`, FastAPI on Firestore) lets a seller photograph a household, has
Gemini turn the photos into bundles of priced items, publishes them as a sale, and lets
seller and buyers message, haggle and close.  Nothing in it uses a Firestore transaction
or precondition: a handler is a sequence of single-document reads and writes with an
`await` at each, so any other request may run between two of them, on the same instance
or another one.  That is what these models are about.

## Inventory

| component | state | operations | hard behaviour | correct when |
|---|---|---|---|---|
| Sold-state lifecycle: `services/inventory_lifecycle.py`, `routers/sold.py`, `repos/transaction_repo.py` | `sale_status`, `sold_as` of items; cached `sale_status`, `sold_count`, `item_count` of bundles; status and counts of the sale; the `transactions` log | reserve, release, sell, withdraw, relist an item; sell or withdraw a bundle or the sale; the roll-up each ends with | two requests on one item or bundle; a roll-up computed from a query and written later; a request that stops between item, record and roll-up | an item is sold once; the log tells of sales that happened; the cached statuses become right again |
| Sale requests and edits: `routers/sales.py`, `repos/{sale,bundle,item}_repo.py` | sale, bundle and item documents | finalize, retry, publish, unpublish, republish, archive, delete; add and remove bundles and items, move an item | edits do not roll up; a move is three calls; delete and archive against a background run | a move loses nothing; a deleted sale leaves nothing |
| AI pipelines: `services/pipelines.py`, `core/idempotency.py` | the sale's status, `captureInput`, bundles and items; the idempotency key; a background task in the web process | refinement into bundles, pricing, failure, retry | calls that raise, an instance that dies, requests that are sent twice, any answer of Gemini | review finds each photo once; processing ends; a failed sale can be retried |
| Conversations and offers: `repos/conversation_repo.py`, `services/messaging.py`, `routers/messages.py` | conversation (unread counters, active offer, deal, block), messages, offers | start, send, read, block, unblock; offer, counter, accept, withdraw; pin, share and reveal a phone number | offer and message of an offer are written apart; status read in one call and written in another | an offer is settled once; the deal is at an accepted price; new messages are counted |
| Photos and covers: `routers/sales.py`, `repos/item_repo.py`, `utils/image.py` | the `images` array of an item, `coverImage` of the sale, originals and variants in storage, background tasks | confirm, remove, order, choose the cover; set the sale's cover from an upload or an item, clear it; make variants | everything but a confirm reads the array and writes it back whole, the tasks too, after the client was answered | no photo is listed twice or dropped, one is the cover, every photo gets its variants |
| User names: `repos/user_repo.py`, `services/auth.py` | user documents, `usernames/{name}` | sign-in, change of name, deletion of the account | three documents written in turn; look-up before reservation | names are unique and lead to their users |
| Live notifications: `services/notifier.py`, the two WebSocket endpoints | in-process sets of WebSockets, one per sale and one per user, on each instance | connect, greet, broadcast, clean up, disconnect | sets that change while a broadcast awaits each send; a status read before the connection is registered; instances | every connection that stays open hears the present status; none that is gone stays in memory |
| Notification records: `repos/notification_repo.py`, `services/messaging.py` | `users/{uid}/notifications` | create, mark one, mark all | told of by one call, stored by another; marked one by one while others arrive | who is told can fetch; what was unread when all are marked gets read |
| Marketplace: `repos/marketplace_repo.py`, `routers/marketplace.py` | none of its own; reads sale, bundles and items | search, list of live sales, page of a sale, page of an item | one answer put together from several queries while the seller writes | an answer is right about all that stood still |
| Push messages, framework | an outside service; wiring | | | not modelled, see below |

Components meet in documents, not in calls: the pipelines and the sold-state lifecycle
share the sale's status; the edits change what the roll-up reads; the marketplace reads what both
write, and `Marketplace` is composed with `InventoryLifecycle` for that reason.  `accept_offer` changes
the conversation only: the picture in `README.md:256-259` of the repository ("item
RESERVED, transaction created") has no counterpart in the code, so negotiation and
lifecycle are not composed.

## Modules

| module | models |
|---|---|
| `SaleStatus` | the status vocabularies of `domain/status.py` and the sets the guards test |
| `Rollup` | the pure part of the roll-up, and what the statuses are meant to say |
| `ItemLedger` | abstract: the life of an item as buyers see it |
| `InventoryLifecycle` | sold-state requests, status requests and edits of one sale, call by call |
| `InventoryLifecycle_proofs` | the roll-up means what it should; types, the inductive invariant, and that statuses roll up |
| `SoldOnce_proofs` | an item is sold once, is logged, is never lost, and lives as `ItemLedger` says |
| `Marketplace` | buyers' pages, composed with the requests of `InventoryLifecycle` |
| `Marketplace_proofs` | buyers change nothing; their answers are right |
| `CaptureDiagram` | abstract: the lifecycle of a captured sale up to its review, as the repository's diagram draws it and as it really goes |
| `CapturePipeline` | finalize and retry with the background run each starts, deletion, archiving |
| `CapturePipeline_proofs` | failed sales can be retried; under one key each photo is captured once and kept |
| `Negotiation` | one conversation: messages, unread counters, offers, blocking, phone numbers |
| `Negotiation_proofs` | messages are counted; answers are final, deals and phone numbers earned |
| `Usernames` | the registry of names |
| `Usernames_proofs` | names are unique and lead to their users |
| `LiveUpdates` | the two WebSocket streams of a sale's owner, and the notification records |
| `LiveUpdates_proofs` | connections are kept, told the truth and let go |
| `ItemImages` | the photos of one item, the sale's cover, and the tasks that make variants |
| `ItemImages_proofs` | photos are listed once, as confirmed, with original, variants and cover |
| `MC*` | constants and request sets of the instances TLC checks |

**How a handler is modelled.**  Each module has a set `Handlers`: requests in flight at
the same time.  `req[h]` is what the handler is executing: the operation, its next step
and its local variables (what it read or computed, and still has to write).  `Begin...`
takes a request; it contains the reads whose result is tested before anything else is
awaited (authentication, ownership and status guards).  A request that is refused there
changes nothing and is left out.  Every later Firestore call is an action of its own, and
`Proceed(h)` is their disjunction.  `Fail(h)` is a call that raises: what was written
stays, and the `except` clauses that apply are next.  In `CapturePipeline`, `Crash(h)` is the
death of the instance: the same without the `except` clauses.  In the other modules no
clause writes anything, so one action stands for both.

**InventoryLifecycle.**  `docs[b][i]` is the document `bundles/b/items/i`, `shelf[b]` the
bundle document's cached roll-up, `sale` the sale document, `ledger[i]` the number of
"sold" records that name item i.  An item operation goes `read`, `write`, `record`,
`listForRollup`, `rollBundle`, `listForSale`, `readSale`, `moveSale`, `countSale`; a bundle
operation starts with `listItems` and writes item after item; a sale-wide one loops over the
bundles it listed, rolls each up and writes one record.  `dirty` is a history variable: the
documents whose cached status no finished request vouches for.

**CapturePipeline.**  One handler goes through the request and the background task it leaves
behind.  `Refine` and `Estimate` draw what Gemini may answer: any groups, with photos
repeated, forgotten or outside the range; any subset of prices; nothing; an error.  `NextBundle`
is the loop over groups with `seen_indices` and the catch-all bundle at its end.  A finalize request
carries one of `Keys`, or `NoKey`; `cached` has the keys under which an answer is stored, and `Expire` is the
lapse of one (`_TTL_HOURS`), at any moment.  History: `lost`, the keys that were forgotten or not found;
`started`, the runs that came to set `processing`; `taken`, the photos of the last of them.  `Renewed` says of
these that a finalize ran after another run of the sale had, because its key was another one or was not found.

**Negotiation.**  `offers[o]` is the offer document, `cards[o]` the status in the message that
shows it, `conv` the conversation with its unread counters, its deal, its block and the users who
share their phone number (`shared`).  `news`, `torn` and `revealed` are history: users with a message
not read, offers whose request stopped half way, and users whose number the other was given.
`reply_offer` is an offer that names another one as its parent (`send_offer`,
`conversation_repo.py:317-323`).  Unlike accept, counter and withdraw it tests nothing of that offer and
makes it countered, whatever it was; `SettledOnce` names it as the one exception, and the run `Haggle` has it.

**Usernames.**  `user[u]` and `slug[n]` are `users/u` and `usernames/n`; every request begins with the
sign-in of `get_current_user`, which names a user who has no name.  `loose` is history: the
names that a deletion, or a request that stopped, was about.

**ItemImages.**  `photos` is the array in the item's document, `stored` the originals in storage, `cover` the
sale's `coverImage`.  A handler goes through its request and, after a confirm, through the tasks left
behind (`tasks`, one photo after the other: `generate`, `reread`, `writeVariants`).  `view` is the array it
read.  History: `confirmed`, `added` and `removed` say what became of an id, `unsmall` whose task failed,
`torn` whose removal stopped after the original was gone, `doubled` which an order named twice, `crossed` how
many arrays were written back over a write that came after they were read.  An order may name any ids, and
one of them twice: `Reordered` lists what the comprehension over `image_ids` does, with the last entry of an id
(`PhotoOf`, the dictionary of `item_repo.py:83`), and a removal asks the first one whether it is the cover
(`WasCover`).

**LiveUpdates.**  `registry[i]` holds the sets of connections of instance i; `socket[c]` is a connection as
its handler (`new`, `read`, `registered`, `open`, `over`) and its client (`alive`) see it; `task[h]` is a
request or background run reduced to the transitions of the status it writes, what it tells of them and
the records it creates or marks.  A broadcast is `Copy` (of the set), one `Send` per connection in any order,
and the clean-up with the last of them.  `status`, `notifs` are the documents.  History: `heard[c]` is
the status the client was last sent, `told` the records clients know of, `due` the connections that must
hear the present status.  `Crash(i)` takes an instance with its sets, connections and tasks.

**Marketplace.**  `visit[v]` is a buyer's request: its page, the query it makes next, the bundles still to be read
and the places (bundle, item) its answer shows.  `Seller` is any step of `InventoryLifecycle!Next`.  `steady`
is history: the places whose standing did not change since the visit began.

## Runs

| run | instance | shows |
|---|---|---|
| `LifecycleSerial` | 1 handler, 2 bundles, 2 items, no failures, fair | between requests the cached statuses are those the items call for (`RollsUpAutomatically`), every item sold by itself or with its bundle has its record, a move loses no item, selling the sale sells it (`SaleSoldCompletes`, liveness) |
| `LifecycleCrash` | 1 handler, 1 bundle and 2 items still to be added, failures anywhere | no item is sold twice, the log never tells of a sale that did not happen, every item follows `ItemLedger` (refinement) |
| `LifecycleCrossing` | 2 handlers, 2 bundles, 2 items, failures anywhere, one of the requests deletes items under the other | cached statuses are right again after the first undisturbed roll-up; the inductive invariant of the proof |
| `CaptureSerial` | 1 handler, 3 photos (1 unclear), 2 groups, 2 pricing attempts, 2 runs, 2 keys, stored answers that lapse, calls raise and instances die | each photo of its run is in the inventory (`NothingLost`), once under one key that is not forgotten (`CapturedOnce`); a failed sale can be retried, a deleted one is gone; the status follows `CaptureDiagram` (refinement): drawn moves, and the undrawn ones named there |
| `CaptureConcurrent` | 2 handlers, 1 photo, 2 runs, deletion, publishing, archiving, no crashes, fair | no status says that something runs when nothing does; processing ends (liveness) |
| `Haggle` | 1 handler, 3 offers, some of them replies to another, from before the conversation exists, blocking, phone sharing, failures anywhere | a settled offer stays settled unless a reply counters it; an agreed deal has an accepted offer, the active offer is open and cards follow answers, but for offers whose request stopped half way; a phone number is given after a deal and by its owner's leave |
| `Talk` | 2 handlers, 2 offers, 1 text, fair | counters never go below zero; a user with a message not read never sees a zero count for long; an acceptance makes the deal at its price (liveness) |
| `Names` | 1 handler, 3 users, 4 names, deletions, failures anywhere | names are unique and lead to their users |
| `Photos` | 2 handlers, 2 photos, every request, orders that may name a photo twice, failures anywhere | however requests and tasks overlap, no photo is listed twice but one an order named twice, and the cover is one photo; until an array is written over another write, the item lists what was confirmed and not removed, with its originals, its variants and a cover |
| `Stream` | 2 connections and 2 tasks on 1 instance, 2 notifications, failures and crashes | listeners hear the status that was announced (`ListenersHear`), no open connection is dropped, none is left behind, who is told of a notification finds it, marking all leaves none behind (`AllMarked`) |
| `Browse` | 1 buyer, 1 handler of the seller, 2 bundles, 2 items of which 1 is priced, no failures | a page put together from several queries is right about every place that stood still (`AnswerIsRight`) |
| `SoldTwice` | 2 handlers, 1 item | **violation**: two sold records of one item |

**Bounds.**  Two handlers are enough for every race listed under hazards: each is between two
requests on one document.  Two bundles are the fewest for which a sale's status depends on
more than one; two items the fewest that make a bundle partially sold.  Three photos with two
groups give every overlap of groups, one unclear photo and one for the catch-all.  Two runs allow a
failure and its retry, or a finalize under another key; `CaptureConcurrent` finalizes without a key, and the proof has any keys and runs.  `MaxSoldTx` is never reached with one
handler but for its test; with two it stops further sales once an item has a record.  `MaxOffers = 3`
is an offer, its counter-offer and a third that meets both settled.  Four names for three users
leave one free.  `Photos` has an item's photo and the one that stays when it is removed or
named by an order; orders name one photo twice (`MaxDoubled = 1`); after the first array written over another
write (`MaxCrossed = 1`) what is in flight goes on and nothing new begins.  `Stream` has the fewest connections of which one can die in the broadcast
that the other listens to, and two tasks, so that a broadcast can meet another and a mark-all a new message;
each connection opens once.  `Browse` leaves out the page of a sale, whose queries are those of the list; the
proof has all four pages, any number of visits, and failures.

**Views.**  `Photos` tells states apart (`View`) without the sale's cover, which no property reads and which decides no
step but its own removal; a request about to write the array counts by what it read and will write
(`Doing`), not by how the client put it; and the history of the ids is left out where nothing depends on it any
more, once an array was written over another write or the item is gone.  `Haggle` does so without the unread
counters and the messages not read (`ButTheCounters`), on which no step of its requests and none of its
properties depends; `Talk` checks those.

**Why the runs may end.**  `Capture*` turn deadlock checking off: the requests are bounded by
`MaxRuns`, and a deleted sale accepts none.  So does `Photos`: each photo is confirmed once, and an
item that is gone takes no request; and `Stream`: `MaxTasks` requests arrive, and each connection opens once.

**Fairness.**  `FairSpec` assumes weak fairness of `Proceed(h)` and nothing more: a Firestore or
Gemini call returns or raises (the clients have deadlines, and a pricing attempt counts either
way), and asyncio resumes a task whose call has returned.  No request has to arrive, and no
call has to succeed.

## What the checks found

`SoldTwice` shows a disagreement between the code and what the repository says of it;
`PROJECT.json` quotes it.  The following showed up in earlier runs of the same models, or while modelling, and
are the reason why some properties are stated with an exception:

* "Idempotency key deduplication" (`core/idempotency.py:2`): the key is looked up
  in one call and stored in another (`routers/sales.py:163-182`), so one finalize request delivered twice runs
  twice; and since it is stored before the run, after a crash the same request is answered from the store
  and nothing runs: `CapturedOnce` is checked one request at a time;
* finalize tests no status (`routers/sales.py:159-174`), and the store knows a key for 24 hours
  (`core/idempotency.py:10, 24-26`), if its calls do not fail (29, 48): under another key, under none, or later, a
  second finalize sets `processing` again, whatever the sale was (`Again` of `CaptureDiagram`), and adds its bundles to
  those that are there, so photos are listed twice: `Renewed` in `CapturedOnce` and `CaptureDiagram`.  Its
  photos replace `captureInput` before its run starts (168-171); if the instance dies there, the sale stays in
  review without them: `NothingLost` speaks of the photos of the run that prepared the review (`taken`);
* the diagram (`README.md:266-283`) has FAILED only after PROCESSING and PRICING_IN_PROGRESS.  The code also
  gets there from PENDING_UPLOAD, when the write of `processing` raises (`pipelines.py:96`), and from
  READY_FOR_REVIEW, when a call between review and pricing raises (203-221, 347-354); and a sale is deleted from
  PENDING_UPLOAD and FAILED, for which it draws nothing: `FailEarly` and `Delete` of `CaptureDiagram`;
* an offer can be accepted before its own request is done, whose last write then makes it the active,
  pending one again (`conversation_repo.py:315-345`; `README.md:259`): `AcceptReachesDeal` says that the deal is
  reached, not that it stays;
* a connection is greeted with the status read before it was registered (`routers/sales.py:314-331`): a transition
  between the two is not heard; PROCESSING, PRICING_IN_PROGRESS, publish and unpublish are never broadcast
  (`README.md:205-216, 541`); a connection on another instance hears nothing (`cloudbuild.yaml` allows three):
  `due` has only streams under way on the instance that announces;
* a notification record that cannot be created turns a message that was stored into an error
  (`services/messaging.py:44`), and the client sends it again;
* an item that moves during a visit is shown twice or not at all; its place did not stand still.  The list of
  live sales counts withdrawn items and items without a price, and the page of a sale shows the latter
  (`README.md:65`: excluded); the page of an item shows withdrawn items and items of sales that are not
  live; `sort="newest"` is never applied, and `limit(20)` is not "every" (`marketplace_repo.py:147`);
* edits never roll up, so removing the last unsold item leaves its bundle `partially_sold`
  (`routers/sales.py:526-582, 749-791`; `README.md:63`): `dirty` contains what an edit touched;
* `publish_sale` tests no status and revives an archived sale (`routers/sales.py:349-392`;
  `README.md:281`); a roll-up that read the sale before it was archived revives it too
  (`inventory_lifecycle.py:538-548`; `README.md:293`, "Frozen post-move");
* mark-sold of a sale with nothing left to sell answers `sold` and leaves it live
  (`routers/sold.py:251`): `SaleSoldCompletes` supposes something to sell;
* a move that stops half way leaves two copies of an item, which can both be sold
  (`item_repo.py:59-60`): `LifecycleCrash` has no moves;
* an instance that dies during a run leaves the sale in `processing` for good (`pipelines.py:96`);
  `ProcessingEnds` supposes that it does not;
* an archive, or a second retry, between a request and the start of its run is overwritten by
  the run (`routers/sales.py:217, 1011`); a run that overlaps a deletion leaves bundles behind
  (`routers/sales.py:1034`): `CaptureSerial` has one request at a time;
* an offer read by an acceptance and by a withdrawal is settled twice
  (`conversation_repo.py:369-375, 492-498`); a reply to an accepted offer makes it countered
  (line 320); the card of a withdrawn offer stays pending (476-527); a blocked user can take
  over the block and lift it (72-79): `SettledOnce` is checked one request at a time and names the reply as
  its exception, `CardsFollowAnswers` leaves out withdrawals;
* a reply to an accepted offer that stops after it made it countered leaves a deal whose offer is not accepted,
  and a phone number that goes with it (317-328): `AtAccepted` excepts an offer that is countered and in `torn`;
* an account that was deleted gets its email and name back from a request whose token still works
  (`user_repo.py:23-34` against 348-369);
* a change of name that stops between its writes, or a second deletion of an account, leaves
  a name that leads to no one or to someone else (`user_repo.py:129-137, 371`): `loose`;
* "Change username atomically" (`user_repo.py:94`) it is not: two requests that both find a name
  free both take it (lines 125-130), so `NamesUnique` is checked one request at a time;
* a task that stores variants writes the whole array it read: what the client confirmed, removed or
  ordered in between is undone (`routers/sales.py:809-818`): `crossed`;
* the variants of a cover are written with the cover itself, so a cover that was removed or replaced
  while they were made comes back (`routers/sales.py:831-835`), and a cover taken from an item keeps
  pointing at a photo that is removed later (496-507, 935);
* a confirm that is sent again lists the photo twice, since its `uploaded_at` differs
  (`routers/sales.py:889-901`); both copies then become the cover: clients are supposed to confirm once;
* an order that names a photo twice lists it twice (`models/schemas.py:184-185`, `item_repo.py:83-84`), with no
  overlap and no failure: `doubled`.  From then on the two entries may differ: the removal of the item's cover makes
  the first of them the cover, the next order keeps only the last, and the item has photos and no cover (TLC
  finds it), which is why `CoverKept` supposes that no order named a photo twice.

## Proofs

Eight modules of proofs, checked by tlapm for every value of the constants.

**`InventoryLifecycle_proofs`** begins with the roll-up.  `BundleStatusMeaning` and `SaleStatusMeaning`
say that the chains of count comparisons in `_rollup_bundle` and `_rollup_sale` compute
`DeclaredBundleStatus` and `DeclaredSaleStatus`, which are stated in terms of the items, for every finite
inventory without empty bundles.  They rest on lemmas about counting and sums over finite sets.

It then proves of `Spec`, for all constants that satisfy
`ConstantsAssumption` (any finite sets of bundles and items, any handlers, with or without
failures): `TypeCorrect`; `BundlesRollUp`, a bundle no request is about and no edit, failure or overlap
disturbed caches the right status and count; `SalesRollUp`, the same for the status of the sale;
`InvariantsHold`, `BundleInvariantHolds`, the inductive invariant itself; and `RollsUp`, which joins them to
the meaning of the roll-up: between requests the statuses are those the README of the repository promises of the items
(`RollsUpAutomatically`), however many requests overlapped or failed before.

Neither property is inductive: in the middle of a request the cached status is wrong, and it is
right afterwards only because the request still holds a correct roll-up.  `BundleInv` says
so: an undisturbed bundle is right *or* some request owes it a roll-up (`BundlesVouched`,
`Owes`); an undisturbed request that is about to write a roll-up holds that of the items as they
are now (`RollsRight`), because two requests about one document know of each other
(`OverlapsKnown`) and then neither vouches for it; and what a request may leave unvouched is in
`dirty` (`Marked`).  `SaleInv` adds the same one level up, where the roll-up is computed from
the bundle documents (`SaleVouched`, `SaleRollsRight`).  One lemma per action shows that it keeps
each conjunct.

**`SoldOnce_proofs`** assumes `OneAtATime` (one handler, which may stop at any call unless items are
moved): `SoldOnce`, `LedgerIsTrue`, and `LedgerImplemented`, the refinement of `ItemLedger`.  With two
requests an item is sold twice (run `SoldTwice`), and a move that stops half way leaves two
copies of it.  The invariant `SoldInv` has three parts: an item is in one bundle
(`SinglePlace`), or a move has just written the copy (`Copied`); what was recorded once as sold is sold
wherever it is, or removed (`Recorded`); and what a request has found or done when it comes to a step (`Stage`):
before it writes an item, the item is in a status it may be sold from and nothing is recorded of it;
before a move deletes the original, the copy is equal to it and alone once it is gone (`Carries`).
With `SinglePlace` the state of an item is that of the one document that was written, so each write is one
move of the ledger; both writes of a move are stuttering steps.

With one handler and moves: `MovesLoseNothing`, from `KeptInv`, that a move which is about to delete the
original has written a copy that buyers see, elsewhere (`Moving`).  If in addition nothing fails
(`Undisturbed`): `SalesAreLogged`, from `LogInv`, that a sold item is in the log or the request at work
will name it, whose items are all still there to be written (`Informed`).  Neither holds of two handlers: two
opposite moves lose an item, and a sale stops, unlogged, at an item another request has removed meanwhile.

**`CapturePipeline_proofs`** has all of the module's safety properties.  For any number of overlapping
requests that fail and crash: `TypeCorrect`; `AlwaysRetryable`, where the invariant `InputInv` adds
that the photos of any request past its `storeInput` stay as long as the sale.  For overlapping requests that
fail anywhere but in the write of "failed" and do not crash (`FailureIsWritten`; both really
leave an orphaned status): `NoneOrphaned`, from `WorkInv`: whenever the status says that a run is at
work, some run is at a step from which every way on leads to another status.  For one request at a time
(`OneAtATime`: finalize, retry or delete), under any keys that lapse or are not found, failing and crashing
anywhere: `EachOnce`, `EveryPhoto`, `NothingLeft`, and `DiagramImplemented`, the refinement of `CaptureDiagram`.
They rest on two invariants.  `KeyInv` is about which finalize requests run: the key of every finalize that ran is
stored or was lost, and a request on its way (`Turn`) comes after the runs that have started, gets past the look-up
only under a key that none of them had or that was lost, and has its key stored, or lost, before it starts; so a
finalize that starts after another run makes `Renewed` true.  `SerialInv` says
what a request has found or done at each step (`Stage`: the statuses it can see, what is left to clear, that the
photos of the items are just those the run has seen, unless `Renewed`) and that items are in bundles that exist and a
sale without a run has none (`Documents`).

**`Marketplace_proofs`** carries these over to the composition: `BrowsingChangesNothing`
(`MarketSpec` implies `Spec` of `InventoryLifecycle`, a refinement with the buyers hidden), and
`AnswersAreRight`, for any number of visits of all four pages and of failing requests.  Its invariant
says in the middle of a visit what the answer says at the end: a steady place of a bundle already
read is shown just if it is on show, and one of a bundle still to be read is not shown yet.

**`LiveUpdates_proofs`** has all five properties of `Stream` and the type, for any number of
connections, instances and tasks that fail and crash.  Inductive strengthenings: a broadcast takes only
connections that have gone out of a registry (`DeadAreGone`, for `OpenIsRegistered`); news of a record comes
after the record (`NewsIsStored`, for `ToldIsStored`); what a mark-all request was asked to mark is read or
still in its list (`MarkingAll`); and for `ListenersHear`, a connection that is due is open (`DueAreOpen`) and has
heard the present status or is still to be sent it by a task (`DueWillHear`), while nothing but that
status is announced (`NewsOfTheSale`).

**`Negotiation_proofs`.**  `EveryMessageCounts` is for any number of overlapping requests, under
`Undisturbed`: the conversation exists already, calls return, and no offer replies to another.
(A failure between the post of a message and its count leaves it uncounted, and `create` overwrites the
counters.)  The others assume `OneAtATime`, one handler, since with two they are false (see above), but any failures and
any number of offers and replies: `AnswersAreFinal`, `ActiveOffer`, `Cards`, `Deal` and `PhoneIsEarned`.  Their invariant is `SerialInv`: offers are numbered in
order (`Numbered`), a request has found and done what brought it to its step (`Staged`), the active offer is open
or being answered by a request at work (`ActiveInv`), a card agrees or is about to (`CardsInv`), and the deal's offer is accepted, or countered by
a reply that is at work or stopped there (`DealInv`).  A number is given in the last step of a request that
found the deal and the leave in its earlier steps, and with one handler they still are there.

**`Usernames_proofs`**: `Unique`, `Resolve`, `NoneAstray` under `OneAtATime` (one handler, which may stop
anywhere), again because two requests that find the same name free both take it.  `SerialInv`: what a
request has read is still so (`Staged`), a name that is no failure's or deletion's is held for its
user (`NamesHeld`), and who holds one has it or is about to (`HoldersNamed`).

**`ItemImages_proofs`** has all five properties of `Photos` and the type, for any number of photos and
of requests and tasks that overlap and fail, without a further assumption.  It begins with what each edit of
the array does to it.  A removal and an order are list comprehensions in the code; `ItemImages` writes
them as the selection of the positions that remain (`Selected`), whose increasing enumeration exists and is
onto by counting (`Enumeration`: how many of the positions are up to a given one), so that
no induction over the list is needed.  `Edits` says of every edit which photos are left, as small as
they were, none twice but those that were so already or are named twice, with a cover if there was one.  The inductive invariant is `ListInv`: an array
that a request read and will write back lists photos once (`Apart`, but for the doubled ones), and only photos that were added (`Staged`); what a
confirm still has to add is in storage, has not been added yet and is no other
confirm's (`Parted`).  That gives `EachListedOnce` even when writes go over one another.  On top of it,
as long as none did: `ListsConfirmed`; `OriginalsStored`, from `OriginalsInv` (a photo without its original is named by
a removal at work, or by one that failed); `VariantsCome`, from `VariantsInv` (a photo without variants has
its task still to come, `Coming`); and the action property `CoverStays`.

Only model-checked: liveness (`SaleSoldCompletes`, `ProcessingEnds`, `AcceptReachesDeal`), since no proof of
`ENABLED` is possible with these provers.

## Not modelled

Prices and titles (single-document writes, no guard depends on them); what is in a photo; audit
records other than "sold"; filters, order, totals and signed URLs of the marketplace, and the watch list
(single-document writes); push messages and Gemini other than by what they may return; the profile fields of
a user, saved sales and push tokens (single-document writes nothing else depends on); seed scripts and
request schemas; the framework.  Of the conversations: pins (`conversation_repo.py:95-150`, a list that is read
and written back by `patch_pin` and that no guard depends on), the rate limit and the 20-second cache of the unread
count in `routers/messages.py`, which need a clock.

## Plan

1. Done: every module of the table above, with its runs and proofs.
2. Left in the models: pins in `Negotiation`; opposite moves of one item by two requests; the
   profile that the deletion of an account scrubs and the next sign-in writes again
   (`user_repo.py:23-31, 360`); a clock for the unread cache.
3. Left in the proofs: what `OneAtATime` excludes but cannot go wrong, such as requests that overlap
   but are about different bundles, conversations or users.
