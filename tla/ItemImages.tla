----------------------------- MODULE ItemImages -----------------------------
(***************************************************************************)
(* The photos of one item and the cover of its sale (routers/sales.py):    *)
(* the client uploads photos to storage and confirms them, removes one,    *)
(* chooses the item's cover, orders them, and sets or clears the cover of  *)
(* the sale.  Once a confirm is answered, a background task per photo      *)
(* makes small variants and stores their paths.                            *)
(*                                                                         *)
(* The photos are one array of the item's document.  A confirm adds to it  *)
(* in one write (ArrayUnion); everything else reads the document, edits    *)
(* the array, and writes it back whole, in no transaction.                 *)
(*                                                                         *)
(* Left out: the paths and the bytes, photos the AI pipeline put there     *)
(* (no request tells them apart), the status the sale must have.           *)
(***************************************************************************)
EXTENDS Naturals, Sequences, FiniteSets

CONSTANTS
  Images,      \* ids the upload-urls requests gave out
  Handlers,    \* requests in flight at the same time, and their tasks
  NoCover,
  EnabledOps,  \* the requests clients send
  MaxBatch,    \* bound: photos in one confirm or order
  MaxCrossed,  \* bound: no request begins after so many writes over another
  MaxDoubled,  \* bound: photos that orders name twice
  MayFail      \* whether a request may end at any step: an error or a crash

EditOps == {"delete_item_image", "set_item_image_cover",
            "reorder_item_images", "cover_from_item"}
Ops == EditOps \cup {"confirm_item_images", "confirm_cover", "delete_cover",
                     "remove_item"}

ASSUME ItemImagesAssumption ==
  /\ NoCover \notin Images
  /\ EnabledOps \subseteq Ops
  /\ MaxBatch \in Nat \ {0} /\ MaxCrossed \in Nat \ {0} /\ MaxDoubled \in Nat
  /\ MayFail \in BOOLEAN

VARIABLES
  exists,    \* whether the item's document exists
  photos,    \* its images
  cover,     \* coverImage of the sale's document
  stored,    \* the originals in storage
  req,       \* the request of each handler
  confirmed, added, removed,  \* history: what became of each id
  unsmall,   \* history: ids whose task failed or died
  torn,      \* history: ids whose removal failed half way
  doubled,   \* history: ids of the item an order named twice
  crossed    \* history: how many arrays were written over another write

history == <<confirmed, added, removed, unsmall, torn, doubled, crossed>>
vars == <<exists, photos, cover, stored, req, history>>
-----------------------------------------------------------------------------
Photo == [id : Images, isCover : BOOLEAN, small : BOOLEAN]
CoverImage == {NoCover} \cup [id : Images, small : BOOLEAN]

Elements(s) == {s[n] : n \in DOMAIN s}
Ids(s)      == {p.id : p \in Elements(s)}

\* The ids a list names twice.
Repeated(list) ==
  {i \in Elements(list) : \E j, k \in DOMAIN list : j # k /\ list[j] = i /\ list[k] = i}

Lists(n) == UNION {[1..k -> Images] : k \in 1..n}

Idle == [step |-> "idle"]

Steps == {"append", "setCover", "deleteBlob", "write",
          "generate", "reread", "writeVariants", "setVariants"}
TaskSteps == {"generate", "reread", "writeVariants", "setVariants"}

\* A request: the ids it names and has not dealt with, the array it read, and
\* the ids whose variants its background tasks still have to make.
Request == [op : Ops, step : Steps, todo : Seq(Images), view : Seq(Photo),
            tasks : Seq(Images)]

Busy == {h \in Handlers : req[h] # Idle}

TypeOK ==
  /\ exists \in BOOLEAN
  /\ photos \in Seq(Photo)
  /\ cover \in CoverImage
  /\ req \in [Handlers -> {Idle} \cup Request]
  /\ \A h \in Busy : IF req[h].step \in TaskSteps THEN req[h].tasks # <<>>
                     ELSE req[h].step # "write" => req[h].todo # <<>>
  /\ added \cup removed \subseteq confirmed
  /\ confirmed \cup stored \cup unsmall \cup torn \cup doubled \subseteq Images
  /\ crossed \in Nat

\* An item added by hand.
Init ==
  /\ exists = TRUE /\ photos = <<>> /\ cover = NoCover /\ stored = {}
  /\ req = [h \in Handlers |-> Idle]
  /\ confirmed = {} /\ added = {} /\ removed = {}
  /\ unsmall = {} /\ torn = {} /\ doubled = {} /\ crossed = 0

Begin(h, op, step, todo, view) ==
  /\ op \in EnabledOps /\ crossed < MaxCrossed
  /\ req[h] = Idle
  /\ req' = [req EXCEPT ![h] = [op |-> op, step |-> step, todo |-> todo,
                                view |-> view, tasks |-> <<>>]]

At(h, step) == req[h] # Idle /\ req[h].step = step
End(h)      == req' = [req EXCEPT ![h] = Idle]
Goto(h, step) == req' = [req EXCEPT ![h].step = step]
-----------------------------------------------------------------------------
(***************************************************************************)
(* Adding photos.                                                          *)
(***************************************************************************)

\* Clients confirm what they uploaded, and once.
BeginConfirm(h) ==
  \E list \in Lists(MaxBatch) :
    /\ Elements(list) \cap confirmed = {} /\ Repeated(list) = {}
    /\ \/ Begin(h, "confirm_item_images", "append", list, <<>>)
       \/ Len(list) = 1 /\ Begin(h, "confirm_cover", "setCover", list, <<>>)
    /\ stored' = stored \cup Elements(list)
    /\ confirmed' = confirmed \cup Elements(list)
    /\ UNCHANGED <<exists, photos, cover, added, removed, unsmall, torn,
                   doubled, crossed>>

\* One ArrayUnion per photo; after the last, the request is answered.
AddPhoto(h) ==
  LET r == req[h]
      i == Head(r.todo)
  IN /\ At(h, "append") /\ exists
     /\ photos' = Append(photos, [id |-> i, isCover |-> FALSE, small |-> FALSE])
     /\ added' = added \cup {i}
     /\ req' = [req EXCEPT
          ![h].todo = Tail(@), ![h].tasks = Append(@, i),
          ![h].step = IF Len(r.todo) = 1 THEN "generate" ELSE "append"]
     /\ UNCHANGED <<exists, cover, stored, confirmed, removed,
                    unsmall, torn, doubled, crossed>>
-----------------------------------------------------------------------------
(***************************************************************************)
(* Editing the array.                                                      *)
(***************************************************************************)

\* Each of these reads the item first and refuses one it does not have; an
\* order may name any ids, and one twice.
BeginEdit(h) ==
  /\ exists
  /\ \/ \E i \in Ids(photos) :
          \/ Begin(h, "delete_item_image", "deleteBlob", <<i>>, photos)
          \/ Begin(h, "set_item_image_cover", "write", <<i>>, photos)
          \/ Begin(h, "cover_from_item", "setCover", <<i>>, <<>>)
     \/ \E list \in Lists(MaxBatch) :
          /\ Cardinality(doubled \cup Repeated(list)) <= MaxDoubled
          /\ Begin(h, "reorder_item_images", "write", list, photos)
  /\ UNCHANGED <<exists, photos, cover, stored, history>>

\* Best effort: an error is swallowed.
DeleteBlob(h) ==
  /\ At(h, "deleteBlob")
  /\ stored' \in {stored, stored \ {Head(req[h].todo)}}
  /\ Goto(h, "write")
  /\ UNCHANGED <<exists, photos, cover, history>>

\* The numbers in K from the least to the greatest.
InOrder(K) == CHOOSE f \in [1..Cardinality(K) -> K] :
                \A j, k \in DOMAIN f : j < k => f[j] < f[k]

\* What s has at the positions in K, in its order.
Selected(s, K) == [n \in DOMAIN InOrder(K) |-> s[InOrder(K)[n]]]

Rest(s, ids) == Selected(s, {n \in DOMAIN s : s[n].id \notin ids})

\* Mutant: no photo takes the cover's place.
WithoutHeir(s, i) == Rest(s, {i})

Listed(s, i)  == {n \in DOMAIN s : s[n].id = i}
WasCover(s, i) == \E n \in Listed(s, i) :
                    s[n].isCover /\ \A m \in Listed(s, i) : n <= m

\* s without photo i; if it was the cover (as its first entry has it), the
\* first one left replaces it.
Without(s, i) ==
  LET rest == Rest(s, {i})
  IN IF rest # <<>> /\ WasCover(s, i)
     THEN [rest EXCEPT ![1].isCover = TRUE]
     ELSE rest

\* Mutant: the former cover stays one.
WithCoverToo(s, i) ==
  [n \in DOMAIN s |-> [s[n] EXCEPT !.isCover = @ \/ s[n].id = i]]

WithCover(s, i) == [n \in DOMAIN s |-> [s[n] EXCEPT !.isCover = (s[n].id = i)]]

\* The dictionary by id keeps the last entry.
PhotoOf(s, i) ==
  s[CHOOSE n \in Listed(s, i) : \A m \in Listed(s, i) : m <= n]

\* Mutant: the photos the request does not name are dropped.
ReorderedOnly(s, list) ==
  LET named == Selected(list, {n \in DOMAIN list : list[n] \in Ids(s)})
  IN [n \in DOMAIN named |-> PhotoOf(s, named[n])]

\* Mutant: the photos the request names are listed again.
ReorderedAgain(s, list) ==
  LET named == Selected(list, {n \in DOMAIN list : list[n] \in Ids(s)})
  IN [n \in DOMAIN named |-> PhotoOf(s, named[n])] \o s

\* The photos of s the list names, in its order, and then the others.
Reordered(s, list) ==
  LET named == Selected(list, {n \in DOMAIN list : list[n] \in Ids(s)})
  IN [n \in DOMAIN named |-> PhotoOf(s, named[n])]
       \o Rest(s, Elements(list))

\* Mutant: a removal takes the first photo.
EditedFirst(r) ==
  CASE r.op = "delete_item_image"    -> Tail(r.view)
    [] r.op = "set_item_image_cover" -> WithCover(r.view, Head(r.todo))
    [] r.op = "reorder_item_images"  -> Reordered(r.view, r.todo)

\* The array a request writes back.
Edited(r) ==
  CASE r.op = "delete_item_image"    -> Without(r.view, Head(r.todo))
    [] r.op = "set_item_image_cover" -> WithCover(r.view, Head(r.todo))
    [] r.op = "reorder_item_images"  -> Reordered(r.view, r.todo)

Write(h) ==
  LET r == req[h]
  IN /\ At(h, "write") /\ exists
     /\ photos' = Edited(r)
     /\ removed' = IF r.op = "delete_item_image"
                   THEN removed \cup {Head(r.todo)} ELSE removed
     /\ doubled' = IF r.op = "reorder_item_images"
                   THEN doubled \cup (Repeated(r.todo) \cap Ids(r.view)) ELSE doubled
     /\ crossed' = crossed + IF r.view # photos THEN 1 ELSE 0
     /\ End(h)
     /\ UNCHANGED <<exists, cover, stored, confirmed, added,
                    unsmall, torn>>

\* The item is gone: the update raises.
Missing(h) ==
  /\ ~exists
  /\ At(h, "append") \/ At(h, "write")
  /\ End(h)
  /\ UNCHANGED <<exists, photos, cover, stored, history>>

RemoveItem ==
  /\ "remove_item" \in EnabledOps
  /\ exists
  /\ exists' = FALSE /\ photos' = <<>>
  /\ UNCHANGED <<cover, stored, req, history>>
-----------------------------------------------------------------------------
(***************************************************************************)
(* The cover of the sale.                                                  *)
(***************************************************************************)
SetCover(h) ==
  LET r == req[h]
  IN /\ At(h, "setCover")
     /\ cover' = [id |-> Head(r.todo), small |-> FALSE]
     /\ IF r.op = "confirm_cover"
        THEN req' = [req EXCEPT ![h].step = "generate", ![h].todo = <<>>,
                                ![h].tasks = r.todo]
        ELSE End(h)
     /\ UNCHANGED <<exists, photos, stored, history>>

DeleteCover ==
  /\ "delete_cover" \in EnabledOps
  /\ cover # NoCover
  /\ cover' = NoCover
  /\ UNCHANGED <<exists, photos, stored, req, history>>
-----------------------------------------------------------------------------
(***************************************************************************)
(* The background tasks: one photo after the other, errors swallowed.      *)
(***************************************************************************)

\* Mutant: the tasks of a request end with its first photo.
NextTaskNone(h) == End(h)

NextTask(h) ==
  IF Len(req[h].tasks) = 1
  THEN End(h)
  ELSE req' = [req EXCEPT ![h].step = "generate", ![h].view = <<>>,
                          ![h].tasks = Tail(@)]

\* Downloads the original and stores its variants; any of it may fail.
Generate(h) ==
  LET r == req[h]
      i == Head(r.tasks)
  IN /\ At(h, "generate")
     /\ \/ /\ i \in stored
           /\ Goto(h, IF r.op = "confirm_cover" THEN "setVariants"
                      ELSE "reread")
           /\ UNCHANGED unsmall
        \/ NextTask(h) /\ unsmall' = unsmall \cup {i}
     /\ UNCHANGED <<exists, photos, cover, stored, confirmed, added,
                    removed, torn, doubled, crossed>>

Reread(h) ==
  /\ At(h, "reread")
  /\ IF exists
     THEN req' = [req EXCEPT ![h].view = photos, ![h].step = "writeVariants"]
     ELSE NextTask(h)
  /\ UNCHANGED <<exists, photos, cover, stored, history>>

WithVariants(s, i) ==
  [n \in DOMAIN s |-> IF s[n].id = i THEN [s[n] EXCEPT !.small = TRUE] ELSE s[n]]

WriteVariants(h) ==
  LET r == req[h]
  IN /\ At(h, "writeVariants")
     /\ photos' = IF exists THEN WithVariants(r.view, Head(r.tasks)) ELSE photos
     /\ crossed' = crossed + IF exists /\ r.view # photos THEN 1 ELSE 0
     /\ NextTask(h)
     /\ UNCHANGED <<exists, cover, stored, confirmed, added, removed,
                    unsmall, torn, doubled>>

\* Writes the cover the confirm set, whatever the cover is now.
SetVariants(h) ==
  /\ At(h, "setVariants")
  /\ cover' = [id |-> Head(req[h].tasks), small |-> TRUE]
  /\ NextTask(h)
  /\ UNCHANGED <<exists, photos, stored, history>>

\* A call raised, or the instance died: tasks not run are lost.
Fail(h) ==
  LET r == req[h]
  IN /\ MayFail /\ r # Idle
     /\ End(h)
     /\ unsmall' = unsmall \cup Elements(r.tasks)
     /\ torn' = IF r.op = "delete_item_image"
                THEN torn \cup (Elements(r.todo) \ stored) ELSE torn
     /\ UNCHANGED <<exists, photos, cover, stored, confirmed, added,
                    removed, doubled, crossed>>

Proceed(h) ==
  \/ AddPhoto(h) \/ DeleteBlob(h) \/ Write(h) \/ Missing(h) \/ SetCover(h)
  \/ Generate(h) \/ Reread(h) \/ WriteVariants(h) \/ SetVariants(h)

Next == \/ RemoveItem \/ DeleteCover
        \/ \E h \in Handlers :
             BeginConfirm(h) \/ BeginEdit(h) \/ Proceed(h) \/ Fail(h)

Spec == Init /\ [][Next]_vars
-----------------------------------------------------------------------------
HasCover(s) == \E p \in Elements(s) : p.isCover

\* However requests and tasks overlap or fail, no photo is listed twice unless
\* an order named it twice, and two entries that are both the item's cover
\* are of one photo, when clients confirm an upload once.
\* (set_item_image_cover, delete_item_image write back what they read;
\* reorder_images takes the list as it comes)
OneOfEach ==
  \A m, n \in DOMAIN photos :
    m # n => /\ photos[m].id = photos[n].id => photos[m].id \in doubled
             /\ photos[m].isCover /\ photos[n].isCover => photos[m].id = photos[n].id

\* As long as no array was written back over another write, the item lists
\* exactly the photos confirmed and not removed: no edit, order or variant
\* drops one or brings one back, whatever fails.
ListedAsConfirmed == (exists /\ crossed = 0) => Ids(photos) = added \ removed

\* Nor does a listed photo lack its original, but while its removal is under
\* way or after it failed half way: removal takes the original first.
ListedAreStored ==
  LET going == UNION {Elements(req[h].todo) :
                        h \in {g \in Busy : req[g].op = "delete_item_image"}}
  IN crossed = 0 => Ids(photos) \subseteq stored \cup torn \cup going

\* An item that has a cover keeps one while it has photos, as long as no array
\* was written back over another write and no order named a photo twice: of
\* two entries of one photo only one may be the cover, and an order keeps the
\* other.
CoverKept ==
  [][(crossed' = 0 /\ doubled' = {} /\ HasCover(photos) /\ photos' # <<>>)
       => HasCover(photos')]_vars

\* Once no request or task is left, every listed photo has its variants, each
\* photo of a request its own, unless its task failed or died, or a write went
\* over another.
VariantsArrive ==
  (Busy = {} /\ crossed = 0) =>
    \A p \in Elements(photos) : p.small \/ p.id \in unsmall
=============================================================================
