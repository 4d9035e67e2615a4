---------------------------- MODULE MCItemImages ----------------------------
(***************************************************************************)
(* The instance of ItemImages for TLC.                                     *)
(***************************************************************************)
EXTENDS ItemImages, TLC

Symmetric == Permutations(Images) \cup Permutations(Handlers)

AllOps == Ops

\* What is left of a request that is about to write the array: only that, but
\* for a removal, whose failure the history notes.
Doing(h) ==
  LET r == req[h]
  IN IF At(h, "write") /\ r.op # "delete_item_image"
     THEN <<r.view, Edited(r),
            IF r.op = "reorder_item_images" THEN Repeated(r.todo) \cap Ids(r.view) ELSE {}>>
     ELSE <<r>>

\* The sale's cover decides no step but its own removal.  Nor does what became
\* of the ids, once an array was written over another write and nothing new
\* begins, or once the item is gone, of which no property says anything.
View ==
  LET doing == [h \in Handlers |-> Doing(h)]
  IN CASE crossed > 0            -> <<exists, photos, stored, doing, doubled>>
       [] crossed = 0 /\ ~exists -> <<stored, req, confirmed>>
       [] crossed = 0 /\ exists  -> <<photos, stored, doing, history>>
=============================================================================
