------------------------ MODULE MCInventoryLifecycle ------------------------
(***************************************************************************)
(* Instances of InventoryLifecycle for TLC: where the items start, and the *)
(* requests of each run.                                                   *)
(***************************************************************************)
EXTENDS InventoryLifecycle, TLC

CONSTANTS b1, b2, i1, i2

Symmetric == Permutations(Handlers)

\* One item in each bundle.
OneAndOne == i1 :> b1 @@ i2 :> b2
\* The only item.
Single == i1 :> b1
\* A sale whose inventory is yet to be added by hand.
Nowhere == [i \in Items |-> NoBundle]

\* Selling by item, bundle and sale, with items that are reserved, withdrawn
\* or moved in between.
SerialOps == SaleOps \cup {"publish_sale", "reserve_item", "mark_item_sold",
                           "mark_bundle_sold", "withdraw_item", "move_item"}

\* Everything but moves: a move that stops half way leaves two copies.
CrashOps == (LifecycleOps \cup EditOps \cup {"publish_sale", "archive_sale"})
              \ {"move_item"}

\* Requests that meet in a bundle, on the whole sale and on its status.
CrossingOps == {"publish_sale", "archive_sale", "mark_item_sold",
                "mark_sale_sold", "remove_item"}

SellingOps == {"publish_sale", "mark_item_sold"}
=============================================================================
