--------------------------- MODULE MCMarketplace ---------------------------
(***************************************************************************)
(* The instance of Marketplace for TLC: a buyer who looks at a sale while  *)
(* the seller changes it.                                                  *)
(***************************************************************************)
EXTENDS Marketplace, MCInventoryLifecycle

\* What changes where items are and whether they are on offer.
MarketOps == {"publish_sale", "withdraw_item", "move_item", "remove_bundle"}
=============================================================================
