------------------------------- MODULE Rollup -------------------------------
(***************************************************************************)
(* The pure part of the sold-status roll-up: how the cached status of a    *)
(* bundle is computed from the items a query returned, and the status of a *)
(* sale from the bundle documents a query returned.                        *)
(*                                                                         *)
(* A query result is a function from document names to statuses (items) or *)
(* to cached roll-ups (bundles).                                           *)
(***************************************************************************)
EXTENDS Naturals, FiniteSets, SaleStatus

BundleRollup == [status : BundleStatuses, sold : Nat, total : Nat]
SaleRollup   == [status : RolledUpStatuses, sold : Nat, total : Nat]

\* Mutant: a status of the sale where one of the bundle belongs.
LiveBundle == [status |-> "live", sold |-> 0, total |-> 0]

\* A bundle document no roll-up has written yet reads as this (the defaults
\* of the roll-up's .get() calls).
FreshBundle == [status |-> "available", sold |-> 0, total |-> 0]

Count(f, s) == Cardinality({x \in DOMAIN f : f[x] = s})

\* Mutant: a bundle with nothing left counts as sold, sold or withdrawn.
BundleStatusNothingLeft(f) ==
  LET sold == Count(f, "sold")
  IN CASE sold + Count(f, "withdrawn") = Cardinality(DOMAIN f) -> "sold"
       [] sold > 0 /\ Count(f, "available") > 0 -> "partially_sold"
       [] Count(f, "reserved") > 0 /\ Count(f, "available") = 0 /\ sold = 0
            -> "reserved"
       [] OTHER -> "available"

\* The status of a bundle whose items have the statuses f.
BundleStatusOf(f) ==
  LET total     == Cardinality(DOMAIN f)
      sold      == Count(f, "sold")
      withdrawn == Count(f, "withdrawn")
      reserved  == Count(f, "reserved")
      available == Count(f, "available")
  IN CASE withdrawn = total -> "withdrawn"
       [] withdrawn # total /\ sold + withdrawn = total /\ sold > 0 -> "sold"
       [] sold > 0 /\ available > 0 -> "partially_sold"
       [] reserved > 0 /\ available = 0 /\ sold = 0 -> "reserved"
       [] OTHER -> "available"

RollupBundle(f) == [status |-> BundleStatusOf(f),
                    sold   |-> Count(f, "sold"),
                    total  |-> Cardinality(DOMAIN f)]

\* The sum of f over its domain, counted as the size of a disjoint union.
SumOf(f) == Cardinality(UNION {{x} \X (1..f[x]) : x \in DOMAIN f})

SoldItems(c)  == SumOf([b \in DOMAIN c |-> c[b].sold])
TotalItems(c) == SumOf([b \in DOMAIN c |-> c[b].total])

\* The status of a sale whose bundle documents cache the roll-ups c.
SaleStatusOf(c) ==
  LET with(s) == {b \in DOMAIN c : c[b].status = s}
  IN IF with("sold") # {} /\ with("sold") \cup with("withdrawn") = DOMAIN c
     THEN "sold"
     ELSE IF SoldItems(c) > 0 THEN "partially_sold" ELSE "live"

RollupSale(c) ==
  [status |-> SaleStatusOf(c), sold |-> SoldItems(c), total |-> TotalItems(c)]
-----------------------------------------------------------------------------
(***************************************************************************)
(* The reference: what the statuses are meant to say of the items.         *)
(***************************************************************************)
Every(f, S) == \A x \in DOMAIN f : f[x] \in S
Some(f, s)  == \E x \in DOMAIN f : f[x] = s

\* A bundle with sold and reserved items and nothing else to sell falls
\* through to "available".
DeclaredBundleStatus(f) ==
  CASE Every(f, {"withdrawn"}) -> "withdrawn"
    [] Every(f, {"sold", "withdrawn"}) /\ Some(f, "sold") -> "sold"
    [] Some(f, "sold") /\ Some(f, "available") -> "partially_sold"
    [] /\ Some(f, "reserved")
       /\ ~Some(f, "available") /\ ~Some(f, "sold") -> "reserved"
    [] OTHER -> "available"

\* The status of a sale whose bundle b has items with the statuses stock[b].
DeclaredSaleStatus(stock) ==
  LET sold == \E b \in DOMAIN stock : Some(stock[b], "sold")
      done == \A b \in DOMAIN stock : Every(stock[b], {"sold", "withdrawn"})
  IN CASE sold /\ done  -> "sold"
       [] sold /\ ~done -> "partially_sold"
       [] ~sold         -> "live"
=============================================================================
