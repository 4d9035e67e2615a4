----------------------------- MODULE ItemLedger -----------------------------
(***************************************************************************)
(* What the sold-state handlers promise about a single item, whatever they *)
(* do to get there: the life of an item as its buyers see it.  Reserving   *)
(* takes an available item, only a reserved item is released, a withdrawn  *)
(* item comes back only by relisting, and a sold item stays sold until the *)
(* seller removes it from the inventory.                                   *)
(***************************************************************************)
CONSTANT Items

VARIABLE status

States == {"absent", "available", "reserved", "sold", "withdrawn", "gone"}

TypeOK == status \in [Items -> States]

Init == status \in [Items -> {"absent", "available"}]

Change(i, from, to) == /\ status[i] \in from
                       /\ status' = [status EXCEPT ![i] = to]

List(i)     == Change(i, {"absent"}, "available")
Reserve(i)  == Change(i, {"available"}, "reserved")
Release(i)  == Change(i, {"reserved"}, "available")
Sell(i)     == Change(i, {"available", "reserved"}, "sold")
Withdraw(i) == Change(i, {"available", "reserved"}, "withdrawn")
Relist(i)   == Change(i, {"withdrawn"}, "available")
Remove(i)   == Change(i, States \ {"absent", "gone"}, "gone")

Next == \E i \in Items : \/ List(i) \/ Reserve(i) \/ Release(i) \/ Sell(i)
                         \/ Withdraw(i) \/ Relist(i) \/ Remove(i)

Spec == Init /\ [][Next]_status
=============================================================================
