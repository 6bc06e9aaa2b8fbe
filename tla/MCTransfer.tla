---------------------------- MODULE MCTransfer ----------------------------
(***************************************************************************)
(* Small instances of the transfer service: the stores north and south,    *)
(* and a store nobody knows.  t1 and t2 are transfers of one unit from     *)
(* north to south.                                                         *)
(***************************************************************************)
EXTENDS TransferRefinement, TLC

CONSTANTS north, south, nowhere, t1, t2

Handle(ops, ids) == [op : ops, id : ids]
Create(from, to, q) == [op |-> "create", from |-> from, to |-> to, qty |-> q]

\* New transfers, one that asks for all the units and one from a store without a row, and
\* t1 from its start to its end.
CreateAndDeliver ==
    Handle({"start", "complete"}, {t1})
        \cup {Create(north, south, 1), Create(north, south, 3), Create(south, north, 1)}

\* t1 all the way, transfers that do not exist, and requests that createTransfer turns
\* away at once.
Delivery ==
    Handle({"start", "complete"}, {t1}) \cup Handle({"start"}, FreshIds)
        \cup {Create(north, north, 1), Create(north, nowhere, 1)}

\* Both transfers, handled in every way at once, and new ones that are started while their
\* creation may still be retried.
EveryHandling ==
    Handle({"start", "complete", "fail"}, {t1}) \cup Handle({"start"}, {t2} \cup FreshIds)
        \cup {Create(north, south, 1)}

Shelf(onHand, reserved) ==
    [EmptyItem EXCEPT !.onHand = onHand, !.available = onHand - reserved,
                      !.reserved = reserved]

Move(status) == [from |-> north, to |-> south, qty |-> 1, status |-> status]

\* south has no inventory row yet.
NorthOnly == (north :> Shelf(3, 0)) @@ (south :> None) @@ (nowhere :> None)
\* One unit of north is reserved for a customer.
CustomerToo == (north :> Shelf(3, 1)) @@ (south :> None) @@ (nowhere :> None)
\* One unit of north is reserved for t1, one for a customer.
OneUnderWay == (north :> Shelf(3, 2)) @@ (south :> Shelf(1, 0)) @@ (nowhere :> None)

OnePending == t1 :> Move("PENDING")
InTransitAndPending == (t1 :> Move("IN_TRANSIT")) @@ (t2 :> Move("PENDING"))

Symmetry == Permutations(Calls)
=============================================================================
