---------------------------- MODULE MCInventory ----------------------------
(***************************************************************************)
(* Small instances of the inventory service.                               *)
(***************************************************************************)
EXTENDS InventoryService, TLC

Write(op, qty) == [op |-> op, qty |-> qty, known |-> TRUE]

\* A restock, a correction that needs it where one unit is available, and a request that is
\* turned away before the row is read.
ThreeRequests == {Write("restock", 1), Write("adjust", -2), Write("restock", 0)}

\* No row yet, or two units of which one is reserved.
NoneOrTwo ==
    {None, [EmptyItem EXCEPT !.onHand = 2, !.available = 1, !.reserved = 1]}
=============================================================================
