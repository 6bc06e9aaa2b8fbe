--------------------------- MODULE InventoryItem ---------------------------
(***************************************************************************)
(* The InventoryItem aggregate: the stock counters of one product in one   *)
(* store.  A method that can throw is a pair of operators: the guard under *)
(* which it does not, and the item it leaves.                              *)
(*                                                                         *)
(* Only the counters are kept; ids, sync status and time stamps play no    *)
(* part in any decision of the code.                                       *)
(***************************************************************************)
EXTENDS Integers

Fields == {"onHand", "available", "reserved", "committed", "inTransit"}

InventoryItem ==
    [onHand : Int, available : Int, reserved : Int, committed : Int, inTransit : Int]

\* A new row: all counters at zero.
EmptyItem ==
    [onHand |-> 0, available |-> 0, reserved |-> 0, committed |-> 0, inTransit |-> 0]

\* Variant: what was sold is no longer counted.
IsConsistent_Shelf(item) == item.onHand = item.available + item.reserved

IsConsistent(item) == item.onHand = item.available + item.reserved + item.committed

CanReserve(item, qty) == item.available >= qty

ReserveStock(item, qty) ==
    [item EXCEPT !.available = @ - qty, !.reserved = @ + qty]

CanRelease(item, qty) == item.reserved >= qty

ReleaseStock(item, qty) ==
    [item EXCEPT !.reserved = @ - qty, !.available = @ + qty]

\* Variant: the check looks at the wrong counter.
CanConfirm_OnHand(item, qty) == item.onHand >= qty

CanConfirm(item, qty) == item.reserved >= qty

\* Variant: the sale is not counted.
ConfirmSale_NotCommitted(item, qty) ==
    [item EXCEPT !.reserved = @ - qty, !.onHand = @ - qty]

\* Variant: the units stay on hand.
ConfirmSale_Kept(item, qty) ==
    [item EXCEPT !.reserved = @ - qty, !.committed = @ + qty]

ConfirmSale(item, qty) ==
    [item EXCEPT !.reserved = @ - qty, !.committed = @ + qty, !.onHand = @ - qty]

AddStock(item, qty) ==
    [item EXCEPT !.onHand = @ + qty, !.available = @ + qty]

\* adjustStock throws when either counter would become negative: the check of
\* onHand comes first, the check of available only for qty <= 0.
CanAdjust(item, qty) ==
    /\ item.onHand + qty >= 0
    /\ qty > 0 \/ item.available + qty >= 0

AdjustStock(item, qty) ==
    [item EXCEPT !.onHand = @ + qty, !.available = @ + qty]

\* adjustStock assigns onHand before it checks available, so the object that the
\* second throw leaves behind has a new onHand and its old available.
AdjustStockThrown(item, qty) ==
    IF item.onHand + qty >= 0 THEN [item EXCEPT !.onHand = @ + qty] ELSE item

CanMarkInTransit(item, qty) == item.available >= qty

\* Variant: the units on the road stay on hand.
MarkInTransit_OnHand(item, qty) ==
    [item EXCEPT !.available = @ - qty, !.inTransit = @ + qty]

MarkInTransit(item, qty) ==
    [item EXCEPT !.available = @ - qty, !.inTransit = @ + qty, !.onHand = @ - qty]

CanConfirmTransferOut(item, qty) == item.inTransit >= qty

ConfirmTransferOut(item, qty) == [item EXCEPT !.inTransit = @ - qty]

-----------------------------------------------------------------------------
(* The repository's save is the ORM's: it selects the stored row, and      *)
(* updates the columns in which the object differs from it.  Between the   *)
(* two statements the row may change; the version column is not compared.  *)

Differing(object, stored) == {f \in Fields : object[f] # stored[f]}

\* UPDATE: the columns in cols take the object's value, the others keep the row's.
Merge(stored, object, cols) ==
    LET column(name, new, old) == IF name \in cols THEN new ELSE old
    IN  [onHand    |-> column("onHand", object.onHand, stored.onHand),
         available |-> column("available", object.available, stored.available),
         reserved  |-> column("reserved", object.reserved, stored.reserved),
         committed |-> column("committed", object.committed, stored.committed),
         inTransit |-> column("inTransit", object.inTransit, stored.inTransit)]

-----------------------------------------------------------------------------
(* What the counters promise.                                              *)

\* What is on the shelf is either available or reserved.
ShelfBalanced(item) == item.onHand = item.available + item.reserved

\* Nothing is promised or counted that does not exist.
CountersNonNegative(item) ==
    /\ item.available >= 0
    /\ item.reserved >= 0
    /\ item.committed >= 0
    /\ item.inTransit >= 0

NonNegative(item) == item.onHand >= 0 /\ CountersNonNegative(item)
=============================================================================
