------------------------- MODULE InventoryItemLife -------------------------
(***************************************************************************)
(* The life of one inventory row under any legal sequence of calls of the  *)
(* aggregate's methods, one caller at a time.  object is the InventoryItem *)
(* in memory, stored the row it was loaded from.  A service loads the row, *)
(* calls a method, and saves the object only when the method returned: an  *)
(* object whose method threw is dropped.                                   *)
(*                                                                         *)
(* received, sold and shipped count what the calls that were saved moved;  *)
(* they are history, no method reads them.                                 *)
(***************************************************************************)
EXTENDS InventoryItem

CONSTANTS
    Quantities,   \* positive quantities a caller passes
    MaxStock      \* bound on what is ever brought in, to keep TLC's state space finite

ASSUME QuantitiesAssumption == Quantities \subseteq Nat \ {0}
ASSUME MaxStockAssumption == MaxStock \in Nat

VARIABLES stored, object, phase, received, sold, shipped

vars == <<stored, object, phase, received, sold, shipped>>

Init ==
    /\ stored = EmptyItem
    /\ object = EmptyItem
    /\ phase = "saved"
    /\ received = 0
    /\ sold = 0
    /\ shipped = 0

\* findByProductAndStore: the row becomes an object.
Load ==
    /\ phase = "saved"
    /\ phase' = "loaded"
    /\ object' = stored
    /\ UNCHANGED <<stored, received, sold, shipped>>

\* The method returned: the service saves the object.
Save(item) ==
    /\ phase = "loaded"
    /\ phase' = "saved"
    /\ object' = item
    /\ stored' = item

\* The method threw: the request fails and the object is dropped.
Throw(item) ==
    /\ phase = "loaded"
    /\ phase' = "saved"
    /\ object' = item
    /\ UNCHANGED <<stored, received, sold, shipped>>

Reserve(q) ==
    /\ CanReserve(object, q)
    /\ Save(ReserveStock(object, q))
    /\ UNCHANGED <<received, sold, shipped>>

Release(q) ==
    /\ CanRelease(object, q)
    /\ Save(ReleaseStock(object, q))
    /\ UNCHANGED <<received, sold, shipped>>

Confirm(q) ==
    /\ CanConfirm(object, q)
    /\ Save(ConfirmSale(object, q))
    /\ sold' = sold + q
    /\ UNCHANGED <<received, shipped>>

\* addStock and receiveTransfer have the same body.
Receive(q) ==
    /\ received + q <= MaxStock
    /\ Save(AddStock(object, q))
    /\ received' = received + q
    /\ UNCHANGED <<sold, shipped>>

Adjust(q) ==
    /\ received + q <= MaxStock
    /\ CanAdjust(object, q)
    /\ Save(AdjustStock(object, q))
    /\ received' = received + q
    /\ UNCHANGED <<sold, shipped>>

Ship(q) ==
    /\ CanMarkInTransit(object, q)
    /\ Save(MarkInTransit(object, q))
    /\ shipped' = shipped + q
    /\ UNCHANGED <<received, sold>>

Arrive(q) ==
    /\ CanConfirmTransferOut(object, q)
    /\ Save(ConfirmTransferOut(object, q))
    /\ UNCHANGED <<received, sold, shipped>>

Refuse(q) ==
    \/ ~CanReserve(object, q) /\ Throw(object)
    \/ ~CanRelease(object, q) /\ Throw(object)
    \/ ~CanMarkInTransit(object, q) /\ Throw(object)
    \/ ~CanConfirmTransferOut(object, q) /\ Throw(object)
    \/ ~CanAdjust(object, -q) /\ Throw(AdjustStockThrown(object, -q))

Next ==
    \/ Load
    \/ \E q \in Quantities :
        \/ Reserve(q) \/ Release(q) \/ Confirm(q) \/ Receive(q)
        \/ Adjust(q) \/ Adjust(-q) \/ Ship(q) \/ Arrive(q) \/ Refuse(q)

Spec == Init /\ [][Next]_vars

-----------------------------------------------------------------------------
\* Every counter of the object and of the row is an integer.
TypeOK ==
    /\ stored \in InventoryItem
    /\ object \in InventoryItem
    /\ phase \in {"saved", "loaded"}
    /\ {received, sold, shipped} \subseteq Int

\* No sequence of legal calls drives a counter of the saved row below zero: each
\* method's own check is enough, although none looks at all the counters it moves
\* (confirmSale takes from onHand after looking at reserved only).
StoredNonNegative == NonNegative(stored)

\* The units on the shelf are the available and the reserved ones, whatever
\* mixture of sales, shipments and corrections the row has been through.
StoredBalanced == ShelfBalanced(stored)

\* No unit appears or vanishes: what came in is on the shelf, sold or shipped out,
\* and committed counts exactly the units sold.
UnitsConserved ==
    /\ stored.onHand = received - sold - shipped
    /\ stored.committed = sold

\* isConsistent() counts committed units as on hand, and confirmSale takes them from
\* there: it is true of a row exactly until the first sale, and of no row afterwards.
ConsistentUntilSale == IsConsistent(stored) <=> sold = 0
=============================================================================
