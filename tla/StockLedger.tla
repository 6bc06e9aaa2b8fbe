---------------------------- MODULE StockLedger ----------------------------
(***************************************************************************)
(* What the reservation service promises: stock on a shelf and the holds   *)
(* on it.  Each operation is one indivisible step that either changes the  *)
(* counters and the hold together or changes nothing.                      *)
(***************************************************************************)
EXTENDS InventoryItem

CONSTANTS
    Items, Orders, Ids, Quantities,
    None,           \* no row, no hold
    InitialStock,   \* Items -> item or None
    InitialHolds    \* Ids -> hold or None

VARIABLES stock, holds

ledgerVars == <<stock, holds>>

Hold == [item : Items, qty : Quantities, orderRef : Orders,
         status : {"ACTIVE", "COMMITTED", "CANCELLED"}]

IsActive(id) == holds[id] # None /\ holds[id].status = "ACTIVE"

LedgerInit ==
    /\ stock = InitialStock
    /\ holds = InitialHolds

\* An order without a hold gets one, backed by available units.
PlaceHold(id, i, q, o) ==
    /\ holds[id] = None
    /\ \A other \in Ids : IsActive(other) => holds[other].orderRef # o
    /\ stock[i] # None
    /\ CanReserve(stock[i], q)
    /\ stock' = [stock EXCEPT ![i] = ReserveStock(@, q)]
    /\ holds' = [holds EXCEPT ![id] =
                    [item |-> i, qty |-> q, orderRef |-> o, status |-> "ACTIVE"]]

\* The units of a hold go back to available.
CancelHold(id) ==
    /\ IsActive(id)
    /\ stock' = [stock EXCEPT ![holds[id].item] = ReleaseStock(@, holds[id].qty)]
    /\ holds' = [holds EXCEPT ![id].status = "CANCELLED"]

\* The units of a hold leave the shelf.
SellHold(id) ==
    /\ IsActive(id)
    /\ stock' = [stock EXCEPT ![holds[id].item] = ConfirmSale(@, holds[id].qty)]
    /\ holds' = [holds EXCEPT ![id].status = "COMMITTED"]

LedgerNext ==
    \E id \in Ids :
        \/ \E i \in Items, q \in Quantities, o \in Orders : PlaceHold(id, i, q, o)
        \/ CancelHold(id)
        \/ SellHold(id)

LedgerSpec == LedgerInit /\ [][LedgerNext]_ledgerVars
=============================================================================
