--------------------------- MODULE TransferLedger ---------------------------
(***************************************************************************)
(* What the transfer service promises: units of one product that are moved *)
(* between stores, each operation one indivisible step.                    *)
(***************************************************************************)
EXTENDS InventoryItem

CONSTANTS
    Stores, Ids, Quantities,
    None,               \* no row, no transfer
    InitialShelves,     \* Stores -> item or None
    InitialMoves        \* Ids -> transfer or None

VARIABLES shelf, moves

ledgerVars == <<shelf, moves>>

Move == [from : Stores, to : Stores, qty : Quantities,
         status : {"PENDING", "IN_TRANSIT", "COMPLETED", "FAILED"}]

Has(id, status) == moves[id] # None /\ moves[id].status = status

LedgerInit ==
    /\ shelf = InitialShelves
    /\ moves = InitialMoves

\* A move is planned from a shelf that exists.  It takes hold of nothing, and so says
\* nothing about the units there: they may be gone by the time it is to depart.
Plan(id, from, to, q) ==
    /\ moves[id] = None
    /\ from # to
    /\ shelf[from] # None
    /\ moves' = [moves EXCEPT ![id] =
                    [from |-> from, to |-> to, qty |-> q, status |-> "PENDING"]]
    /\ UNCHANGED shelf

Depart(id) ==
    /\ Has(id, "PENDING")
    /\ shelf[moves[id].from] # None
    /\ CanReserve(shelf[moves[id].from], moves[id].qty)
    /\ shelf' = [shelf EXCEPT ![moves[id].from] = ReserveStock(@, moves[id].qty)]
    /\ moves' = [moves EXCEPT ![id].status = "IN_TRANSIT"]

\* The units leave one shelf and are on the other.
Deliver(id) ==
    /\ Has(id, "IN_TRANSIT")
    /\ shelf' = [shelf EXCEPT
            ![moves[id].from] = ConfirmSale(@, moves[id].qty),
            ![moves[id].to] = AddStock(IF @ = None THEN EmptyItem ELSE @, moves[id].qty)]
    /\ moves' = [moves EXCEPT ![id].status = "COMPLETED"]

CallOff(id) ==
    \/ /\ Has(id, "PENDING")
       /\ moves' = [moves EXCEPT ![id].status = "FAILED"]
       /\ UNCHANGED shelf
    \/ /\ Has(id, "IN_TRANSIT")
       /\ shelf' = [shelf EXCEPT ![moves[id].from] = ReleaseStock(@, moves[id].qty)]
       /\ moves' = [moves EXCEPT ![id].status = "FAILED"]

LedgerNext ==
    \E id \in Ids :
        \/ \E from, to \in Stores, q \in Quantities : Plan(id, from, to, q)
        \/ Depart(id)
        \/ Deliver(id)
        \/ CallOff(id)

LedgerSpec == LedgerInit /\ [][LedgerNext]_ledgerVars
=============================================================================
