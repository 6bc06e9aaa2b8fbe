------------------------- MODULE TransferRefinement -------------------------
(***************************************************************************)
(* The transfer service implements TransferLedger for the calls that do    *)
(* not get in each other's way: any number of requests to create transfers *)
(* and to start and complete one, with a database that answers.            *)
(*                                                                         *)
(* A body changes the ledger when it writes the source's row.  From there  *)
(* on the ledger's transfer has its new status, and until the destination  *)
(* is written the ledger shows the object the body holds for it.           *)
(***************************************************************************)
EXTENDS TransferService

Delivering(s) ==
    {c \in Calls : pc[c] \in {"diffDest", "writeDest"} /\ transfer[c].to = s}

ShelfOf(s) ==
    IF Delivering(s) # {} THEN dest[CHOOSE c \in Delivering(s) : TRUE].item
    ELSE IF RowsOf(s) = {} THEN None
    ELSE inventory[CHOOSE r \in RowsOf(s) : TRUE].item

\* The bodies that have moved stock and not yet saved their transfer.
Moving(id) ==
    {c \in Calls :
        /\ pc[c] \in {"diffDest", "writeDest", "saveTransaction", "saveTransfer"}
        /\ request[c].op # "create"
        /\ TransferId(c) = id}

MoveOf(id) ==
    IF Moving(id) = {} THEN transfers[id]
    ELSE [transfers[id] EXCEPT !.status =
            NewStatus(request[CHOOSE c \in Moving(id) : TRUE].op)]

Ledger ==
    INSTANCE TransferLedger
        WITH shelf <- [s \in Stores |-> ShelfOf(s)],
             moves <- [id \in Ids |-> MoveOf(id)],
             Quantities <- {r.qty : r \in Requests \cap CreateRequest}
                           \cup {Prior[id].qty : id \in DOMAIN Prior},
             InitialShelves <- InitialStock,
             InitialMoves <- [id \in Ids |-> IF id \in DOMAIN Prior THEN Prior[id]
                                                                    ELSE None]

\* However often a transfer is asked to start or to complete, and however the steps of
\* those calls interleave, its units are reserved once and moved once, although three
\* rows are saved one after the other.
ImplementsTransfers == Ledger!LedgerSpec

\* While no body is between its saves, both stores together have all their units.
UnitsConserved ==
    (\A id \in Ids : Moving(id) = {}) => OnHand(Stored) = InitialOnHand
=============================================================================
