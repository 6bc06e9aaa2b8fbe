----------------------- MODULE ReservationRefinement -----------------------
(***************************************************************************)
(* The reservation service implements StockLedger where its lock does its  *)
(* work: calls that are serialised per row, and a database that answers.   *)
(*                                                                         *)
(* A body changes the ledger at its first save, that of the reservation.   *)
(* From there until the UPDATE of the inventory row, the row the ledger    *)
(* shows is the one the body holds in memory.                              *)
(***************************************************************************)
EXTENDS ReservationService, Functions

Saving(i) ==
    {c \in Calls : pc[c] \in {"diffInventory", "writeInventory"} /\ request[c].item = i}

LedgerStock ==
    [i \in Items |->
        IF Saving(i) = {} THEN inventory[i] ELSE row[CHOOSE c \in Saving(i) : TRUE]]

Ledger ==
    INSTANCE StockLedger
        WITH stock <- LedgerStock,
             holds <- resv,
             Quantities <- {r.qty : r \in Requests},
             InitialHolds <- [id \in Ids |-> IF id \in DOMAIN Prior THEN Prior[id]
                                                                    ELSE None]

-----------------------------------------------------------------------------
(* Where the lock does its work.                                           *)

\* A row's requests take the same lock: none is sold while others reserve or release.
OneLockPerRow ==
    \A r, s \in Requests : r.item = s.item => LockKey(r) = LockKey(s)

\* Every order is for one quantity of one row, in the requests as in the table.
OrdersFit ==
    \A r, s \in Requests \cup {Prior[id] : id \in DOMAIN Prior} :
        r.orderRef = s.orderRef => r.item = s.item /\ r.qty = s.qty

\* Redis may fail: a call that gets no lock does nothing, and a key that stays holds others
\* up until its lease is over.
Serial == Faults \subseteq {"redis"} /\ OneLockPerRow /\ OrdersFit

-----------------------------------------------------------------------------
\* Every step of the service is one operation of the ledger or changes nothing the
\* ledger shows: reservation and counters move together although they are saved apart.
ImplementsLedger == Ledger!LedgerSpec

\* The active reservations of a row, and the units they hold.
HeldIds(i) ==
    {id \in Ids : resv[id] # None /\ resv[id].status = "ACTIVE" /\ resv[id].item = i}

Held(i) == SumFunction([id \in HeldIds(i) |-> resv[id].qty])

\* While no body is between its two saves, the reserved counter of a row is the sum of
\* its active reservations: no unit is held without a reservation, none held twice.
ReservedIsBacked ==
    \A i \in Items :
        (Saving(i) = {} /\ inventory[i] # None) =>
            inventory[i].reserved = Held(i)
=============================================================================
