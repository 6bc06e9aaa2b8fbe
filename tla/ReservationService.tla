------------------------- MODULE ReservationService -------------------------
(***************************************************************************)
(* reserveStock, releaseStock and confirmSale as calls that run at the same*)
(* time, over the two tables they read and write.  Every await on the      *)
(* database is a step of its own, so calls interleave between any two.     *)
(*                                                                         *)
(* The body of every operation has the same five round trips:              *)
(*                                                                         *)
(*   start            findActiveByOrderRef                                 *)
(*   readInventory    findByProductAndStore                                *)
(*   saveReservation  reservationRepository.save                           *)
(*   diffInventory    inventoryRepository.save: SELECT of the stored row   *)
(*   writeInventory   inventoryRepository.save: UPDATE of what differs     *)
(*   saveTransaction  transactionRepository.save                           *)
(*   publish          the two events, and the return                       *)
(*                                                                         *)
(* The repository's save is TypeORM's: it selects the row by its id, and   *)
(* updates the columns in which the entity differs from that row.  The     *)
(* version column is never compared.  A row lock taken outside a           *)
(* transaction ends with the SELECT that took it.                          *)
(***************************************************************************)
EXTENDS GuardedCall, InventoryItem, FiniteSets

CONSTANTS
    Items,          \* the inventory rows: pairs of a store and a product
    Orders,         \* order references
    Requests,       \* what callers ask for
    InitialStock,   \* the inventory table at the start: Items -> item or None
    Prior           \* reservations made before the start, by their id

Ops == {"reserve", "release", "confirm"}

RequestType == [op : Ops, item : Items, qty : Nat \ {0}, orderRef : Orders]

\* The statuses a service method gives a reservation.
Statuses == {"ACTIVE", "COMMITTED", "CANCELLED"}

Reservation == [item : Items, qty : Nat \ {0}, orderRef : Orders, status : Statuses]

\* Every attempt of a body makes a fresh uuid.
FreshIds == Calls \X (1..MaxAttempts)
Ids == DOMAIN Prior \cup FreshIds

LockKeys == {"reservation", "sale"} \X Items

ASSUME RequestsAssumption == Requests \subseteq RequestType
ASSUME PriorAssumption ==
    /\ DOMAIN Prior \cap FreshIds = {}
    /\ \A id \in DOMAIN Prior : Prior[id] \in Reservation
ASSUME StockAssumption ==
    /\ InitialStock \in [Items -> InventoryItem \cup {None}]
    /\ \A i \in Items : InitialStock[i] # None =>
        /\ NonNegative(InitialStock[i])
        /\ ShelfBalanced(InitialStock[i])
ASSUME KeysAssumption == Keys = LockKeys
ASSUME NullAssumption ==
    /\ None \notin InventoryItem
    /\ None \notin Reservation
    /\ None \notin RequestType
    /\ None \notin Ids

VARIABLES
    request,     \* the arguments of each call
    inventory,   \* table: Items -> item or None
    resv,        \* table: Ids -> reservation or None
    ledger,      \* table: the inventory transactions, by the attempt that wrote them
    published,   \* the attempts whose events went out
    found,       \* local: the reservation the body works on
    row,         \* local: the InventoryItem object the body works on
    dirty        \* local: the columns the pending UPDATE sets

locals == <<found, row, dirty>>
tables == <<inventory, resv, ledger, published>>
vars == <<guardVars, request, tables, locals>>

\* Variant: a release is serialised with the sales instead of the reservations.
LockKey_ReleaseAsSale(r) ==
    IF r.op = "reserve" THEN <<"reservation", r.item>> ELSE <<"sale", r.item>>

\* The templates of the three DistributedLock decorators.
LockKey(r) ==
    IF r.op = "confirm" THEN <<"sale", r.item>> ELSE <<"reservation", r.item>>

Key(c) == LockKey(request[c])

\* findActiveByOrderRef looks at the order reference and the status, nothing else.
ActiveByOrderRef(o) ==
    {id \in Ids : resv[id] # None /\ resv[id].orderRef = o /\ resv[id].status = "ACTIVE"}

Init ==
    /\ GuardInit
    /\ request = [c \in Calls |-> None]
    /\ inventory = InitialStock
    /\ resv = [id \in Ids |-> IF id \in DOMAIN Prior THEN Prior[id] ELSE None]
    /\ ledger = {}
    /\ published = {}
    /\ found = [c \in Calls |-> None]
    /\ row = [c \in Calls |-> None]
    /\ dirty = [c \in Calls |-> {}]

-----------------------------------------------------------------------------
(* The database under a step of c: it answers, it refuses the statement, or*)
(* it commits the statement and the reply is lost.                         *)

DbRejects(c) ==
    /\ "dbRejects" \in Faults
    /\ BodyThrows(c)
    /\ UNCHANGED <<request, tables, locals>>

\* After a write: the reply arrives and the body goes on, or it does not.
ReplyOrLost(c, step) ==
    \/ BodyContinues(c, step)
    \/ "replyLost" \in Faults /\ BodyThrows(c)

\* A check of the body throws.
Refuse(c) == BodyThrows(c) /\ UNCHANGED <<request, tables, locals>>

-----------------------------------------------------------------------------
(* The bodies.                                                             *)

\* Variant: the duplicate check is forgotten.
FindForReserve_NoCheck(c) ==
    /\ pc[c] = "start"
    /\ request[c].op = "reserve"
    /\ found' = [found EXCEPT ![c] = <<c, attempt[c]>>]
    /\ BodyContinues(c, "readInventory")
    /\ UNCHANGED <<request, tables, row, dirty>>

\* Variant: the reservation is saved before the stock is looked at.
FindForReserve_SavesFirst(c) ==
    /\ pc[c] = "start"
    /\ request[c].op = "reserve"
    /\ IF ActiveByOrderRef(request[c].orderRef) # {}
       THEN Refuse(c)
       ELSE /\ found' = [found EXCEPT ![c] = <<c, attempt[c]>>]
            /\ resv' = [resv EXCEPT ![<<c, attempt[c]>>] =
                  [item |-> request[c].item, qty |-> request[c].qty,
                   orderRef |-> request[c].orderRef, status |-> "ACTIVE"]]
            /\ BodyContinues(c, "readInventory")
            /\ UNCHANGED <<request, inventory, ledger, published, row, dirty>>

\* reserveStock refuses a second reservation of an order that has an active one.
FindForReserve(c) ==
    /\ pc[c] = "start"
    /\ request[c].op = "reserve"
    /\ IF ActiveByOrderRef(request[c].orderRef) # {}
       THEN Refuse(c)
       ELSE /\ found' = [found EXCEPT ![c] = <<c, attempt[c]>>]
            /\ BodyContinues(c, "readInventory")
            /\ UNCHANGED <<request, tables, row, dirty>>

\* releaseStock and confirmSale need the order's reservation; confirmSale also
\* compares the quantity, releaseStock does not.
FindForSettle(c) ==
    /\ pc[c] = "start"
    /\ request[c].op \in {"release", "confirm"}
    /\ \/ ActiveByOrderRef(request[c].orderRef) = {} /\ Refuse(c)
       \/ \E id \in ActiveByOrderRef(request[c].orderRef) :
            IF request[c].op = "confirm" /\ resv[id].qty # request[c].qty
            THEN Refuse(c)
            ELSE /\ found' = [found EXCEPT ![c] = id]
                 /\ BodyContinues(c, "readInventory")
                 /\ UNCHANGED <<request, tables, row, dirty>>

\* Variant: reserveStock relies on the caller's check of an older row.
Allowed_Unchecked(op, item, qty) ==
    op \in {"release", "confirm"} => CanRelease(item, qty)

\* The guard and the effect of the aggregate's method that each operation calls.
Allowed(op, item, qty) ==
    CASE op = "reserve" -> CanReserve(item, qty)
      [] op = "release" -> CanRelease(item, qty)
      [] op = "confirm" -> CanConfirm(item, qty)

Applied(op, item, qty) ==
    CASE op = "reserve" -> ReserveStock(item, qty)
      [] op = "release" -> ReleaseStock(item, qty)
      [] op = "confirm" -> ConfirmSale(item, qty)

\* The inventory row is read, and the methods of the two aggregates run on the
\* local objects before the next await.
ReadInventory(c) ==
    /\ pc[c] = "readInventory"
    /\ LET r == request[c]
           stored == inventory[r.item]
       IN  IF stored = None \/ ~Allowed(r.op, stored, r.qty)
           THEN Refuse(c)
           ELSE /\ row' = [row EXCEPT ![c] = Applied(r.op, stored, r.qty)]
                /\ BodyContinues(c, "saveReservation")
                /\ UNCHANGED <<request, tables, found, dirty>>

\* Variant: releaseStock saves the object it read without cancelling it.
SavedReservation_NotCancelled(c) ==
    LET r == request[c]
    IN  CASE r.op = "reserve" -> [item |-> r.item, qty |-> r.qty,
                                  orderRef |-> r.orderRef, status |-> "ACTIVE"]
          [] r.op = "release" -> [resv[found[c]] EXCEPT !.status = "ACTIVE"]
          [] r.op = "confirm" -> [resv[found[c]] EXCEPT !.status = "COMMITTED"]

\* reserveStock inserts a new row; the other two change the status column of the
\* row they found, whatever it holds by now.
SavedReservation(c) ==
    LET r == request[c]
    IN  CASE r.op = "reserve" -> [item |-> r.item, qty |-> r.qty,
                                  orderRef |-> r.orderRef, status |-> "ACTIVE"]
          [] r.op = "release" -> [resv[found[c]] EXCEPT !.status = "CANCELLED"]
          [] r.op = "confirm" -> [resv[found[c]] EXCEPT !.status = "COMMITTED"]

SaveReservation(c) ==
    /\ pc[c] = "saveReservation"
    /\ resv' = [resv EXCEPT ![found[c]] = SavedReservation(c)]
    /\ ReplyOrLost(c, "diffInventory")
    /\ UNCHANGED <<request, inventory, ledger, published, locals>>

DiffInventory(c) ==
    /\ pc[c] = "diffInventory"
    /\ dirty' = [dirty EXCEPT ![c] = Differing(row[c], inventory[request[c].item])]
    /\ BodyContinues(c, "writeInventory")
    /\ UNCHANGED <<request, tables, found, row>>

WriteInventory(c) ==
    /\ pc[c] = "writeInventory"
    /\ inventory' = [inventory EXCEPT ![request[c].item] = Merge(@, row[c], dirty[c])]
    /\ ReplyOrLost(c, "saveTransaction")
    /\ UNCHANGED <<request, resv, ledger, published, locals>>

\* InventoryTransaction(RESERVE | RELEASE | SALE, qty, orderRef)
SaveTransaction(c) ==
    /\ pc[c] = "saveTransaction"
    /\ ledger' = ledger \cup {<<c, attempt[c]>>}
    /\ ReplyOrLost(c, "publish")
    /\ UNCHANGED <<request, inventory, resv, published, locals>>

\* Both publish calls end without I/O, so the body returns in the same step.
Publish(c) ==
    /\ pc[c] = "publish"
    /\ published' = published \cup {<<c, attempt[c]>>}
    /\ BodyReturns(c)
    /\ UNCHANGED <<request, inventory, resv, ledger, locals>>

DbSteps == {"start", "readInventory", "saveReservation", "diffInventory",
            "writeInventory", "saveTransaction"}

DbFails(c) ==
    /\ pc[c] \in DbSteps
    /\ DbRejects(c)

BodyStep(c) ==
    \/ FindForReserve(c)
    \/ FindForSettle(c)
    \/ ReadInventory(c)
    \/ SaveReservation(c)
    \/ DiffInventory(c)
    \/ WriteInventory(c)
    \/ SaveTransaction(c)
    \/ Publish(c)

-----------------------------------------------------------------------------
(* The decorators around them.                                             *)

Call(c) ==
    /\ Invoke(c)
    /\ \E r \in Requests : request' = [request EXCEPT ![c] = r]
    /\ UNCHANGED <<tables, locals>>

\* A breaker can be open only after a call of the same operation has failed.
BreakerMayBeOpen(c) ==
    \E d \in Calls \ {c} :
        /\ answer[d] \in {"error", "timeout"}
        /\ request[d].op = request[c].op

Enter(c) ==
    \/ AcquireAndFire(c, Key(c))
    \/ AcquireAndReject(c, Key(c)) /\ BreakerMayBeOpen(c)
    \/ WaitTimeout(c)

Guard(c) ==
    /\ \/ Enter(c)
       \/ AcquireFails(c, Key(c))
       \/ Timeout(c)
       \/ Release(c, Key(c))
       \/ ReleaseFails(c)
       \/ Crash(c)
    /\ UNCHANGED <<request, tables, locals>>

RetryBody(c) == Retry(c) /\ UNCHANGED <<request, tables, locals>>

Expire(k) == LeaseExpires(k) /\ UNCHANGED <<request, tables, locals>>

\* Every call is over, nothing runs any more and no lease is left.
Finished ==
    /\ \A c \in Calls : client[c] \in {"answered", "crashed"} /\ pc[c] = "off"
    /\ \A k \in Keys : lock[k] = None
    /\ UNCHANGED vars

Next ==
    \/ \E c \in Calls : Call(c) \/ Guard(c) \/ RetryBody(c) \/ BodyStep(c) \/ DbFails(c)
    \/ \E k \in Keys : Expire(k)
    \/ Finished

Spec == Init /\ [][Next]_vars

-----------------------------------------------------------------------------
TypeOK ==
    /\ client \in [Calls -> ClientStates]
    /\ answer \in [Calls -> Answers]
    /\ lock \in [Keys -> Calls \cup {None}]
    /\ pc \in [Calls -> DbSteps \cup {"publish", "backoff", "off"}]
    /\ attempt \in [Calls -> 0..MaxAttempts]
    /\ request \in [Calls -> Requests \cup {None}]
    /\ inventory \in [Items -> InventoryItem \cup {None}]
    /\ resv \in [Ids -> Reservation \cup {None}]
    /\ ledger \subseteq FreshIds
    /\ published \subseteq FreshIds
    /\ found \in [Calls -> Ids \cup {None}]
    /\ row \in [Calls -> InventoryItem \cup {None}]
    /\ dirty \in [Calls -> SUBSET Fields]

\* The checks of reserveStock, releaseStock and confirmSale run on a copy that other
\* calls overtake, and an UPDATE writes some of its columns over a newer row.  All the
\* same no schedule, retry, timeout or crash brings one of these counters below zero:
\* stock is never promised that the row did not show as available.
CountersNeverNegative ==
    \A i \in Items : inventory[i] # None => CountersNonNegative(inventory[i])

\* The distributed lock holds what it promises to the outer half: while a call is
\* between fire() and the breaker's answer, the key is its own, so no two calls are
\* fired under one key, whatever Redis, the database and the processes do.
FiredHoldsLock ==
    \A c \in Calls : client[c] = "fired" => lock[Key(c)] = c

\* Nobody revives a reservation that was committed or cancelled: a late, retried or
\* orphaned body never writes ACTIVE over it.
SettledStaysSettled ==
    [][\A id \in Ids :
        (resv[id] # None /\ resv[id].status # "ACTIVE") =>
            (resv'[id] # None /\ resv'[id].status # "ACTIVE")]_vars

\* What a caller was told stays true: after an ok the transaction is recorded, the
\* events are out, and the reservation exists, or is no longer active when the call was
\* to settle it.
AcknowledgedIsDurable ==
    \A c \in Calls : answer[c] = "ok" =>
        /\ <<c, attempt[c]>> \in ledger \cap published
        /\ resv[found[c]] # None
        /\ request[c].op # "reserve" => resv[found[c]].status # "ACTIVE"

\* The reservation was settled since the start.
SettledSince(id) ==
    /\ resv[id] # None
    /\ resv[id].status # "ACTIVE"
    /\ id \in DOMAIN Prior => Prior[id].status = "ACTIVE"

\* A call the domain refused left nothing behind in any of its attempts: it created no
\* reservation and recorded no transaction, and a reservation that was settled has a
\* release or a sale to show for it that was not refused.  It holds because every check
\* comes before the first save; it is about refusals only, so the database does not fail.
RefusedLeavesNoTrace ==
    /\ \A c \in Calls : answer[c] = "error" =>
        \A n \in 1..MaxAttempts :
            /\ resv[<<c, n>>] = None
            /\ <<c, n>> \notin ledger
    /\ \A id \in Ids : SettledSince(id) =>
        \E c \in Calls :
            found[c] = id /\ request[c].op # "reserve" /\ answer[c] # "error"

\* However often Retry runs the body, one call of reserveStock creates at most one
\* reservation: the first save is what makes the next attempt refuse.
OneReservationPerCall ==
    \A c \in Calls : \A m, n \in 1..MaxAttempts :
        (resv[<<c, m>>] # None /\ resv[<<c, n>>] # None) => m = n

\* An order has at most one active reservation.
OneActivePerOrder ==
    \A o \in Orders : Cardinality(ActiveByOrderRef(o)) <= 1

\* A committed reservation is not cancelled and a cancelled one not committed.
SettledOnce ==
    [][\A id \in Ids :
        (resv[id] # None /\ resv[id].status # "ACTIVE") => resv'[id] = resv[id]]_vars
=============================================================================
