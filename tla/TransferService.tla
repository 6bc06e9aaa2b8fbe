-------------------------- MODULE TransferService --------------------------
(***************************************************************************)
(* createTransfer, startTransfer, completeTransfer and failTransfer as     *)
(* calls that run at the same time.  All transfers are of one product, so  *)
(* an inventory row is known by its store; transfers of different products *)
(* share no row and no lock.                                               *)
(*                                                                         *)
(* The body's round trips, of which each operation makes some:             *)
(*                                                                         *)
(*   start            the checks and lookups that come first               *)
(*   readSource       findByProductAndStore for the source                 *)
(*   readDest         findByProductAndStore for the destination            *)
(*   diffSource       inventoryRepository.save(source): SELECT ...         *)
(*   writeSource      ... and UPDATE                                       *)
(*   diffDest         inventoryRepository.save(dest): SELECT ...           *)
(*   writeDest        ... and UPDATE, or INSERT of a new row               *)
(*   saveTransaction  transactionRepository.save                           *)
(*   saveTransfer     transferRepository.save; the events and the return   *)
(*                    follow without I/O                                   *)
(*                                                                         *)
(* The locks name the operation and the transfer, never the rows.          *)
(***************************************************************************)
EXTENDS GuardedCall, InventoryItem, FiniteSets, Functions

CONSTANTS
    Stores,         \* ids of stores, as callers pass them
    KnownStores,    \* those that exist
    Requests,       \* what callers ask for
    InitialStock,   \* Stores -> the item of the store's row, or None
    Prior           \* transfers made before the start, by their id

\* A body makes a fresh uuid in every attempt: for the transfer createTransfer inserts,
\* for the inventory row completeTransfer may insert, and for the transaction.
FreshIds == Calls \X (1..MaxAttempts)
Ids == DOMAIN Prior \cup FreshIds

\* The rows that exist at the start have the name of their store.
RowIds == Stores \cup FreshIds
Row == [store : Stores, item : InventoryItem]

Transfer == [from : Stores, to : Stores, qty : Nat \ {0},
             status : {"PENDING", "IN_TRANSIT", "COMPLETED", "FAILED"}]

CreateRequest == [op : {"create"}, from : Stores, to : Stores, qty : Nat \ {0}]
HandleRequest == [op : {"start", "complete", "fail"}, id : Ids]

LockKeys == ({"create"} \X Stores \X Stores) \cup ({"start", "complete", "fail"} \X Ids)

ASSUME TransferRequestsAssumption == Requests \subseteq CreateRequest \cup HandleRequest
ASSUME KnownStoresAssumption == KnownStores \subseteq Stores
\* Stores have rows in a table.
ASSUME StoresAssumption == IsFiniteSet(Stores)
ASSUME TransferStockAssumption ==
    /\ InitialStock \in [Stores -> InventoryItem \cup {None}]
    /\ \A s \in Stores : InitialStock[s] # None =>
        NonNegative(InitialStock[s]) /\ ShelfBalanced(InitialStock[s])
ASSUME TransferPriorAssumption ==
    /\ DOMAIN Prior \cap FreshIds = {}
    /\ \A id \in DOMAIN Prior : Prior[id] \in Transfer /\ Prior[id].from # Prior[id].to
ASSUME TransferKeysAssumption == Keys = LockKeys
ASSUME TransferNoneAssumption ==
    /\ Stores \cap FreshIds = {}
    /\ None \notin InventoryItem
    /\ None \notin Row
    /\ None \notin Transfer
    /\ None \notin CreateRequest \cup HandleRequest

VARIABLES
    request,     \* the arguments of each call
    inventory,   \* table: RowIds -> row or None
    transfers,   \* table: Ids -> transfer or None
    ledger,      \* table: the inventory transactions, by the attempt that wrote them
    transfer,    \* local: the Transfer object the body works on
    source,      \* local: the source's id and InventoryItem object
    dest,        \* local: the destination's
    dirty        \* local: the columns the pending UPDATE sets

locals == <<transfer, source, dest, dirty>>
tables == <<inventory, transfers, ledger>>
vars == <<guardVars, request, tables, locals>>

\* The templates of the four DistributedLock decorators.
LockKey(r) == IF r.op = "create" THEN <<r.op, r.from, r.to>> ELSE <<r.op, r.id>>

Key(c) == LockKey(request[c])

\* The transfer a body reads and saves.
TransferId(c) == IF request[c].op = "create" THEN <<c, attempt[c]>> ELSE request[c].id

RowsOf(s) == {r \in RowIds : inventory[r] # None /\ inventory[r].store = s}

InitialRow(r) ==
    IF r \in Stores /\ InitialStock[r] # None
    THEN [store |-> r, item |-> InitialStock[r]]
    ELSE None

Init ==
    /\ GuardInit
    /\ request = [c \in Calls |-> None]
    /\ inventory = [r \in RowIds |-> InitialRow(r)]
    /\ transfers = [id \in Ids |-> IF id \in DOMAIN Prior THEN Prior[id] ELSE None]
    /\ ledger = {}
    /\ transfer = [c \in Calls |-> None]
    /\ source = [c \in Calls |-> None]
    /\ dest = [c \in Calls |-> None]
    /\ dirty = [c \in Calls |-> {}]

-----------------------------------------------------------------------------
(* The database under a step of c.                                         *)

DbRejects(c) ==
    /\ "dbRejects" \in Faults
    /\ BodyThrows(c)
    /\ UNCHANGED <<request, tables, locals>>

ReplyOrLost(c, step) ==
    \/ BodyContinues(c, step)
    \/ "replyLost" \in Faults /\ BodyThrows(c)

\* A check of the body throws.
Refuse(c) == BodyThrows(c) /\ UNCHANGED <<request, tables, locals>>

-----------------------------------------------------------------------------
(* The bodies.                                                             *)

\* createTransfer validates its arguments and looks up both stores and the product,
\* tables that none of these operations writes.
CheckCreate(c) ==
    /\ pc[c] = "start"
    /\ request[c].op = "create"
    /\ LET r == request[c]
       IN  IF r.from = r.to \/ ~({r.from, r.to} \subseteq KnownStores)
           THEN Refuse(c)
           ELSE /\ transfer' = [transfer EXCEPT ![c] =
                      [from |-> r.from, to |-> r.to, qty |-> r.qty, status |-> "PENDING"]]
                /\ BodyContinues(c, "readSource")
                /\ UNCHANGED <<request, tables, source, dest, dirty>>

\* Variant: a transfer can be started twice.
CanHandle_StartAgain(op, status) ==
    CASE op = "start"    -> status \in {"PENDING", "IN_TRANSIT"}
      [] op = "complete" -> status = "IN_TRANSIT"
      [] op = "fail"     -> status \in {"PENDING", "IN_TRANSIT"}

\* canStart, canComplete, canFail
CanHandle(op, status) ==
    CASE op = "start"    -> status = "PENDING"
      [] op = "complete" -> status = "IN_TRANSIT"
      [] op = "fail"     -> status \in {"PENDING", "IN_TRANSIT"}

\* The other three load the transfer; failing one that is not in transit touches no stock.
FindTransfer(c) ==
    /\ pc[c] = "start"
    /\ request[c].op # "create"
    /\ LET op == request[c].op
           stored == transfers[request[c].id]
       IN  IF stored = None \/ ~CanHandle(op, stored.status)
           THEN Refuse(c)
           ELSE /\ transfer' = [transfer EXCEPT ![c] = stored]
                /\ BodyContinues(c, IF op = "fail" /\ stored.status = "PENDING"
                                    THEN "saveTransfer" ELSE "readSource")
                /\ UNCHANGED <<request, tables, source, dest, dirty>>

\* createTransfer checks the stock and reserves nothing.
CheckSource(c) ==
    /\ pc[c] = "readSource"
    /\ request[c].op = "create"
    /\ LET rows == RowsOf(transfer[c].from)
       IN  \/ rows = {} /\ Refuse(c)
           \/ \E r \in rows :
                IF CanReserve(inventory[r].item, transfer[c].qty)
                THEN /\ BodyContinues(c, "saveTransfer")
                     /\ UNCHANGED <<request, tables, locals>>
                ELSE Refuse(c)

\* Variant: startTransfer relies on createTransfer's check of the stock.
ReserveSource_Unchecked(c) ==
    /\ pc[c] = "readSource"
    /\ request[c].op = "start"
    /\ LET rows == RowsOf(transfer[c].from)
           qty == transfer[c].qty
       IN  IF rows = {} THEN Refuse(c) ELSE
           \E r \in rows :
                /\ source' = [source EXCEPT ![c] =
                        [id |-> r, item |-> ReserveStock(inventory[r].item, qty)]]
                /\ BodyContinues(c, "diffSource")
                /\ UNCHANGED <<request, tables, transfer, dest, dirty>>

\* startTransfer reserves the units at the source.
ReserveSource(c) ==
    /\ pc[c] = "readSource"
    /\ request[c].op = "start"
    /\ LET rows == RowsOf(transfer[c].from)
           qty == transfer[c].qty
       IN  IF rows = {} THEN Refuse(c) ELSE
           \E r \in rows :
                IF CanReserve(inventory[r].item, qty)
                THEN /\ source' = [source EXCEPT ![c] =
                            [id |-> r, item |-> ReserveStock(inventory[r].item, qty)]]
                     /\ BodyContinues(c, "diffSource")
                     /\ UNCHANGED <<request, tables, transfer, dest, dirty>>
                ELSE Refuse(c)

\* failTransfer of a transfer in transit gives them back, if the row is there.
ReleaseSource(c) ==
    /\ pc[c] = "readSource"
    /\ request[c].op = "fail"
    /\ LET rows == RowsOf(transfer[c].from)
           qty == transfer[c].qty
       IN  IF rows = {}
           THEN BodyContinues(c, "saveTransfer") /\ UNCHANGED <<request, tables, locals>>
           ELSE \E r \in rows :
                IF CanRelease(inventory[r].item, qty)
                THEN /\ source' = [source EXCEPT ![c] =
                            [id |-> r, item |-> ReleaseStock(inventory[r].item, qty)]]
                     /\ BodyContinues(c, "diffSource")
                     /\ UNCHANGED <<request, tables, transfer, dest, dirty>>
                ELSE Refuse(c)

\* completeTransfer loads both rows before it changes either object.
LoadSource(c) ==
    /\ pc[c] = "readSource"
    /\ request[c].op = "complete"
    /\ LET rows == RowsOf(transfer[c].from)
       IN  IF rows = {} THEN Refuse(c) ELSE
           \E r \in rows :
                /\ source' = [source EXCEPT ![c] = [id |-> r, item |-> inventory[r].item]]
                /\ BodyContinues(c, "readDest")
                /\ UNCHANGED <<request, tables, transfer, dest, dirty>>

\* Variant: the destination's row is not looked for.
DestObjects_AlwaysNew(c) == {[id |-> <<c, attempt[c]>>, item |-> EmptyItem]}

\* The destination's row, or a new object when there is none.
DestObjects(c) ==
    LET rows == RowsOf(transfer[c].to)
    IN  IF rows = {} THEN {[id |-> <<c, attempt[c]>>, item |-> EmptyItem]}
        ELSE {[id |-> r, item |-> inventory[r].item] : r \in rows}

\* confirmSale on the source's object and addStock on the destination's.
MoveToDest(c) ==
    /\ pc[c] = "readDest"
    /\ LET qty == transfer[c].qty
       IN  IF ~CanConfirm(source[c].item, qty)
           THEN Refuse(c)
           ELSE \E d \in DestObjects(c) :
                /\ source' = [source EXCEPT ![c].item = ConfirmSale(@, qty)]
                /\ dest' = [dest EXCEPT ![c] = [d EXCEPT !.item = AddStock(@, qty)]]
                /\ BodyContinues(c, "diffSource")
                /\ UNCHANGED <<request, tables, transfer, dirty>>

DiffSource(c) ==
    /\ pc[c] = "diffSource"
    /\ dirty' = [dirty EXCEPT ![c] = Differing(source[c].item, inventory[source[c].id].item)]
    /\ BodyContinues(c, "writeSource")
    /\ UNCHANGED <<request, tables, transfer, source, dest>>

\* Variant: the destination's object is not saved.
AfterSource_NoDest(op) == "saveTransaction"

AfterSource(op) == IF op = "complete" THEN "diffDest" ELSE "saveTransaction"

WriteSource(c) ==
    /\ pc[c] = "writeSource"
    /\ inventory' = [inventory EXCEPT ![source[c].id].item = Merge(@, source[c].item, dirty[c])]
    /\ ReplyOrLost(c, AfterSource(request[c].op))
    /\ UNCHANGED <<request, transfers, ledger, locals>>

\* A row that is not there differs in every column.
DiffDest(c) ==
    /\ pc[c] = "diffDest"
    /\ dirty' = [dirty EXCEPT ![c] =
                    IF inventory[dest[c].id] = None THEN Fields
                    ELSE Differing(dest[c].item, inventory[dest[c].id].item)]
    /\ BodyContinues(c, "writeDest")
    /\ UNCHANGED <<request, tables, transfer, source, dest>>

\* INSERT of a new row, or UPDATE of the columns that differ.
WriteDest(c) ==
    /\ pc[c] = "writeDest"
    /\ inventory' = [inventory EXCEPT ![dest[c].id] =
                        IF @ = None THEN [store |-> transfer[c].to, item |-> dest[c].item]
                        ELSE [store |-> @.store, item |-> Merge(@.item, dest[c].item, dirty[c])]]
    /\ ReplyOrLost(c, "saveTransaction")
    /\ UNCHANGED <<request, transfers, ledger, locals>>

\* Variant: the transfer is saved, and nothing recorded.
SaveTransaction_Skipped(c) ==
    /\ pc[c] = "saveTransaction"
    /\ BodyContinues(c, "saveTransfer")
    /\ UNCHANGED <<request, tables, locals>>

\* InventoryTransaction(TRANSFER_OUT | TRANSFER_IN | RELEASE, qty, transferId)
SaveTransaction(c) ==
    /\ pc[c] = "saveTransaction"
    /\ ledger' = ledger \cup {<<c, attempt[c]>>}
    /\ ReplyOrLost(c, "saveTransfer")
    /\ UNCHANGED <<request, inventory, transfers, locals>>

\* Variant: a transfer that failed can be tried again.
NewStatus_FailResets(op) ==
    CASE op \in {"create", "fail"} -> "PENDING"
      [] op = "start"    -> "IN_TRANSIT"
      [] op = "complete" -> "COMPLETED"

\* The status each operation gives the transfer.
NewStatus(op) ==
    CASE op = "create"   -> "PENDING"
      [] op = "start"    -> "IN_TRANSIT"
      [] op = "complete" -> "COMPLETED"
      [] op = "fail"     -> "FAILED"

\* The status is written over whatever the stored transfer holds by now.
SaveTransfer(c) ==
    /\ pc[c] = "saveTransfer"
    /\ transfers' = [transfers EXCEPT ![TransferId(c)] =
                        [transfer[c] EXCEPT !.status = NewStatus(request[c].op)]]
    /\ \/ BodyReturns(c)
       \/ "replyLost" \in Faults /\ BodyThrows(c)
    /\ UNCHANGED <<request, inventory, ledger, locals>>

DbSteps == {"start", "readSource", "readDest", "diffSource", "writeSource", "diffDest",
            "writeDest", "saveTransaction", "saveTransfer"}

DbFails(c) ==
    /\ pc[c] \in DbSteps
    /\ DbRejects(c)

BodyStep(c) ==
    \/ CheckCreate(c)
    \/ FindTransfer(c)
    \/ CheckSource(c)
    \/ ReserveSource(c)
    \/ ReleaseSource(c)
    \/ LoadSource(c)
    \/ MoveToDest(c)
    \/ DiffSource(c)
    \/ WriteSource(c)
    \/ DiffDest(c)
    \/ WriteDest(c)
    \/ SaveTransaction(c)
    \/ SaveTransfer(c)

-----------------------------------------------------------------------------
(* The decorators around them.                                             *)

Call(c) ==
    /\ Invoke(c)
    /\ \E r \in Requests : request' = [request EXCEPT ![c] = r]
    /\ UNCHANGED <<tables, locals>>

\* A breaker can be open only after a call of the same operation has failed.
BreakerMayBeOpen(c) ==
    \E d \in Calls \ {c} :
        /\ answer[d] \in {"error", "timeout"}
        /\ request[d].op = request[c].op

Enter(c) ==
    \/ AcquireAndFire(c, Key(c))
    \/ AcquireAndReject(c, Key(c)) /\ BreakerMayBeOpen(c)
    \/ WaitTimeout(c)

Guard(c) ==
    /\ \/ Enter(c)
       \/ AcquireFails(c, Key(c))
       \/ Timeout(c)
       \/ Release(c, Key(c))
       \/ ReleaseFails(c)
       \/ Crash(c)
    /\ UNCHANGED <<request, tables, locals>>

RetryBody(c) == Retry(c) /\ UNCHANGED <<request, tables, locals>>

Expire(k) == LeaseExpires(k) /\ UNCHANGED <<request, tables, locals>>

\* Every call is over, nothing runs any more and no lease is left.
Finished ==
    /\ \A c \in Calls : client[c] \in {"answered", "crashed"} /\ pc[c] = "off"
    /\ \A k \in Keys : lock[k] = None
    /\ UNCHANGED vars

Next ==
    \/ \E c \in Calls : Call(c) \/ Guard(c) \/ RetryBody(c) \/ BodyStep(c) \/ DbFails(c)
    \/ \E k \in Keys : Expire(k)
    \/ Finished

Spec == Init /\ [][Next]_vars

-----------------------------------------------------------------------------
Object == [id : RowIds, item : InventoryItem]

TypeOK ==
    /\ client \in [Calls -> ClientStates]
    /\ answer \in [Calls -> Answers]
    /\ lock \in [Keys -> Calls \cup {None}]
    /\ pc \in [Calls -> DbSteps \cup {"backoff", "off"}]
    /\ attempt \in [Calls -> 0..MaxAttempts]
    /\ request \in [Calls -> Requests \cup {None}]
    /\ inventory \in [RowIds -> Row \cup {None}]
    /\ transfers \in [Ids -> Transfer \cup {None}]
    /\ ledger \subseteq FreshIds
    /\ transfer \in [Calls -> Transfer \cup {None}]
    /\ source \in [Calls -> Object \cup {None}]
    /\ dest \in [Calls -> Object \cup {None}]
    /\ dirty \in [Calls -> SUBSET Fields]

OnHand(rows) == SumFunction([r \in rows |-> inventory[r].item.onHand])
Stored == {r \in RowIds : inventory[r] # None}
InitialOnHand ==
    SumFunction([s \in {t \in Stores : InitialStock[t] # None} |-> InitialStock[s].onHand])

\* completeTransfer saves the source before the destination: when a transfer is retried,
\* cut off or half done, units may be lost between the two stores, but none is invented.
\* Two completions at once can invent units, so the runs have one transfer to complete.
NothingInvented == OnHand(Stored) <= InitialOnHand

\* The ledger has a transaction of that operation on the transfer.
Recorded(id, op) ==
    \E c \in Calls : \E n \in 1..MaxAttempts :
        <<c, n>> \in ledger /\ request[c] = [op |-> op, id |-> id]

Reached(op) == IF op = "start" THEN "IN_TRANSIT" ELSE "COMPLETED"

\* A transfer's status is written last: whatever fails or is repeated, a transfer is in
\* transit only after a start, and completed only after a completion, whose transaction
\* is in the ledger.
StatusIsRecorded ==
    \A id \in Ids : \A op \in {"start", "complete"} :
        (/\ transfers[id] # None
         /\ transfers[id].status = Reached(op)
         /\ id \in DOMAIN Prior => Prior[id].status # Reached(op)) => Recorded(id, op)

\* No late, repeated or orphaned body makes a transfer pending again, so one that was
\* acknowledged as started, completed or failed can never be started afresh.
NeverPendingAgain ==
    [][\A id \in Ids :
        (transfers[id] # None /\ transfers[id].status # "PENDING") =>
            transfers'[id].status # "PENDING"]_vars

\* Counters that no interleaving of transfers drives below zero.
CountersNeverNegative ==
    \A r \in Stored : CountersNonNegative(inventory[r].item)

\* After an ok the operation is recorded, and the transfer exists and has moved on.
AcknowledgedIsDurable ==
    \A c \in Calls : answer[c] = "ok" =>
        /\ transfers[TransferId(c)] # None
        /\ request[c].op # "create" => transfers[TransferId(c)].status # "PENDING"
        /\ request[c].op \in {"start", "complete"} => <<c, attempt[c]>> \in ledger

\* A store has at most one inventory row, also when the INSERT of the first delivery is
\* retried because its reply was lost.
OneRowPerStore ==
    \A s \in Stores : \A a, b \in RowsOf(s) : a = b
=============================================================================
