-------------------------- MODULE InventoryService --------------------------
(***************************************************************************)
(* adjustStock, restock and getStockAvailability for one product in one    *)
(* store, with the availability cache and its invalidation by events.      *)
(*                                                                         *)
(* Other than the reservation and transfer operations, adjustStock and     *)
(* restock run in a database transaction (READ COMMITTED), inside the same *)
(* decorators.  The body's steps:                                          *)
(*                                                                         *)
(*   start           the checks and lookups that come first                *)
(*   readInventory   findByProductAndStore with a lock that is kept to the *)
(*                   end of the transaction                                *)
(*   save            both saves, which nobody sees before the commit, and  *)
(*                   the events, which do no I/O                           *)
(*   commit          COMMIT                                                *)
(*                                                                         *)
(* A reader asks the cache, then the database, then fills the cache.  A    *)
(* writer's event is published before its COMMIT, so a reader can fill the *)
(* cache between the invalidation and the commit.                          *)
(***************************************************************************)
EXTENDS GuardedCall, InventoryItem, FiniteSets, Functions

CONSTANTS
    Readers,        \* requests for the availability; each may be made again
    Requests,       \* what callers of adjustStock and restock ask for
    InitialItems,   \* the items the row may have at the start; None: no row
    OldRow          \* the id of the row that may be there at the start

\* A body that finds no row makes one with a fresh uuid, in every attempt.
FreshIds == Calls \X (1..MaxAttempts)
RowIds == FreshIds \cup {OldRow}

\* known: whether the store and the product of the request exist.
WriteRequest == [op : {"adjust", "restock"}, qty : Int, known : BOOLEAN]

ASSUME WriteRequestsAssumption == Requests \subseteq WriteRequest
ASSUME InitialItemsAssumption ==
    \A item \in InitialItems \ {None} :
        /\ item \in InventoryItem
        /\ NonNegative(item)
        /\ ShelfBalanced(item)
ASSUME InventoryKeysAssumption == Keys = {"inventory"}
ASSUME InventoryNoneAssumption ==
    /\ None \notin InventoryItem
    /\ None \notin WriteRequest
    /\ OldRow \notin FreshIds

VARIABLES
    request,         \* the arguments of each call
    rows,            \* table, as committed: RowIds -> item or None
    ledger,          \* committed inventory transactions, by the attempt that wrote them
    object,          \* local: the InventoryItem a body has changed
    subscribed,      \* whether anything has constructed CacheInvalidationHandler
    invalidations,   \* DELs of the availability key that are on their way
    cache,           \* Redis: the cached availability
    reader,          \* where each reader is
    copy             \* local: what a reader has read in the database

tables == <<rows, ledger>>
cacheVars == <<subscribed, invalidations, cache, reader, copy>>
vars == <<guardVars, request, tables, object, cacheVars>>

Visible == {r \in RowIds : rows[r] # None}

\* The template inventory:${0}:${1} of both decorators.
Key(c) == "inventory"

Init ==
    /\ GuardInit
    /\ request = [c \in Calls |-> None]
    /\ \E item \in InitialItems :
        rows = [r \in RowIds |-> IF r = OldRow THEN item ELSE None]
    /\ ledger = {}
    /\ object = [c \in Calls |-> None]
    /\ subscribed \in BOOLEAN
    /\ invalidations = {}
    /\ cache = None
    /\ reader = [r \in Readers |-> "idle"]
    /\ copy = [r \in Readers |-> None]

-----------------------------------------------------------------------------
(* The bodies.  One that throws, or whose process dies, leaves nothing in  *)
(* the database: the transaction is rolled back and its row lock freed.    *)

Refuse(c) == BodyThrows(c) /\ UNCHANGED <<request, tables, object, cacheVars>>

Validate(c) ==
    /\ pc[c] = "start"
    /\ IF ~request[c].known \/ (request[c].op = "restock" /\ request[c].qty <= 0)
       THEN Refuse(c)
       ELSE /\ BodyContinues(c, "readInventory")
            /\ UNCHANGED <<request, tables, object, cacheVars>>

\* Variant: the row is read without the lock.
HoldsRow_Never(c) == FALSE

\* The transaction of c has locked the row: SELECT ... FOR UPDATE finds committed rows
\* only, so a row that c is about to insert is locked by nobody.
HoldsRow(c) == pc[c] \in {"save", "commit"} /\ rows[object[c].id] # None

\* What findByProductAndStore gives, or the new item the body makes without it.
Found(c) ==
    IF Visible = {} THEN {[id |-> <<c, attempt[c]>>, item |-> EmptyItem]}
    ELSE {[id |-> r, item |-> rows[r]] : r \in Visible}

\* Variant: adjustStock looks at onHand only.
Allowed_OnHand(op, item, qty) == op = "adjust" => item.onHand + qty >= 0

Allowed(op, item, qty) == op = "adjust" => CanAdjust(item, qty)

Applied(op, item, qty) ==
    IF op = "adjust" THEN AdjustStock(item, qty) ELSE AddStock(item, qty)

ReadInventory(c) ==
    /\ pc[c] = "readInventory"
    /\ \A d \in Calls \ {c} : ~HoldsRow(d)
    /\ \E f \in Found(c) :
        IF Allowed(request[c].op, f.item, request[c].qty)
        THEN /\ object' = [object EXCEPT ![c] =
                    [f EXCEPT !.item = Applied(request[c].op, @, request[c].qty)]]
             /\ BodyContinues(c, "save")
             /\ UNCHANGED <<request, tables, cacheVars>>
        ELSE Refuse(c)

\* InventoryUpdatedEvent reaches the handler, if there is one, before publish returns.
Save(c) ==
    /\ pc[c] = "save"
    /\ invalidations' = IF subscribed THEN invalidations \cup {<<c, attempt[c]>>}
                                      ELSE invalidations
    /\ BodyContinues(c, "commit")
    /\ UNCHANGED <<request, tables, object, subscribed, cache, reader, copy>>

\* The row and the transaction become visible together.
Commit(c) ==
    /\ pc[c] = "commit"
    /\ rows' = [rows EXCEPT ![object[c].id] = object[c].item]
    /\ ledger' = ledger \cup {<<c, attempt[c]>>}
    /\ \/ BodyReturns(c)
       \/ "replyLost" \in Faults /\ BodyThrows(c)
    /\ UNCHANGED <<request, object, cacheVars>>

DbSteps == {"start", "readInventory", "save", "commit"}

DbFails(c) ==
    /\ "dbRejects" \in Faults
    /\ pc[c] \in DbSteps
    /\ Refuse(c)

BodyStep(c) == Validate(c) \/ ReadInventory(c) \/ Save(c) \/ Commit(c)

-----------------------------------------------------------------------------
(* getStockAvailability, the cache and its invalidation.  RedisCacheService *)
(* logs an error of Redis and goes on: get returns null then, set and      *)
(* delete do nothing.                                                      *)

RedisFails == "redis" \in Faults

\* A hit is returned at once and changes nothing.
CacheMiss(r) ==
    /\ reader[r] = "idle"
    /\ cache = None \/ RedisFails
    /\ reader' = [reader EXCEPT ![r] = "fetch"]
    /\ UNCHANGED <<guardVars, request, tables, object, subscribed, invalidations, cache, copy>>

\* Without a row, or when the query fails, the caller gets an error.
Fetch(r) ==
    /\ reader[r] = "fetch"
    /\ \/ \E row \in Visible :
            /\ copy' = [copy EXCEPT ![r] = rows[row]]
            /\ reader' = [reader EXCEPT ![r] = "fill"]
       \/ /\ Visible = {} \/ "dbRejects" \in Faults
          /\ reader' = [reader EXCEPT ![r] = "idle"]
          /\ UNCHANGED copy
    /\ UNCHANGED <<guardVars, request, tables, object, subscribed, invalidations, cache>>

\* SETEX over whatever the cache holds by now.
Fill(r) ==
    /\ reader[r] = "fill"
    /\ \/ cache' = copy[r]
       \/ RedisFails /\ UNCHANGED cache
    /\ reader' = [reader EXCEPT ![r] = "idle"]
    /\ copy' = [copy EXCEPT ![r] = None]
    /\ UNCHANGED <<guardVars, request, tables, object, subscribed, invalidations>>

\* handleInventoryUpdated's DEL arrives, or fails.
Invalidate(id) ==
    /\ id \in invalidations
    /\ invalidations' = invalidations \ {id}
    /\ \/ cache' = None
       \/ RedisFails /\ UNCHANGED cache
    /\ UNCHANGED <<guardVars, request, tables, object, subscribed, reader, copy>>

\* Variant: SET without an expiry.
CacheExpires_Never == FALSE /\ UNCHANGED vars

\* The TTL of the entry (STOCK_AVAILABILITY_TTL, 30 s) is over.
CacheExpires ==
    /\ cache # None
    /\ cache' = None
    /\ UNCHANGED <<guardVars, request, tables, object, subscribed, invalidations, reader, copy>>

Read(r) == CacheMiss(r) \/ Fetch(r) \/ Fill(r)

-----------------------------------------------------------------------------
(* The decorators around the bodies.                                       *)

Call(c) ==
    /\ Invoke(c)
    /\ \E r \in Requests : request' = [request EXCEPT ![c] = r]
    /\ UNCHANGED <<tables, object, cacheVars>>

\* A breaker can be open only after a call of the same operation has failed.
BreakerMayBeOpen(c) ==
    \E d \in Calls \ {c} :
        /\ answer[d] \in {"error", "timeout"}
        /\ request[d].op = request[c].op

Guard(c) ==
    /\ \/ AcquireAndFire(c, Key(c))
       \/ AcquireAndReject(c, Key(c)) /\ BreakerMayBeOpen(c)
       \/ WaitTimeout(c)
       \/ AcquireFails(c, Key(c))
       \/ Timeout(c)
       \/ Release(c, Key(c))
       \/ ReleaseFails(c)
       \/ Crash(c)
    /\ UNCHANGED <<request, tables, object, cacheVars>>

RetryBody(c) == Retry(c) /\ UNCHANGED <<request, tables, object, cacheVars>>

Expire(k) == LeaseExpires(k) /\ UNCHANGED <<request, tables, object, cacheVars>>

Next ==
    \/ \E c \in Calls : Call(c) \/ Guard(c) \/ RetryBody(c) \/ BodyStep(c) \/ DbFails(c)
    \/ \E k \in Keys : Expire(k)
    \/ \E r \in Readers : Read(r)
    \/ \E id \in invalidations : Invalidate(id)
    \/ CacheExpires

Spec == Init /\ [][Next]_vars

\* Redis drops an entry whose TTL is over.  Nothing else is asked, of anybody.
LiveSpec == Spec /\ WF_vars(CacheExpires)

-----------------------------------------------------------------------------
TypeOK ==
    /\ client \in [Calls -> ClientStates]
    /\ answer \in [Calls -> Answers]
    /\ lock \in [Keys -> Calls \cup {None}]
    /\ pc \in [Calls -> DbSteps \cup {"backoff", "off"}]
    /\ attempt \in [Calls -> 0..MaxAttempts]
    /\ request \in [Calls -> Requests \cup {None}]
    /\ rows \in [RowIds -> InventoryItem \cup {None}]
    /\ ledger \subseteq FreshIds
    /\ object \in [Calls -> [id : RowIds, item : InventoryItem] \cup {None}]
    /\ subscribed \in BOOLEAN
    /\ invalidations \subseteq FreshIds
    /\ cache \in InventoryItem \cup {None}
    /\ reader \in [Readers -> {"idle", "fetch", "fill"}]
    /\ copy \in [Readers -> InventoryItem \cup {None}]

\* The ledger explains the stock: what is on hand is what was there at the start and what
\* the recorded transactions brought or took, also after rollbacks, retries, timeouts and
\* when an orphaned body meets the next holder of the lock on the same row.  A row is
\* never deleted, so whether there was one at the start shows in every state.
LedgerExplainsStock ==
    \E item \in InitialItems :
        /\ item = None <=> rows[OldRow] = None
        /\ SumFunction([r \in Visible |-> rows[r].onHand]) =
                (IF item = None THEN 0 ELSE item.onHand)
                    + SumFunction([t \in ledger |-> request[t[1]].qty])

\* No adjustment, in whatever company, leaves a row unbalanced or a counter below zero.
RowsSound ==
    \A r \in Visible : NonNegative(rows[r]) /\ ShelfBalanced(rows[r])

\* However often a call was tried, its effect is there once or not at all; and not at all
\* when the caller was told of an error.  A lost reply to COMMIT is excepted: Retry then
\* applies the adjustment again.
OnceOrNotAtAll ==
    \A c \in Calls :
        LET committed == {n \in 1..MaxAttempts : <<c, n>> \in ledger}
        IN  /\ Cardinality(committed) <= 1
            /\ answer[c] = "ok" => committed = {attempt[c]}
            /\ answer[c] \in {"error", "rejected", "notLocked"} => committed = {}

\* A reader can fill the cache with a row that is being replaced, before or after the
\* invalidation.  In the end the cache is right nevertheless: it is empty or shows a
\* row as it is, whether or not a handler is subscribed.
EventuallyFresh ==
    <>[](cache = None \/ \E r \in Visible : cache = rows[r])
=============================================================================
