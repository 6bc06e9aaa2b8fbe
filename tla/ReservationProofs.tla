------------------------- MODULE ReservationProofs -------------------------
(***************************************************************************)
(* Proofs about ReservationService for any number of calls, rows, orders   *)
(* and attempts: its types, the exclusion the lock gives, the counters,    *)
(* what is recorded, refusals, the refinement of StockLedger, and that     *)
(* active reservations are backed by reserved units.  They rest on         *)
(* TypeInv, which adds to TypeOK what a body that has reached a step can   *)
(* rely on: its call has a request, its reads gave it rows, and the rows   *)
(* it read are still there.                                                *)
(***************************************************************************)
EXTENDS ReservationRefinement, InventoryItemProofs, FiniteSetTheorems

AfterFind == {"readInventory", "saveReservation", "diffInventory", "writeInventory",
              "saveTransaction", "publish"}

AfterRead == AfterFind \ {"readInventory"}

BodyShape(c) ==
    /\ client[c] = "idle" => pc[c] = "off"
    /\ client[c] # "idle" => request[c] \in Requests
    /\ pc[c] # "off" => attempt[c] \in 1..MaxAttempts
    /\ pc[c] = "backoff" => attempt[c] < MaxAttempts
    /\ pc[c] \in AfterFind =>
        /\ found[c] \in Ids
        /\ request[c].op # "reserve" => resv[found[c]] # None
    /\ pc[c] \in AfterRead =>
        /\ row[c] \in InventoryItem
        /\ inventory[request[c].item] # None

Shape == \A c \in Calls : BodyShape(c)

TypeInv == TypeOK /\ Shape

\* The program starts with the types right and no body under way.
LEMMA InitTypeInv == Init => TypeInv
  <1> SUFFICES ASSUME Init PROVE TypeInv
    OBVIOUS
  <1>1. inventory \in [Items -> InventoryItem \cup {None}]
    BY StockAssumption DEF Init
  <1>2. resv \in [Ids -> Reservation \cup {None}]
    BY PriorAssumption DEF Init
  <1>3. TypeOK
    BY <1>1, <1>2, AttemptsAssumption
       DEF Init, GuardInit, TypeOK, ClientStates, Answers
  <1>4. Shape
    BY DEF Init, GuardInit, Shape, BodyShape, AfterFind, AfterRead
  <1>. QED
    BY <1>3, <1>4 DEF TypeInv

\* A call comes with one of the requests.
LEMMA CallTypeInv ==
    ASSUME TypeInv, NEW c \in Calls, Call(c)
    PROVE  TypeInv'
  <1>1. TypeOK'
    BY DEF TypeInv, TypeOK, Call, Invoke, tables, locals, ClientStates
  <1>2. Shape'
    BY DEF TypeInv, TypeOK, Shape, BodyShape, AfterFind, AfterRead, Call, Invoke,
           tables, locals
  <1>. QED
    BY <1>1, <1>2 DEF TypeInv

\* The key of a call that was made is the name of a lock.
LEMMA KeyIsAKey ==
    ASSUME TypeInv, NEW c \in Calls, client[c] # "idle"
    PROVE  Key(c) \in Keys
  BY KeysAssumption, RequestsAssumption
     DEF TypeInv, Shape, BodyShape, Key, LockKey, LockKeys, RequestType

\* The decorators only start and stop bodies.
LEMMA GuardTypeInv ==
    ASSUME TypeInv, NEW c \in Calls, Guard(c)
    PROVE  TypeInv'
  <1>0. client[c] # "idle" => Key(c) \in Keys
    BY KeyIsAKey
  <1>1. TypeOK'
    BY <1>0, AttemptsAssumption
       DEF TypeInv, TypeOK, Guard, Enter, AcquireAndFire, AcquireAndReject, NotLocked,
           WaitTimeout, AcquireFails, Timeout, Release, ReleaseFails, Crash, tables,
           locals, ClientStates, Answers, DbSteps
  <1>2. Shape'
    BY AttemptsAssumption
       DEF TypeInv, TypeOK, Guard, Enter, AcquireAndFire, AcquireAndReject, NotLocked,
           WaitTimeout, AcquireFails, Timeout, Release, ReleaseFails, Crash, tables,
           locals, ClientStates, Answers, DbSteps, Shape, BodyShape, AfterFind, AfterRead
  <1>. QED
    BY <1>1, <1>2 DEF TypeInv

-----------------------------------------------------------------------------
(* How a step of a body can leave the guard's variables.                   *)

\* The part of TypeInv that is about the decorators' variables and the requests.
GuardOK ==
    /\ client \in [Calls -> ClientStates]
    /\ answer \in [Calls -> Answers]
    /\ lock \in [Keys -> Calls \cup {None}]
    /\ pc \in [Calls -> DbSteps \cup {"publish", "backoff", "off"}]
    /\ attempt \in [Calls -> 0..MaxAttempts]
    /\ request \in [Calls -> Requests \cup {None}]

\* A body that throws either waits for its next attempt or is over.
LEMMA BodyThrowsGuard ==
    ASSUME TypeInv, NEW c \in Calls, pc[c] # "off", BodyThrows(c), request' = request
    PROVE  /\ GuardOK'
           /\ attempt' = attempt
           /\ \A d \in Calls : client'[d] = "idle" <=> client[d] = "idle"
           /\ \A d \in Calls \ {c} : pc'[d] = pc[d]
           /\ pc'[c] \in {"off", "backoff"}
           /\ pc'[c] = "backoff" => attempt[c] < MaxAttempts
  BY AttemptsAssumption
     DEF TypeInv, TypeOK, GuardOK, BodyThrows, BodyContinues, Goto, Settle, Shape, BodyShape,
         ClientStates, Answers, DbSteps

\* A body that goes on moves nothing but its own pc.
LEMMA BodyContinuesGuard ==
    ASSUME TypeInv, NEW c \in Calls, NEW step \in DbSteps \cup {"publish"},
           BodyContinues(c, step), request' = request
    PROVE  /\ GuardOK'
           /\ attempt' = attempt
           /\ client' = client
           /\ \A d \in Calls \ {c} : pc'[d] = pc[d]
           /\ pc'[c] = step
  BY DEF TypeInv, TypeOK, GuardOK, BodyContinues, Goto, DbSteps

\* A body that returns is over.
LEMMA BodyReturnsGuard ==
    ASSUME TypeInv, NEW c \in Calls, pc[c] # "off", BodyReturns(c), request' = request
    PROVE  /\ GuardOK'
           /\ attempt' = attempt
           /\ \A d \in Calls : client'[d] = "idle" <=> client[d] = "idle"
           /\ \A d \in Calls \ {c} : pc'[d] = pc[d]
           /\ pc'[c] = "off"
  BY DEF TypeInv, TypeOK, GuardOK, BodyReturns, Goto, Settle, Shape, BodyShape,
         ClientStates, Answers, DbSteps

-----------------------------------------------------------------------------
(* The steps of a body.                                                    *)

\* The part of TypeInv that is about the tables and the locals of the bodies.
DataOK ==
    /\ inventory \in [Items -> InventoryItem \cup {None}]
    /\ resv \in [Ids -> Reservation \cup {None}]
    /\ ledger \subseteq FreshIds
    /\ published \subseteq FreshIds
    /\ found \in [Calls -> Ids \cup {None}]
    /\ row \in [Calls -> InventoryItem \cup {None}]
    /\ dirty \in [Calls -> SUBSET Fields]

\* What a step of c leaves to the other calls: their place, their locals, and every
\* row they have seen.
OthersKept(c) ==
    /\ attempt' = attempt
    /\ request' = request
    /\ \A d \in Calls : client'[d] = "idle" <=> client[d] = "idle"
    /\ \A d \in Calls \ {c} : pc'[d] = pc[d] /\ found'[d] = found[d] /\ row'[d] = row[d]
    /\ \A i \in Items : inventory[i] # None => inventory'[i] # None
    /\ \A id \in Ids : resv[id] # None => resv'[id] # None

\* A body's step keeps TypeInv if it keeps the types and its own shape: the others'
\* shapes do not depend on what it changed.
LEMMA BodyStepKeepsTypeInv ==
    ASSUME TypeInv, NEW c \in Calls, GuardOK', DataOK', OthersKept(c), BodyShape(c)'
    PROVE  TypeInv'
  <1>1. TypeOK'
    BY DEF TypeOK, GuardOK, DataOK
  <1>2. ASSUME NEW d \in Calls \ {c} PROVE BodyShape(d)'
    <2>1. BodyShape(d)
      BY DEF TypeInv, Shape
    <2>2. client[d] # "idle" => request[d].item \in Items
      BY <2>1, RequestsAssumption DEF BodyShape, RequestType
    <2>. QED
      BY <2>1, <2>2 DEF OthersKept, BodyShape, AfterFind, AfterRead
  <1>3. Shape'
    BY <1>2 DEF Shape
  <1>. QED
    BY <1>1, <1>3 DEF TypeInv

\* What is known of a body at one of its steps.
LEMMA RunningBody ==
    ASSUME TypeInv, NEW c \in Calls, pc[c] # "off"
    PROVE  /\ client[c] # "idle"
           /\ request[c] \in Requests
           /\ request[c] \in RequestType
           /\ attempt[c] \in 1..MaxAttempts
           /\ <<c, attempt[c]>> \in FreshIds
  BY RequestsAssumption DEF TypeInv, TypeOK, Shape, BodyShape, FreshIds

\* An attempt that throws and changes no data keeps TypeInv.
LEMMA RefuseTypeInv ==
    ASSUME TypeInv, NEW c \in Calls, pc[c] # "off", Refuse(c)
    PROVE  TypeInv'
  <1>1. BodyThrows(c) /\ UNCHANGED <<request, tables, locals>>
    BY DEF Refuse
  <1>2. /\ GuardOK'
        /\ attempt' = attempt
        /\ \A d \in Calls : client'[d] = "idle" <=> client[d] = "idle"
        /\ \A d \in Calls \ {c} : pc'[d] = pc[d]
        /\ pc'[c] \in {"off", "backoff"}
        /\ pc'[c] = "backoff" => attempt[c] < MaxAttempts
    BY <1>1, BodyThrowsGuard
  <1>3. DataOK'
    BY <1>1 DEF TypeInv, TypeOK, DataOK, tables, locals
  <1>4. OthersKept(c)
    BY <1>1, <1>2 DEF OthersKept, tables, locals
  <1>5. BodyShape(c)'
    BY <1>1, <1>2, RunningBody DEF BodyShape, AfterFind, AfterRead
  <1>. QED
    BY <1>2, <1>3, <1>4, <1>5, BodyStepKeepsTypeInv

\* The database refuses a statement: the attempt throws.
LEMMA DbFailsTypeInv ==
    ASSUME TypeInv, NEW c \in Calls, DbFails(c)
    PROVE  TypeInv'
  <1>1. pc[c] # "off" /\ Refuse(c)
    BY DEF DbFails, DbRejects, DbSteps, Refuse
  <1>. QED
    BY <1>1, RefuseTypeInv

\* The next attempt starts over.
LEMMA RetryTypeInv ==
    ASSUME TypeInv, NEW c \in Calls, RetryBody(c)
    PROVE  TypeInv'
  <1>1. TypeOK'
    BY AttemptsAssumption
       DEF TypeInv, TypeOK, Shape, BodyShape, RetryBody, Retry, Goto, DbSteps, tables, locals
  <1>2. Shape'
    BY AttemptsAssumption
       DEF TypeInv, TypeOK, Shape, BodyShape, RetryBody, Retry, Goto, DbSteps, tables, locals,
           AfterFind, AfterRead
  <1>. QED
    BY <1>1, <1>2 DEF TypeInv

\* A lease that runs out frees its key.
LEMMA ExpireTypeInv ==
    ASSUME TypeInv, NEW k \in Keys, Expire(k)
    PROVE  TypeInv'
  <1>1. TypeOK'
    BY DEF TypeInv, TypeOK, Expire, LeaseExpires, tables, locals
  <1>2. Shape'
    BY DEF TypeInv, Shape, BodyShape, Expire, LeaseExpires, tables, locals
  <1>. QED
    BY <1>1, <1>2 DEF TypeInv

\* The reservation a body goes on with has an id, and a settling body's is stored.
LEMMA FindTypeInv ==
    ASSUME TypeInv, NEW c \in Calls, FindForReserve(c) \/ FindForSettle(c)
    PROVE  TypeInv'
  <1>0. pc[c] # "off"
    BY DEF FindForReserve, FindForSettle
  <1>1. CASE Refuse(c)
    BY <1>0, <1>1, RefuseTypeInv
  <1>2. CASE \E id \in Ids :
                /\ request[c].op # "reserve" => resv[id] # None
                /\ found' = [found EXCEPT ![c] = id]
                /\ BodyContinues(c, "readInventory")
                /\ UNCHANGED <<request, tables, row, dirty>>
    <2>1. PICK id \in Ids :
                /\ request[c].op # "reserve" => resv[id] # None
                /\ found' = [found EXCEPT ![c] = id]
                /\ BodyContinues(c, "readInventory")
                /\ UNCHANGED <<request, tables, row, dirty>>
      BY <1>2
    <2>2. "readInventory" \in DbSteps \cup {"publish"}
      BY DEF DbSteps
    <2>3. /\ GuardOK'
          /\ attempt' = attempt
          /\ client' = client
          /\ \A d \in Calls \ {c} : pc'[d] = pc[d]
          /\ pc'[c] = "readInventory"
      BY <2>1, <2>2, BodyContinuesGuard
    <2>4. DataOK'
      BY <2>1 DEF TypeInv, TypeOK, DataOK, tables
    <2>5. OthersKept(c)
      BY <2>1, <2>3 DEF TypeInv, TypeOK, OthersKept, tables
    <2>6. BodyShape(c)'
      BY <1>0, <2>1, <2>3, RunningBody DEF TypeInv, TypeOK, BodyShape, AfterFind, AfterRead, tables
    <2>. QED
      BY <2>3, <2>4, <2>5, <2>6, BodyStepKeepsTypeInv
  <1>3. <<c, attempt[c]>> \in Ids
    BY <1>0, RunningBody DEF Ids
  <1>4. request[c].op \in {"release", "confirm"} => request[c].op # "reserve"
    OBVIOUS
  <1>5. Refuse(c) \/ \E id \in Ids :
                /\ request[c].op # "reserve" => resv[id] # None
                /\ found' = [found EXCEPT ![c] = id]
                /\ BodyContinues(c, "readInventory")
                /\ UNCHANGED <<request, tables, row, dirty>>
    <2>1. CASE FindForReserve(c)
      BY <2>1, <1>3 DEF FindForReserve
    <2>2. CASE FindForSettle(c)
      BY <2>2, <1>4 DEF FindForSettle, ActiveByOrderRef
    <2>. QED
      BY <2>1, <2>2
  <1>. QED
    BY <1>1, <1>2, <1>5

\* The aggregate's methods give an item, and no negative counter if their guard holds
\* and there was none before.
LEMMA AppliedCounters ==
    ASSUME NEW r \in RequestType, NEW item \in InventoryItem
    PROVE  /\ Applied(r.op, item, r.qty) \in InventoryItem
           /\ (CountersNonNegative(item) /\ Allowed(r.op, item, r.qty)) =>
                CountersNonNegative(Applied(r.op, item, r.qty))
  <1>1. r.op \in {"reserve", "release", "confirm"} /\ r.qty \in Nat \ {0}
    BY DEF RequestType, Ops
  <1> DEFINE qty == r.qty
  <1>2. qty \in Int /\ qty > 0
    BY <1>1
  <1>3. /\ item.onHand \in Int
        /\ item.available \in Int
        /\ item.reserved \in Int
        /\ item.committed \in Int
        /\ item.inTransit \in Int
    BY ItemCounters
  <1>4. CASE r.op = "reserve"
    <2>1. Moved(item, ReserveStock(item, qty), 0, -qty, qty, 0, 0)
      BY <1>2, ReserveStockMoves
    <2>2. Applied(r.op, item, qty) = ReserveStock(item, qty)
      BY <1>4 DEF Applied
    <2>3. Allowed(r.op, item, qty) <=> item.available >= qty
      BY <1>4 DEF Allowed, CanReserve
    <2> HIDE DEF qty
    <2>. QED
      BY <2>1, <2>2, <2>3, <1>2, <1>3 DEF Moved, CountersNonNegative, qty
  <1>5. CASE r.op = "release"
    <2>1. Moved(item, ReleaseStock(item, qty), 0, qty, -qty, 0, 0)
      BY <1>2, ReleaseStockMoves
    <2>2. Applied(r.op, item, qty) = ReleaseStock(item, qty)
      BY <1>5 DEF Applied
    <2>3. Allowed(r.op, item, qty) <=> item.reserved >= qty
      BY <1>5 DEF Allowed, CanRelease
    <2>. QED
      BY <2>1, <2>2, <2>3, <1>2, <1>3 DEF Moved, CountersNonNegative
  <1>6. CASE r.op = "confirm"
    <2>1. Moved(item, ConfirmSale(item, qty), -qty, 0, -qty, qty, 0)
      BY <1>2, ConfirmSaleMoves
    <2>2. Applied(r.op, item, qty) = ConfirmSale(item, qty)
      BY <1>6 DEF Applied
    <2>3. Allowed(r.op, item, qty) <=> item.reserved >= qty
      BY <1>6 DEF Allowed, CanConfirm
    <2>. QED
      BY <2>1, <2>2, <2>3, <1>2, <1>3 DEF Moved, CountersNonNegative
  <1>. QED
    BY <1>1, <1>4, <1>5, <1>6

\* What readInventory gives a body that goes on.
LEMMA ReadInventoryEffect ==
    ASSUME TypeInv, NEW c \in Calls, ReadInventory(c)
    PROVE  \/ Refuse(c)
           \/ LET r == request[c]
              IN  /\ inventory[r.item] # None
                  /\ Allowed(r.op, inventory[r.item], r.qty)
                  /\ row' = [row EXCEPT ![c] = Applied(r.op, inventory[r.item], r.qty)]
                  /\ BodyContinues(c, "saveReservation")
                  /\ UNCHANGED <<request, tables, found, dirty>>
  BY DEF ReadInventory

\* The object a body goes on with is an item, and the row it comes from exists.
LEMMA ReadInventoryTypeInv ==
    ASSUME TypeInv, NEW c \in Calls, ReadInventory(c)
    PROVE  TypeInv'
  <1>0. pc[c] # "off" /\ pc[c] = "readInventory"
    BY DEF ReadInventory
  <1>1. CASE Refuse(c)
    BY <1>0, <1>1, RefuseTypeInv
  <1>2. CASE /\ inventory[request[c].item] # None
             /\ row' = [row EXCEPT ![c] =
                          Applied(request[c].op, inventory[request[c].item], request[c].qty)]
             /\ BodyContinues(c, "saveReservation")
             /\ UNCHANGED <<request, tables, found, dirty>>
    <2>1. "saveReservation" \in DbSteps \cup {"publish"}
      BY DEF DbSteps
    <2>2. /\ GuardOK'
          /\ attempt' = attempt
          /\ client' = client
          /\ \A d \in Calls \ {c} : pc'[d] = pc[d]
          /\ pc'[c] = "saveReservation"
      BY <1>2, <2>1, BodyContinuesGuard
    <2>3. request[c] \in RequestType
      BY <1>0, RunningBody
    <2>4. inventory[request[c].item] \in InventoryItem
      BY <1>2, <2>3 DEF TypeInv, TypeOK, RequestType
    <2>5. Applied(request[c].op, inventory[request[c].item], request[c].qty) \in InventoryItem
      BY <2>3, <2>4, AppliedCounters
    <2>6. DataOK'
      BY <1>2, <2>5 DEF TypeInv, TypeOK, DataOK, tables
    <2>7. OthersKept(c)
      BY <1>2, <2>2 DEF TypeInv, TypeOK, OthersKept, tables
    <2>8. BodyShape(c)'
      BY <1>0, <1>2, <2>2, <2>5, RunningBody
         DEF TypeInv, TypeOK, Shape, BodyShape, AfterFind, AfterRead, tables
    <2>. QED
      BY <2>2, <2>6, <2>7, <2>8, BodyStepKeepsTypeInv
  <1>. QED
    BY <1>1, <1>2, ReadInventoryEffect

\* The two ways on from a write.
LEMMA ReplyOrLostGuard ==
    ASSUME TypeInv, NEW c \in Calls, NEW step \in DbSteps \cup {"publish"}, pc[c] # "off",
           ReplyOrLost(c, step), request' = request
    PROVE  /\ GuardOK'
           /\ attempt' = attempt
           /\ \A d \in Calls : client'[d] = "idle" <=> client[d] = "idle"
           /\ \A d \in Calls \ {c} : pc'[d] = pc[d]
           /\ pc'[c] \in {"off", "backoff", step}
           /\ pc'[c] = "backoff" => attempt[c] < MaxAttempts
  <1>1. CASE BodyContinues(c, step)
    <2>1. /\ GuardOK'
          /\ attempt' = attempt
          /\ client' = client
          /\ \A d \in Calls \ {c} : pc'[d] = pc[d]
          /\ pc'[c] = step
      BY <1>1, BodyContinuesGuard
    <2>2. step # "backoff"
      BY DEF DbSteps
    <2>. QED
      BY <2>1, <2>2
  <1>2. CASE BodyThrows(c)
    BY <1>2, BodyThrowsGuard
  <1>. QED
    BY <1>1, <1>2 DEF ReplyOrLost

\* What the first save stores is a reservation.
LEMMA SavedReservationType ==
    ASSUME TypeInv, NEW c \in Calls, pc[c] = "saveReservation"
    PROVE  found[c] \in Ids /\ SavedReservation(c) \in Reservation
  <1>1. request[c] \in RequestType
    BY RunningBody
  <1>2. found[c] \in Ids /\ (request[c].op # "reserve" => resv[found[c]] \in Reservation)
    BY DEF TypeInv, TypeOK, Shape, BodyShape, AfterFind
  <1>. QED
    BY <1>1, <1>2 DEF SavedReservation, RequestType, Ops, Reservation, Statuses

\* The first save stores a reservation, whatever became of the one that was found.
LEMMA SaveReservationTypeInv ==
    ASSUME TypeInv, NEW c \in Calls, SaveReservation(c)
    PROVE  TypeInv'
  <1>1. /\ pc[c] = "saveReservation"
        /\ resv' = [resv EXCEPT ![found[c]] = SavedReservation(c)]
        /\ ReplyOrLost(c, "diffInventory")
        /\ UNCHANGED <<request, inventory, ledger, published, locals>>
    BY DEF SaveReservation
  <1>2. found[c] \in Ids /\ SavedReservation(c) \in Reservation
    BY <1>1, SavedReservationType
  <1>3. "diffInventory" \in DbSteps \cup {"publish"} /\ pc[c] # "off" /\ request' = request
    BY <1>1 DEF DbSteps
  <1>4. /\ GuardOK'
        /\ attempt' = attempt
        /\ \A d \in Calls : client'[d] = "idle" <=> client[d] = "idle"
        /\ \A d \in Calls \ {c} : pc'[d] = pc[d]
        /\ pc'[c] \in {"off", "backoff", "diffInventory"}
        /\ pc'[c] = "backoff" => attempt[c] < MaxAttempts
    BY <1>1, <1>3, ReplyOrLostGuard
  <1>5. DataOK'
    BY <1>1, <1>2 DEF TypeInv, TypeOK, DataOK, locals
  <1>6. None \notin Reservation
    BY NullAssumption
  <1>7. OthersKept(c)
    BY <1>1, <1>2, <1>4, <1>6 DEF TypeInv, TypeOK, OthersKept, locals
  <1>8. BodyShape(c)
    BY DEF TypeInv, Shape
  <1>9. BodyShape(c)'
    BY <1>1, <1>3, <1>4, <1>7, <1>8, RunningBody
       DEF OthersKept, BodyShape, AfterFind, AfterRead, locals
  <1>. QED
    BY <1>4, <1>5, <1>7, <1>9, BodyStepKeepsTypeInv

\* The columns in which the object differs from the row are columns.
LEMMA DiffInventoryTypeInv ==
    ASSUME TypeInv, NEW c \in Calls, DiffInventory(c)
    PROVE  TypeInv'
  <1> DEFINE differing == Differing(row[c], inventory[request[c].item])
  <1>1. /\ pc[c] = "diffInventory"
        /\ dirty' = [dirty EXCEPT ![c] = differing]
        /\ BodyContinues(c, "writeInventory")
        /\ UNCHANGED <<request, tables, found, row>>
    BY DEF DiffInventory
  <1>2. "writeInventory" \in DbSteps \cup {"publish"} /\ pc[c] # "off" /\ request' = request
    BY <1>1 DEF DbSteps
  <1>3. /\ GuardOK'
        /\ attempt' = attempt
        /\ client' = client
        /\ \A d \in Calls \ {c} : pc'[d] = pc[d]
        /\ pc'[c] = "writeInventory"
    BY <1>1, <1>2, BodyContinuesGuard
  <1>4. differing \in SUBSET Fields
    BY DEF Differing
  <1> HIDE DEF differing
  <1>5. DataOK'
    BY <1>1, <1>4 DEF TypeInv, TypeOK, DataOK, tables
  <1>6. OthersKept(c)
    BY <1>1, <1>3 DEF OthersKept, tables
  <1>7. BodyShape(c)
    BY DEF TypeInv, Shape
  <1>8. BodyShape(c)'
    BY <1>1, <1>3, <1>7 DEF BodyShape, AfterFind, AfterRead, tables
  <1>. QED
    BY <1>3, <1>5, <1>6, <1>8, BodyStepKeepsTypeInv

\* The UPDATE leaves an item in the row.
LEMMA WriteInventoryTypeInv ==
    ASSUME TypeInv, NEW c \in Calls, WriteInventory(c)
    PROVE  TypeInv'
  <1> DEFINE i == request[c].item
  <1> DEFINE merged == Merge(inventory[i], row[c], dirty[c])
  <1>1. /\ pc[c] = "writeInventory"
        /\ inventory' = [inventory EXCEPT ![i] = merged]
        /\ ReplyOrLost(c, "saveTransaction")
        /\ UNCHANGED <<request, resv, ledger, published, locals>>
    BY DEF WriteInventory
  <1>2. "saveTransaction" \in DbSteps \cup {"publish"} /\ pc[c] # "off" /\ request' = request
    BY <1>1 DEF DbSteps
  <1>3. /\ GuardOK'
        /\ attempt' = attempt
        /\ \A d \in Calls : client'[d] = "idle" <=> client[d] = "idle"
        /\ \A d \in Calls \ {c} : pc'[d] = pc[d]
        /\ pc'[c] \in {"off", "backoff", "saveTransaction"}
        /\ pc'[c] = "backoff" => attempt[c] < MaxAttempts
    BY <1>1, <1>2, ReplyOrLostGuard
  <1>4. BodyShape(c)
    BY DEF TypeInv, Shape
  <1>5. i \in Items
    BY <1>2, RunningBody DEF RequestType
  <1>6. row[c] \in InventoryItem /\ inventory[i] \in InventoryItem
    BY <1>1, <1>4, <1>5 DEF BodyShape, AfterFind, AfterRead, TypeInv, TypeOK
  <1>7. merged \in InventoryItem
    BY <1>6, MergeCounters
  <1>8. None \notin InventoryItem
    BY NullAssumption
  <1> HIDE DEF merged
  <1>9. DataOK'
    BY <1>1, <1>5, <1>7 DEF TypeInv, TypeOK, DataOK, locals
  <1>10. OthersKept(c)
    BY <1>1, <1>3, <1>5, <1>7, <1>8 DEF TypeInv, TypeOK, OthersKept, locals
  <1>11. BodyShape(c)'
    BY <1>1, <1>3, <1>4, <1>5, <1>10 DEF OthersKept, BodyShape, AfterFind, AfterRead, locals
  <1>. QED
    BY <1>3, <1>9, <1>10, <1>11, BodyStepKeepsTypeInv

\* The transaction is that of an attempt.
LEMMA SaveTransactionTypeInv ==
    ASSUME TypeInv, NEW c \in Calls, SaveTransaction(c)
    PROVE  TypeInv'
  <1>1. /\ pc[c] = "saveTransaction"
        /\ ledger' = ledger \cup {<<c, attempt[c]>>}
        /\ ReplyOrLost(c, "publish")
        /\ UNCHANGED <<request, inventory, resv, published, locals>>
    BY DEF SaveTransaction
  <1>2. "publish" \in DbSteps \cup {"publish"} /\ pc[c] # "off" /\ request' = request
    BY <1>1
  <1>3. /\ GuardOK'
        /\ attempt' = attempt
        /\ \A d \in Calls : client'[d] = "idle" <=> client[d] = "idle"
        /\ \A d \in Calls \ {c} : pc'[d] = pc[d]
        /\ pc'[c] \in {"off", "backoff", "publish"}
        /\ pc'[c] = "backoff" => attempt[c] < MaxAttempts
    BY <1>1, <1>2, ReplyOrLostGuard
  <1>4. DataOK'
    BY <1>1, <1>2, RunningBody DEF TypeInv, TypeOK, DataOK, locals
  <1>5. OthersKept(c)
    BY <1>1, <1>3 DEF OthersKept, locals
  <1>6. BodyShape(c)
    BY DEF TypeInv, Shape
  <1>7. BodyShape(c)'
    BY <1>1, <1>3, <1>6 DEF BodyShape, AfterFind, AfterRead, locals
  <1>. QED
    BY <1>3, <1>4, <1>5, <1>7, BodyStepKeepsTypeInv

\* The events are those of an attempt.
LEMMA PublishTypeInv ==
    ASSUME TypeInv, NEW c \in Calls, Publish(c)
    PROVE  TypeInv'
  <1>1. /\ pc[c] = "publish"
        /\ published' = published \cup {<<c, attempt[c]>>}
        /\ BodyReturns(c)
        /\ UNCHANGED <<request, inventory, resv, ledger, locals>>
    BY DEF Publish
  <1>2. pc[c] # "off" /\ request' = request
    BY <1>1
  <1>3. /\ GuardOK'
        /\ attempt' = attempt
        /\ \A d \in Calls : client'[d] = "idle" <=> client[d] = "idle"
        /\ \A d \in Calls \ {c} : pc'[d] = pc[d]
        /\ pc'[c] = "off"
    BY <1>1, <1>2, BodyReturnsGuard
  <1>4. DataOK'
    BY <1>1, <1>2, RunningBody DEF TypeInv, TypeOK, DataOK, locals
  <1>5. OthersKept(c)
    BY <1>1, <1>3 DEF OthersKept, locals
  <1>6. BodyShape(c)'
    BY <1>1, <1>2, <1>3, RunningBody DEF BodyShape, AfterFind, AfterRead
  <1>. QED
    BY <1>3, <1>4, <1>5, <1>6, BodyStepKeepsTypeInv

\* Nothing changes when nothing happens.
LEMMA StutterTypeInv ==
    ASSUME TypeInv, UNCHANGED vars
    PROVE  TypeInv'
  <1>1. TypeOK'
    BY DEF TypeInv, TypeOK, vars, guardVars, tables, locals
  <1>2. Shape'
    BY DEF TypeInv, Shape, BodyShape, vars, guardVars, tables, locals
  <1>. QED
    BY <1>1, <1>2 DEF TypeInv

\* Every step of the program keeps TypeInv.
LEMMA NextTypeInv == TypeInv /\ [Next]_vars => TypeInv'
  <1> SUFFICES ASSUME TypeInv, [Next]_vars PROVE TypeInv'
    OBVIOUS
  <1>1. ASSUME NEW c \in Calls, Call(c) PROVE TypeInv'
    BY <1>1, CallTypeInv
  <1>2. ASSUME NEW c \in Calls, Guard(c) PROVE TypeInv'
    BY <1>2, GuardTypeInv
  <1>3. ASSUME NEW c \in Calls, RetryBody(c) PROVE TypeInv'
    BY <1>3, RetryTypeInv
  <1>4. ASSUME NEW c \in Calls, BodyStep(c) PROVE TypeInv'
    <2>1. CASE FindForReserve(c) \/ FindForSettle(c)
      BY <2>1, FindTypeInv
    <2>2. CASE ReadInventory(c)
      BY <2>2, ReadInventoryTypeInv
    <2>3. CASE SaveReservation(c)
      BY <2>3, SaveReservationTypeInv
    <2>4. CASE DiffInventory(c)
      BY <2>4, DiffInventoryTypeInv
    <2>5. CASE WriteInventory(c)
      BY <2>5, WriteInventoryTypeInv
    <2>6. CASE SaveTransaction(c)
      BY <2>6, SaveTransactionTypeInv
    <2>7. CASE Publish(c)
      BY <2>7, PublishTypeInv
    <2>. QED
      BY <1>4, <2>1, <2>2, <2>3, <2>4, <2>5, <2>6, <2>7 DEF BodyStep
  <1>5. ASSUME NEW c \in Calls, DbFails(c) PROVE TypeInv'
    BY <1>5, DbFailsTypeInv
  <1>6. ASSUME NEW k \in Keys, Expire(k) PROVE TypeInv'
    BY <1>6, ExpireTypeInv
  <1>7. CASE UNCHANGED vars
    BY <1>7, StutterTypeInv
  <1>. QED
    BY <1>1, <1>2, <1>3, <1>4, <1>5, <1>6, <1>7 DEF Next, Finished

\* The tables hold rows of their types and the bodies' local objects are complete, in
\* every state of every run.
THEOREM TypeCorrect == Spec => [](TypeOK /\ Shape)
  <1>1. Init => TypeOK /\ Shape
    BY InitTypeInv DEF TypeInv
  <1>2. TypeOK /\ Shape /\ [Next]_vars => (TypeOK /\ Shape)'
    BY NextTypeInv DEF TypeInv
  <1>. QED
    BY <1>1, <1>2, PTL DEF Spec

-----------------------------------------------------------------------------
(* The lock.                                                               *)

\* FiredHoldsLock is inductive given the types: a lock that is held is not acquired,
\* a release compares before it deletes, and a lease outlives the breaker's timer.
LEMMA NextFiredHoldsLock == TypeInv /\ FiredHoldsLock /\ [Next]_vars => FiredHoldsLock'
  <1> SUFFICES ASSUME TypeInv, FiredHoldsLock, [Next]_vars PROVE FiredHoldsLock'
    OBVIOUS
  <1>0. \A d \in Calls : client[d] = "fired" => Key(d) \in Keys /\ lock[Key(d)] = d
    BY KeyIsAKey DEF FiredHoldsLock
  <1>1. ASSUME NEW c \in Calls, Call(c) PROVE FiredHoldsLock'
    BY <1>1 DEF TypeInv, TypeOK, Call, Invoke, FiredHoldsLock, Key, tables, locals
  <1>2. ASSUME NEW c \in Calls, Guard(c) PROVE FiredHoldsLock'
    <2>1. request' = request /\ \A d \in Calls : Key(d)' = Key(d)
      BY <1>2 DEF Guard, Key
    <2>2. client[c] # "idle" => Key(c) \in Keys
      BY KeyIsAKey
    <2>3. CASE Enter(c)
      BY <1>0, <2>1, <2>2, <2>3, NoneAssumption
         DEF TypeInv, TypeOK, Enter, AcquireAndFire, AcquireAndReject, WaitTimeout, NotLocked,
             FiredHoldsLock
    <2>4. CASE AcquireFails(c, Key(c))
      BY <1>0, <2>1, <2>2, <2>4, NoneAssumption
         DEF TypeInv, TypeOK, AcquireFails, NotLocked, FiredHoldsLock
    <2>5. CASE Timeout(c) \/ Release(c, Key(c)) \/ ReleaseFails(c) \/ Crash(c)
      BY <1>0, <2>1, <2>2, <2>5
         DEF TypeInv, TypeOK, Timeout, Release, ReleaseFails, Crash, FiredHoldsLock
    <2>. QED
      BY <1>2, <2>3, <2>4, <2>5 DEF Guard
  <1>3. ASSUME NEW c \in Calls, RetryBody(c) \/ BodyStep(c) \/ DbFails(c)
        PROVE FiredHoldsLock'
    <2>1. lock' = lock /\ request' = request
      BY <1>3 DEF RetryBody, Retry, BodyStep, DbFails, DbRejects, FindForReserve,
                  FindForSettle, ReadInventory, SaveReservation, DiffInventory,
                  WriteInventory, SaveTransaction, Publish, Refuse, ReplyOrLost,
                  BodyThrows, BodyContinues, BodyReturns
    <2>2. \A d \in Calls : client'[d] = "fired" => client[d] = "fired"
      <3>1. client' = client \/ \E result : Settle(c, result)
        BY <1>3 DEF RetryBody, Retry, BodyStep, DbFails, DbRejects, FindForReserve,
                    FindForSettle, ReadInventory, SaveReservation, DiffInventory,
                    WriteInventory, SaveTransaction, Publish, Refuse, ReplyOrLost,
                    BodyThrows, BodyContinues, BodyReturns
      <3>. QED
        BY <3>1 DEF Settle, TypeInv, TypeOK
    <2>. QED
      BY <1>0, <2>1, <2>2 DEF FiredHoldsLock, Key
  <1>4. ASSUME NEW k \in Keys, Expire(k) PROVE FiredHoldsLock'
    BY <1>0, <1>4 DEF TypeInv, TypeOK, Expire, LeaseExpires, FiredHoldsLock, Key
  <1>5. CASE UNCHANGED vars
    BY <1>5 DEF FiredHoldsLock, Key, vars, guardVars
  <1>. QED
    BY <1>1, <1>2, <1>3, <1>4, <1>5 DEF Next, Finished

\* No two calls are ever fired under the same key: a fired call holds its lock.
THEOREM LockCorrect == Spec => []FiredHoldsLock
  <1>1. Init => TypeInv /\ FiredHoldsLock
    BY InitTypeInv DEF Init, GuardInit, FiredHoldsLock
  <1>2. TypeInv /\ FiredHoldsLock /\ [Next]_vars => (TypeInv /\ FiredHoldsLock)'
    BY NextTypeInv, NextFiredHoldsLock
  <1>. QED
    BY <1>1, <1>2, PTL DEF Spec

-----------------------------------------------------------------------------
(* The counters.  CountersNeverNegative is not inductive alone: an UPDATE  *)
(* writes columns of an object that was computed earlier, so the objects   *)
(* the bodies carry must be free of negative counters too.                 *)

CarriedNonNegative ==
    \A c \in Calls : pc[c] \in AfterRead => CountersNonNegative(row[c])

StockInv == CountersNeverNegative /\ CarriedNonNegative

\* The steps that touch neither the inventory nor a body's object, and start no body's
\* carrying, keep StockInv.
LEMMA StockKept ==
    ASSUME StockInv, UNCHANGED <<inventory, row>>,
           \A c \in Calls : pc'[c] \in AfterRead => pc[c] \in AfterRead
    PROVE  StockInv'
  BY DEF StockInv, CountersNeverNegative, CarriedNonNegative, CountersNonNegative

\* The object that readInventory leaves has passed the checks of its method.
LEMMA ReadInventoryStock ==
    ASSUME TypeInv, StockInv, NEW c \in Calls, ReadInventory(c), ~Refuse(c)
    PROVE  StockInv'
  <1> DEFINE stored == inventory[request[c].item]
  <1> DEFINE object == Applied(request[c].op, stored, request[c].qty)
  <1>1. /\ stored # None
        /\ Allowed(request[c].op, stored, request[c].qty)
        /\ row' = [row EXCEPT ![c] = object]
        /\ BodyContinues(c, "saveReservation")
        /\ UNCHANGED <<request, tables, found, dirty>>
    BY ReadInventoryEffect
  <1>2. pc[c] # "off"
    BY DEF ReadInventory
  <1>3. request[c] \in RequestType
    BY <1>2, RunningBody
  <1>4. stored \in InventoryItem /\ CountersNonNegative(stored)
    BY <1>1, <1>3 DEF TypeInv, TypeOK, RequestType, StockInv, CountersNeverNegative
  <1>5. CountersNonNegative(object)
    BY <1>1, <1>3, <1>4, AppliedCounters
  <1> HIDE DEF object
  <1>6. CountersNeverNegative'
    BY <1>1 DEF StockInv, CountersNeverNegative, CountersNonNegative, tables
  <1>7. \A d \in Calls \ {c} : pc'[d] = pc[d] /\ row'[d] = row[d]
    BY <1>1 DEF BodyContinues, Goto, TypeInv, TypeOK
  <1>8. row'[c] = object
    BY <1>1 DEF TypeInv, TypeOK
  <1>9. ASSUME NEW d \in Calls, pc'[d] \in AfterRead PROVE CountersNonNegative(row'[d])
    <2>1. CASE d = c
      BY <2>1, <1>5, <1>8
    <2>2. CASE d # c
      BY <2>2, <1>7, <1>9 DEF StockInv, CarriedNonNegative
    <2>. QED
      BY <2>1, <2>2
  <1>10. CarriedNonNegative'
    BY <1>9 DEF CarriedNonNegative, CountersNonNegative
  <1>. QED
    BY <1>6, <1>10 DEF StockInv

\* The UPDATE mixes columns of two items that have no negative counter.
LEMMA WriteInventoryStock ==
    ASSUME TypeInv, StockInv, NEW c \in Calls, WriteInventory(c)
    PROVE  StockInv'
  <1> DEFINE i == request[c].item
  <1> DEFINE merged == Merge(inventory[i], row[c], dirty[c])
  <1>1. /\ pc[c] = "writeInventory"
        /\ inventory' = [inventory EXCEPT ![i] = merged]
        /\ ReplyOrLost(c, "saveTransaction")
        /\ row' = row
    BY DEF WriteInventory, locals
  <1>2. BodyShape(c)
    BY DEF TypeInv, Shape
  <1>3. i \in Items
    BY <1>1, RunningBody DEF RequestType
  <1>4. row[c] \in InventoryItem /\ inventory[i] \in InventoryItem /\ inventory[i] # None
    BY <1>1, <1>2, <1>3 DEF BodyShape, AfterFind, AfterRead, TypeInv, TypeOK
  <1>5. CountersNonNegative(row[c]) /\ CountersNonNegative(inventory[i])
    BY <1>1, <1>3, <1>4
       DEF StockInv, CountersNeverNegative, CarriedNonNegative, AfterRead, AfterFind
  <1>6. CountersNonNegative(merged)
    BY <1>4, <1>5, MergeCounters
  <1> HIDE DEF merged
  <1>7. ASSUME NEW j \in Items, inventory'[j] # None PROVE CountersNonNegative(inventory'[j])
    <2>1. CASE j = i
      <3>1. inventory'[j] = merged
        BY <1>1, <1>3, <2>1 DEF TypeInv, TypeOK
      <3>. QED
        BY <1>6, <3>1
    <2>2. CASE j # i
      <3>1. inventory'[j] = inventory[j]
        BY <1>1, <1>3, <2>2 DEF TypeInv, TypeOK
      <3>. QED
        BY <1>7, <3>1 DEF StockInv, CountersNeverNegative
    <2>. QED
      BY <2>1, <2>2
  <1>8. CountersNeverNegative'
    BY <1>7 DEF CountersNeverNegative, CountersNonNegative
  <1>9. \A d \in Calls : pc'[d] \in AfterRead => pc[d] \in AfterRead
    BY <1>1 DEF ReplyOrLost, BodyContinues, BodyThrows, Goto, AfterRead, AfterFind,
                TypeInv, TypeOK
  <1>10. CarriedNonNegative'
    BY <1>1, <1>9 DEF StockInv, CarriedNonNegative, CountersNonNegative
  <1>. QED
    BY <1>8, <1>10 DEF StockInv

\* Every step keeps the stored rows and the carried objects free of negative counters.
LEMMA NextStockInv == TypeInv /\ StockInv /\ [Next]_vars => StockInv'
  <1> SUFFICES ASSUME TypeInv, StockInv, [Next]_vars PROVE StockInv'
    OBVIOUS
  <1> USE DEF AfterRead, AfterFind
  <1>1. ASSUME NEW c \in Calls, Call(c) PROVE StockInv'
    BY <1>1, StockKept DEF Call, Invoke, tables, locals
  <1>2. ASSUME NEW c \in Calls, Guard(c) PROVE StockInv'
    <2>1. UNCHANGED <<inventory, row>>
      BY <1>2 DEF Guard, tables, locals
    <2>2. \A d \in Calls : pc'[d] \in AfterRead => pc[d] \in AfterRead
      BY <1>2 DEF Guard, Enter, AcquireAndFire, AcquireAndReject, WaitTimeout, NotLocked,
                  AcquireFails, Timeout, Release, ReleaseFails, Crash, TypeInv, TypeOK
    <2>. QED
      BY <2>1, <2>2, StockKept
  <1>3. ASSUME NEW c \in Calls, RetryBody(c) \/ DbFails(c) \/ Refuse(c) PROVE StockInv'
    <2>1. UNCHANGED <<inventory, row>>
      BY <1>3 DEF RetryBody, DbFails, DbRejects, Refuse, tables, locals
    <2>2. \A d \in Calls : pc'[d] \in AfterRead => pc[d] \in AfterRead
      BY <1>3 DEF RetryBody, Retry, DbFails, DbRejects, Refuse, BodyThrows, BodyContinues,
                  Goto, TypeInv, TypeOK
    <2>. QED
      BY <2>1, <2>2, StockKept
  <1>4. ASSUME NEW c \in Calls, BodyStep(c) PROVE StockInv'
    <2>1. CASE Refuse(c)
      BY <2>1, <1>3
    <2>2. CASE ~Refuse(c) /\ (FindForReserve(c) \/ FindForSettle(c))
      <3>1. UNCHANGED <<inventory, row>> /\ BodyContinues(c, "readInventory")
        BY <2>2 DEF FindForReserve, FindForSettle, tables
      <3>. QED
        BY <3>1, StockKept DEF BodyContinues, Goto, TypeInv, TypeOK
    <2>3. CASE ~Refuse(c) /\ ReadInventory(c)
      BY <2>3, ReadInventoryStock
    <2>4. CASE WriteInventory(c)
      BY <2>4, WriteInventoryStock
    <2>5. CASE SaveReservation(c) \/ DiffInventory(c) \/ SaveTransaction(c) \/ Publish(c)
      <3>1. UNCHANGED <<inventory, row>>
        BY <2>5 DEF SaveReservation, DiffInventory, SaveTransaction, Publish, tables, locals
      <3>2. \A d \in Calls : pc'[d] \in AfterRead => pc[d] \in AfterRead
        BY <2>5 DEF SaveReservation, DiffInventory, SaveTransaction, Publish, ReplyOrLost,
                    BodyThrows, BodyContinues, BodyReturns, Goto, TypeInv, TypeOK
      <3>. QED
        BY <3>1, <3>2, StockKept
    <2>. QED
      BY <1>4, <2>1, <2>2, <2>3, <2>4, <2>5 DEF BodyStep
  <1>5. ASSUME NEW k \in Keys, Expire(k) PROVE StockInv'
    BY <1>5, StockKept DEF Expire, LeaseExpires, tables, locals
  <1>6. CASE UNCHANGED vars
    BY <1>6, StockKept DEF vars, guardVars, tables, locals
  <1>. QED
    BY <1>1, <1>2, <1>3, <1>4, <1>5, <1>6 DEF Next, Finished

\* No schedule of bodies that overtake each other, are retried, orphaned, timed out or
\* cut off by a crash brings a counter of a stored row below zero.
THEOREM StockCorrect == Spec => []CountersNeverNegative
  <1>1. Init => TypeInv /\ StockInv
    <2>1. Init => CountersNeverNegative
      BY StockAssumption DEF Init, CountersNeverNegative, NonNegative
    <2>2. Init => CarriedNonNegative
      BY DEF Init, GuardInit, CarriedNonNegative, AfterRead, AfterFind
    <2>. QED
      BY <2>1, <2>2, InitTypeInv DEF StockInv
  <1>2. TypeInv /\ StockInv /\ [Next]_vars => (TypeInv /\ StockInv)'
    BY NextTypeInv, NextStockInv
  <1>3. StockInv => CountersNeverNegative
    BY DEF StockInv
  <1>. QED
    BY <1>1, <1>2, <1>3, PTL DEF Spec

-----------------------------------------------------------------------------
(* What is recorded.  A caller's ok is worth its transaction and its        *)
(* reservation, and a settled reservation stays settled.  Both rest on      *)
(* Recorded: an attempt's uuid is unused until the attempt saves it, so a   *)
(* body that writes ACTIVE writes it into a row nobody else knows.          *)

Answered == {"releasing", "answered", "crashed"}

Settled(id) == resv[id] # None /\ resv[id].status # "ACTIVE"

\* The row of c's reservation is as the caller of c would be told.
Stored(c) ==
    /\ resv[found[c]] # None
    /\ request[c].op # "reserve" => resv[found[c]].status # "ACTIVE"

Recorded(c) ==
    /\ client[c] \in {"idle", "waiting"} => attempt[c] = 0 /\ pc[c] = "off"
    /\ \A n \in 1..MaxAttempts : n > attempt[c] => resv[<<c, n>>] = None
    /\ pc[c] \in {"start", "readInventory", "saveReservation"} =>
         resv[<<c, attempt[c]>>] = None
    /\ (pc[c] \in AfterFind /\ request[c].op = "reserve") => found[c] = <<c, attempt[c]>>
    /\ pc[c] \in AfterRead \ {"saveReservation"} => found[c] \in Ids /\ Stored(c)
    /\ pc[c] = "publish" => <<c, attempt[c]>> \in ledger
    /\ answer[c] = "ok" =>
        /\ client[c] \in Answered
        /\ pc[c] = "off"
        /\ <<c, attempt[c]>> \in ledger \cap published
        /\ found[c] \in Ids
        /\ Stored(c)

Records == \A c \in Calls : Recorded(c)

\* What a step of c leaves alone: the others' places and locals, the settled rows, and
\* every uuid that is not c's own.
RecordsKept(c) ==
    /\ \A d \in Calls \ {c} :
        /\ client'[d] = client[d]
        /\ answer'[d] = answer[d]
        /\ pc'[d] = pc[d]
        /\ attempt'[d] = attempt[d]
        /\ request'[d] = request[d]
        /\ found'[d] = found[d]
    /\ ledger \subseteq ledger'
    /\ published \subseteq published'
    /\ \A id \in Ids : resv[id] # None => resv'[id] # None
    /\ \A id \in Ids : Settled(id) => Settled(id)'
    /\ \A id \in Ids : (resv[id] = None /\ resv'[id] # None) =>
        \E n \in 1..MaxAttempts : id = <<c, n>>

\* Such a step disturbs no other call's records.
LEMMA OthersRecorded ==
    ASSUME TypeInv, Records, NEW c \in Calls, RecordsKept(c), NEW d \in Calls \ {c}
    PROVE  Recorded(d)'
  <1>1. Recorded(d)
    BY DEF Records
  <1>2. \A n \in 1..MaxAttempts : <<d, n>> \in Ids /\ \A m \in 1..MaxAttempts : <<d, n>> # <<c, m>>
    BY DEF Ids, FreshIds
  <1>3. ASSUME NEW n \in 1..MaxAttempts, resv[<<d, n>>] = None PROVE resv'[<<d, n>>] = None
    BY <1>2, <1>3 DEF RecordsKept
  <1>4. ASSUME found[d] \in Ids, Stored(d) PROVE Stored(d)'
    BY <1>4 DEF RecordsKept, Stored, Settled
  <1>5. /\ client'[d] = client[d]
        /\ answer'[d] = answer[d]
        /\ pc'[d] = pc[d]
        /\ attempt'[d] = attempt[d]
        /\ request'[d] = request[d]
        /\ found'[d] = found[d]
        /\ ledger \subseteq ledger'
        /\ published \subseteq published'
    BY DEF RecordsKept
  <1>6. pc[d] # "off" => attempt[d] \in 1..MaxAttempts
    BY RunningBody
  <1>. QED
    BY <1>1, <1>3, <1>4, <1>5, <1>6 DEF Recorded

\* A step of c that keeps its own records keeps all of them.
LEMMA RecordsStep ==
    ASSUME TypeInv, Records, NEW c \in Calls, RecordsKept(c), Recorded(c)'
    PROVE  Records' /\ \A id \in Ids : Settled(id) => Settled(id)'
  <1>1. \A d \in Calls \ {c} : Recorded(d)'
    BY OthersRecorded
  <1>. QED
    BY <1>1 DEF Records, RecordsKept

\* A body that throws has recorded nothing for its next attempt.
LEMMA ThrowRecorded ==
    ASSUME TypeInv, Records, NEW c \in Calls, pc[c] # "off", BodyThrows(c),
           request' = request, found' = found,
           \A n \in 1..MaxAttempts : n > attempt[c] => resv'[<<c, n>>] = None
    PROVE  Recorded(c)'
  <1>1. Recorded(c) /\ client[c] \notin {"idle", "waiting"} /\ answer[c] # "ok"
    BY DEF Records, Recorded
  <1>2. attempt' = attempt /\ pc'[c] \in {"off", "backoff"}
    BY BodyThrowsGuard
  <1>3. client'[c] \notin {"idle", "waiting"} /\ answer'[c] # "ok"
    BY <1>1 DEF BodyThrows, BodyContinues, Settle, TypeInv, TypeOK
  <1>. QED
    BY <1>1, <1>2, <1>3 DEF Recorded, AfterFind, AfterRead

\* A body that goes on must have at its next step what that step relies on.
LEMMA ContinueRecorded ==
    ASSUME TypeInv, Records, NEW c \in Calls, NEW step \in DbSteps \cup {"publish"},
           pc[c] # "off", BodyContinues(c, step), request' = request,
           \A n \in 1..MaxAttempts : n > attempt[c] => resv'[<<c, n>>] = None,
           step \in {"start", "readInventory", "saveReservation"} =>
               resv'[<<c, attempt[c]>>] = None,
           (step \in AfterFind /\ request[c].op = "reserve") => found'[c] = <<c, attempt[c]>>,
           step \in AfterRead \ {"saveReservation"} => found'[c] \in Ids /\ Stored(c)',
           step = "publish" => <<c, attempt[c]>> \in ledger'
    PROVE  Recorded(c)'
  <1>1. Recorded(c) /\ client[c] \notin {"idle", "waiting"} /\ answer[c] # "ok"
    BY DEF Records, Recorded
  <1>2. attempt' = attempt /\ client' = client /\ answer' = answer /\ pc'[c] = step
    BY DEF BodyContinues, Goto, TypeInv, TypeOK
  <1>. QED
    BY <1>1, <1>2 DEF Recorded

\* A step that only moves the outer half, or cuts the body off, keeps the records.
LEMMA GuardRecords ==
    ASSUME TypeInv, Records, NEW c \in Calls, Guard(c) \/ Call(c)
    PROVE  Records' /\ \A id \in Ids : Settled(id) => Settled(id)'
  <1>1. UNCHANGED <<tables, locals>>
    BY DEF Guard, Call
  <1>2. RecordsKept(c)
    <2>1. \A d \in Calls \ {c} :
            /\ client'[d] = client[d]
            /\ answer'[d] = answer[d]
            /\ pc'[d] = pc[d]
            /\ attempt'[d] = attempt[d]
            /\ request'[d] = request[d]
      BY DEF TypeInv, TypeOK, Guard, Enter, AcquireAndFire, AcquireAndReject, NotLocked,
             WaitTimeout, AcquireFails, Timeout, Release, ReleaseFails, Crash, Call, Invoke
    <2>. QED
      BY <1>1, <2>1 DEF RecordsKept, Settled, tables, locals
  <1>3. Recorded(c)
    BY DEF Records
  <1>4. Recorded(c)'
    <2>1. CASE Call(c)
      <3>1. /\ client[c] = "idle"
            /\ client'[c] = "waiting"
            /\ UNCHANGED <<answer, pc, attempt, found, resv>>
        BY <2>1, <1>1 DEF Call, Invoke, TypeInv, TypeOK, tables, locals
      <3>2. pc[c] = "off" /\ answer[c] # "ok"
        BY <1>3, <3>1 DEF Recorded, Answered
      <3>. QED
        BY <1>3, <3>1, <3>2 DEF Recorded, AfterFind, AfterRead
    <2>2. CASE Guard(c)
      <3>1. request' = request
        BY <2>2 DEF Guard
      <3>2. CASE AcquireAndFire(c, Key(c))
        <4>1. /\ client[c] = "waiting"
              /\ client'[c] = "fired"
              /\ pc'[c] = "start"
              /\ attempt'[c] = 1
              /\ answer' = answer
          BY <3>2 DEF AcquireAndFire, TypeInv, TypeOK
        <4>2. attempt[c] = 0 /\ answer[c] # "ok"
          BY <1>3, <4>1 DEF Recorded, Answered
        <4>3. \A n \in 1..MaxAttempts : resv'[<<c, n>>] = None
          BY <1>1, <1>3, <4>2 DEF Recorded, tables
        <4>4. 1 \in 1..MaxAttempts
          BY AttemptsAssumption
        <4>. QED
          BY <4>1, <4>2, <4>3, <4>4 DEF Recorded, AfterFind, AfterRead
      <3>3. CASE Crash(c)
        <4>1. /\ client'[c] = "crashed"
              /\ pc'[c] = "off"
              /\ UNCHANGED <<answer, attempt>>
          BY <3>3 DEF Crash, TypeInv, TypeOK
        <4>. QED
          BY <1>1, <1>3, <3>1, <4>1
             DEF Recorded, AfterFind, AfterRead, Answered, Stored, tables, locals
      <3>4. CASE (Enter(c) /\ ~AcquireAndFire(c, Key(c))) \/ AcquireFails(c, Key(c))
        <4>1. /\ client[c] = "waiting"
              /\ client'[c] \in Answered
              /\ answer'[c] # "ok"
              /\ UNCHANGED <<pc, attempt>>
          BY <3>4 DEF Enter, AcquireAndReject, WaitTimeout, AcquireFails, NotLocked, TypeInv,
                      TypeOK, Answered
        <4>. QED
          BY <1>1, <1>3, <4>1 DEF Recorded, AfterFind, AfterRead, Answered, tables
      <3>5. CASE Timeout(c) \/ Release(c, Key(c)) \/ ReleaseFails(c)
        <4>1. /\ client'[c] \in Answered
              /\ answer'[c] = "ok" => answer[c] = "ok"
              /\ UNCHANGED <<pc, attempt>>
          BY <3>5 DEF Timeout, Release, ReleaseFails, TypeInv, TypeOK, Answered
        <4>. QED
          BY <1>1, <1>3, <3>1, <4>1 DEF Recorded, Answered, Stored, tables, locals
      <3>. QED
        BY <2>2, <3>2, <3>3, <3>4, <3>5 DEF Guard, Enter
    <2>. QED
      BY <2>1, <2>2
  <1>. QED
    BY <1>2, <1>4, RecordsStep

\* The other calls' guard variables and locals are theirs in every step of c's body.
LEMMA BodyStepOthers ==
    ASSUME TypeInv, NEW c \in Calls, BodyStep(c) \/ DbFails(c) \/ RetryBody(c)
    PROVE  \A d \in Calls \ {c} :
             /\ client'[d] = client[d]
             /\ answer'[d] = answer[d]
             /\ pc'[d] = pc[d]
             /\ attempt'[d] = attempt[d]
             /\ request'[d] = request[d]
             /\ found'[d] = found[d]
  <1>1. \/ RetryBody(c)
        \/ BodyThrows(c)
        \/ BodyReturns(c)
        \/ \E step \in DbSteps \cup {"publish"} : BodyContinues(c, step)
    BY DEF BodyStep, DbFails, DbRejects, FindForReserve, FindForSettle, ReadInventory,
           SaveReservation, DiffInventory, WriteInventory, SaveTransaction, Publish, Refuse,
           ReplyOrLost, DbSteps
  <1>2. \A d \in Calls \ {c} :
          /\ client'[d] = client[d]
          /\ answer'[d] = answer[d]
          /\ pc'[d] = pc[d]
          /\ attempt'[d] = attempt[d]
    BY <1>1 DEF RetryBody, Retry, BodyThrows, BodyReturns, BodyContinues, Goto, Settle,
                TypeInv, TypeOK
  <1>3. request' = request /\ \A d \in Calls \ {c} : found'[d] = found[d]
    BY DEF BodyStep, DbFails, DbRejects, FindForReserve, FindForSettle, ReadInventory,
           SaveReservation, DiffInventory, WriteInventory, SaveTransaction, Publish, Refuse,
           RetryBody, locals, TypeInv, TypeOK
  <1>. QED
    BY <1>2, <1>3

\* The steps of c's body leave the others' places, locals and requests alone.
LEMMA OthersUntouched ==
    ASSUME TypeInv, NEW c \in Calls, BodyStep(c)
    PROVE  /\ request' = request
           /\ \A d \in Calls \ {c} :
                /\ pc'[d] = pc[d]
                /\ found'[d] = found[d]
                /\ row'[d] = row[d]
                /\ dirty'[d] = dirty[d]
  <1>1. request' = request
    BY DEF BodyStep, FindForReserve, FindForSettle, ReadInventory,
           SaveReservation, DiffInventory, WriteInventory, SaveTransaction, Publish, Refuse
  <1>2. \A d \in Calls \ {c} : row'[d] = row[d] /\ dirty'[d] = dirty[d]
    BY DEF BodyStep, FindForReserve, FindForSettle, ReadInventory,
           SaveReservation, DiffInventory, WriteInventory, SaveTransaction, Publish, Refuse,
           locals, TypeInv, TypeOK
  <1>. QED
    BY <1>1, <1>2, BodyStepOthers

\* The steps that write no reservation, and forget no transaction and no event.
LEMMA TablesKept ==
    ASSUME TypeInv, NEW c \in Calls, BodyStep(c) \/ DbFails(c) \/ RetryBody(c),
           resv' = resv, ledger \subseteq ledger', published \subseteq published'
    PROVE  RecordsKept(c)
  BY BodyStepOthers DEF RecordsKept, Settled

\* An attempt that is refused, by the domain or by the database.
LEMMA RefuseRecords ==
    ASSUME TypeInv, Records, NEW c \in Calls, pc[c] # "off", Refuse(c),
           BodyStep(c) \/ DbFails(c)
    PROVE  Records' /\ \A id \in Ids : Settled(id) => Settled(id)'
  <1>1. BodyThrows(c) /\ UNCHANGED <<request, tables, locals>>
    BY DEF Refuse
  <1>2. RecordsKept(c)
    BY <1>1, TablesKept DEF tables
  <1>3. \A n \in 1..MaxAttempts : n > attempt[c] => resv'[<<c, n>>] = None
    BY <1>1 DEF Records, Recorded, tables
  <1>4. Recorded(c)'
    BY <1>1, <1>3, ThrowRecorded DEF locals
  <1>. QED
    BY <1>2, <1>4, RecordsStep

\* The next attempt has a uuid nobody has seen.
LEMMA RetryRecords ==
    ASSUME TypeInv, Records, NEW c \in Calls, RetryBody(c)
    PROVE  Records' /\ \A id \in Ids : Settled(id) => Settled(id)'
  <1>1. /\ pc[c] = "backoff"
        /\ pc'[c] = "start"
        /\ attempt'[c] = attempt[c] + 1
        /\ UNCHANGED <<client, answer, request, tables, locals>>
    BY DEF RetryBody, Retry, Goto, TypeInv, TypeOK
  <1>2. RecordsKept(c)
    BY <1>1, TablesKept DEF tables
  <1>3. Recorded(c) /\ BodyShape(c)
    BY DEF Records, TypeInv, Shape
  <1>4. attempt[c] \in Nat /\ attempt[c] + 1 \in 1..MaxAttempts
    BY <1>1, <1>3, AttemptsAssumption DEF BodyShape, TypeInv, TypeOK
  <1>5. /\ \A n \in 1..MaxAttempts : n > attempt'[c] => resv'[<<c, n>>] = None
        /\ resv'[<<c, attempt'[c]>>] = None
    BY <1>1, <1>3, <1>4, AttemptsAssumption DEF Recorded, tables
  <1>6. client'[c] \notin {"idle", "waiting"} /\ answer'[c] # "ok"
    BY <1>1, <1>3 DEF Recorded
  <1>7. Recorded(c)'
    BY <1>1, <1>5, <1>6 DEF Recorded, AfterFind, AfterRead
  <1>. QED
    BY <1>2, <1>7, RecordsStep

\* What a reserving body takes as its reservation is its own unused uuid.
LEMMA FindRecords ==
    ASSUME TypeInv, Records, NEW c \in Calls, FindForReserve(c) \/ FindForSettle(c)
    PROVE  Records' /\ \A id \in Ids : Settled(id) => Settled(id)'
  <1>1. pc[c] = "start" /\ BodyStep(c)
    BY DEF FindForReserve, FindForSettle, BodyStep
  <1>2. CASE Refuse(c)
    BY <1>1, <1>2, RefuseRecords
  <1>3. CASE ~Refuse(c)
    <2>1. /\ BodyContinues(c, "readInventory")
          /\ UNCHANGED <<request, tables>>
      BY <1>3 DEF FindForReserve, FindForSettle
    <2>2. request[c].op = "reserve" => found'[c] = <<c, attempt[c]>>
      <3>1. CASE FindForReserve(c)
        BY <1>3, <3>1 DEF FindForReserve, TypeInv, TypeOK
      <3>2. CASE FindForSettle(c)
        BY <3>2 DEF FindForSettle
      <3>. QED
        BY <3>1, <3>2
    <2>3. RecordsKept(c)
      BY <1>1, <2>1, TablesKept DEF tables
    <2>4. /\ \A n \in 1..MaxAttempts : n > attempt[c] => resv'[<<c, n>>] = None
          /\ resv'[<<c, attempt[c]>>] = None
      BY <1>1, <2>1 DEF Records, Recorded, tables
    <2>5. "readInventory" \in DbSteps \cup {"publish"} /\ "readInventory" \notin AfterRead
      BY DEF DbSteps, AfterRead
    <2>6. Recorded(c)'
      BY <1>1, <2>1, <2>2, <2>4, <2>5, ContinueRecorded
    <2>. QED
      BY <2>3, <2>6, RecordsStep
  <1>. QED
    BY <1>2, <1>3

\* Reading the row changes nothing that is recorded.
LEMMA ReadInventoryRecords ==
    ASSUME TypeInv, Records, NEW c \in Calls, ReadInventory(c)
    PROVE  Records' /\ \A id \in Ids : Settled(id) => Settled(id)'
  <1>1. pc[c] = "readInventory" /\ BodyStep(c)
    BY DEF ReadInventory, BodyStep
  <1>2. CASE Refuse(c)
    BY <1>1, <1>2, RefuseRecords
  <1>3. CASE BodyContinues(c, "saveReservation") /\ UNCHANGED <<request, tables, found>>
    <2>1. RecordsKept(c)
      BY <1>1, <1>3, TablesKept DEF tables
    <2>2. /\ \A n \in 1..MaxAttempts : n > attempt[c] => resv'[<<c, n>>] = None
          /\ resv'[<<c, attempt[c]>>] = None
          /\ request[c].op = "reserve" => found'[c] = <<c, attempt[c]>>
      BY <1>1, <1>3 DEF Records, Recorded, AfterFind, tables
    <2>3. "saveReservation" \in DbSteps \cup {"publish"}
      BY DEF DbSteps
    <2>4. Recorded(c)'
      BY <1>1, <1>3, <2>2, <2>3, ContinueRecorded
    <2>. QED
      BY <2>1, <2>4, RecordsStep
  <1>. QED
    BY <1>2, <1>3, ReadInventoryEffect

\* The first save fills the body's own uuid, or settles the row that was found.
LEMMA SavedRow ==
    ASSUME TypeInv, Records, NEW c \in Calls, pc[c] = "saveReservation",
           resv' = [resv EXCEPT ![found[c]] = SavedReservation(c)],
           request' = request, found' = found
    PROVE  /\ Stored(c)'
           /\ \A id \in Ids \ {found[c]} : resv'[id] = resv[id]
           /\ resv'[found[c]] # None
           /\ Settled(found[c]) => resv'[found[c]].status # "ACTIVE"
           /\ resv[found[c]] = None => found[c] = <<c, attempt[c]>>
  <1>1. Recorded(c) /\ BodyShape(c)
    BY DEF Records, TypeInv, Shape
  <1>2. found[c] \in Ids /\ SavedReservation(c) \in Reservation
    BY SavedReservationType
  <1>3. /\ resv'[found[c]] = SavedReservation(c)
        /\ \A id \in Ids \ {found[c]} : resv'[id] = resv[id]
    BY <1>2 DEF TypeInv, TypeOK
  <1>4. SavedReservation(c) # None
    BY <1>2, NullAssumption
  <1>5. request[c].op \in {"reserve", "release", "confirm"}
    BY RunningBody DEF RequestType, Ops
  <1>6. CASE request[c].op = "reserve"
    <2>1. found[c] = <<c, attempt[c]>> /\ resv[found[c]] = None
      BY <1>1, <1>6 DEF Recorded, AfterFind
    <2>. QED
      BY <1>3, <1>4, <1>6, <2>1 DEF Stored, Settled
  <1>7. CASE request[c].op \in {"release", "confirm"}
    <2>1. resv[found[c]] \in Reservation /\ resv[found[c]] # None
      BY <1>1, <1>2, <1>7 DEF BodyShape, AfterFind, TypeInv, TypeOK
    <2>2. SavedReservation(c).status # "ACTIVE"
      BY <1>7, <2>1 DEF SavedReservation, Reservation
    <2>. QED
      BY <1>3, <1>4, <2>1, <2>2 DEF Stored
  <1>. QED
    BY <1>5, <1>6, <1>7

\* The first save records what the caller is told later, and revives nothing.
LEMMA SaveReservationRecords ==
    ASSUME TypeInv, Records, NEW c \in Calls, SaveReservation(c)
    PROVE  Records' /\ \A id \in Ids : Settled(id) => Settled(id)'
  <1>1. /\ pc[c] = "saveReservation"
        /\ resv' = [resv EXCEPT ![found[c]] = SavedReservation(c)]
        /\ ReplyOrLost(c, "diffInventory")
        /\ UNCHANGED <<request, inventory, ledger, published, locals>>
    BY DEF SaveReservation
  <1>2. found' = found
    BY <1>1 DEF locals
  <1>3. /\ Stored(c)'
        /\ \A id \in Ids \ {found[c]} : resv'[id] = resv[id]
        /\ resv'[found[c]] # None
        /\ Settled(found[c]) => resv'[found[c]].status # "ACTIVE"
        /\ resv[found[c]] = None => found[c] = <<c, attempt[c]>>
    BY <1>1, <1>2, SavedRow
  <1>4. attempt[c] \in 1..MaxAttempts /\ found[c] \in Ids
    BY <1>1, RunningBody, SavedReservationType
  <1>5. RecordsKept(c)
    <2>1. BodyStep(c)
      BY DEF BodyStep
    <2>2. \A id \in Ids : Settled(id) => Settled(id)'
      BY <1>3 DEF Settled
    <2>3. \A id \in Ids : resv[id] # None => resv'[id] # None
      BY <1>3
    <2>4. \A id \in Ids : (resv[id] = None /\ resv'[id] # None) =>
            \E n \in 1..MaxAttempts : id = <<c, n>>
      BY <1>3, <1>4
    <2>5. ledger' = ledger /\ published' = published
      BY <1>1
    <2>6. \A d \in Calls \ {c} :
            /\ client'[d] = client[d]
            /\ answer'[d] = answer[d]
            /\ pc'[d] = pc[d]
            /\ attempt'[d] = attempt[d]
            /\ request'[d] = request[d]
            /\ found'[d] = found[d]
      BY <2>1, BodyStepOthers
    <2>. QED
      BY <2>2, <2>3, <2>4, <2>5, <2>6 DEF RecordsKept
  <1>6. Recorded(c) /\ BodyShape(c)
    BY DEF Records, TypeInv, Shape
  <1>7. ASSUME NEW n \in 1..MaxAttempts, n > attempt[c] PROVE resv'[<<c, n>>] = None
    <2>1. <<c, n>> \in Ids /\ resv[<<c, n>>] = None
      BY <1>6, <1>7 DEF Recorded, Ids, FreshIds
    <2>2. <<c, n>> # <<c, attempt[c]>>
      BY <1>4, <1>7
    <2>. QED
      BY <1>3, <2>1, <2>2
  <1>8. Recorded(c)'
    <2>1. CASE BodyThrows(c)
      BY <1>1, <1>2, <1>7, <2>1, ThrowRecorded
    <2>2. CASE BodyContinues(c, "diffInventory")
      <3>1. "diffInventory" \in DbSteps \cup {"publish"}
        BY DEF DbSteps
      <3>2. request[c].op = "reserve" => found'[c] = <<c, attempt[c]>>
        BY <1>1, <1>2, <1>6 DEF Recorded, AfterFind
      <3>. QED
        BY <1>1, <1>2, <1>3, <1>4, <1>7, <2>2, <3>1, <3>2, ContinueRecorded
    <2>. QED
      BY <1>1, <2>1, <2>2 DEF ReplyOrLost
  <1>. QED
    BY <1>5, <1>8, RecordsStep

\* The saves after the first touch no reservation.
LEMMA LaterSaveRecords ==
    ASSUME TypeInv, Records, NEW c \in Calls,
           DiffInventory(c) \/ WriteInventory(c) \/ SaveTransaction(c)
    PROVE  Records' /\ \A id \in Ids : Settled(id) => Settled(id)'
  <1>1. /\ pc[c] \in {"diffInventory", "writeInventory", "saveTransaction"}
        /\ BodyStep(c)
        /\ UNCHANGED <<request, resv, published, found>>
        /\ ledger \subseteq ledger'
    BY DEF DiffInventory, WriteInventory, SaveTransaction, BodyStep, tables, locals
  <1>2. PICK step \in {"writeInventory", "saveTransaction", "publish"} :
          /\ BodyContinues(c, step) \/ BodyThrows(c)
          /\ step = "publish" => <<c, attempt[c]>> \in ledger'
    BY DEF DiffInventory, WriteInventory, SaveTransaction, ReplyOrLost
  <1>3. RecordsKept(c)
    BY <1>1, TablesKept
  <1>4. Recorded(c) /\ found[c] \in Ids /\ Stored(c)
    BY <1>1 DEF Records, Recorded, AfterRead, AfterFind
  <1>5. \A n \in 1..MaxAttempts : n > attempt[c] => resv'[<<c, n>>] = None
    BY <1>1, <1>4 DEF Recorded
  <1>6. Recorded(c)'
    <2>1. CASE BodyThrows(c)
      BY <1>1, <1>5, <2>1, ThrowRecorded
    <2>2. CASE BodyContinues(c, step)
      <3>1. step \in DbSteps \cup {"publish"}
        BY DEF DbSteps
      <3>2. request[c].op = "reserve" => found'[c] = <<c, attempt[c]>>
        BY <1>1, <1>4 DEF Recorded, AfterFind
      <3>3. found'[c] \in Ids /\ Stored(c)'
        BY <1>1, <1>4 DEF Stored
      <3>. QED
        BY <1>1, <1>2, <1>5, <2>2, <3>1, <3>2, <3>3, ContinueRecorded
    <2>. QED
      BY <1>2, <2>1, <2>2
  <1>. QED
    BY <1>3, <1>6, RecordsStep

\* Whoever is told ok has the transaction, the events and the reservation.
LEMMA PublishRecords ==
    ASSUME TypeInv, Records, NEW c \in Calls, Publish(c)
    PROVE  Records' /\ \A id \in Ids : Settled(id) => Settled(id)'
  <1>1. /\ pc[c] = "publish"
        /\ published' = published \cup {<<c, attempt[c]>>}
        /\ BodyReturns(c)
        /\ UNCHANGED <<request, inventory, resv, ledger, locals>>
    BY DEF Publish
  <1>2. RecordsKept(c)
    <2>1. BodyStep(c)
      BY DEF BodyStep
    <2>. QED
      BY <1>1, <2>1, TablesKept
  <1>3. Recorded(c) /\ found[c] \in Ids /\ Stored(c) /\ <<c, attempt[c]>> \in ledger
    BY <1>1 DEF Records, Recorded, AfterRead, AfterFind
  <1>4. /\ client[c] \notin {"idle", "waiting"}
        /\ answer[c] # "ok"
    BY <1>1, <1>3 DEF Recorded
  <1>5. /\ pc'[c] = "off"
        /\ attempt' = attempt
        /\ client'[c] \notin {"idle", "waiting"}
        /\ answer'[c] = "ok" => client'[c] \in Answered
    BY <1>1, <1>4 DEF BodyReturns, Goto, Settle, Answered, TypeInv, TypeOK
  <1>6. Recorded(c)'
    BY <1>1, <1>3, <1>5 DEF Recorded, Stored, AfterFind, AfterRead, locals
  <1>. QED
    BY <1>2, <1>6, RecordsStep

\* Every step keeps the records, and no step revives a settled reservation.
LEMMA NextRecords ==
    TypeInv /\ Records /\ [Next]_vars =>
        Records' /\ \A id \in Ids : Settled(id) => Settled(id)'
  <1> SUFFICES ASSUME TypeInv, Records, [Next]_vars
               PROVE  Records' /\ \A id \in Ids : Settled(id) => Settled(id)'
    OBVIOUS
  <1>1. ASSUME NEW c \in Calls, Call(c) \/ Guard(c)
        PROVE Records' /\ \A id \in Ids : Settled(id) => Settled(id)'
    BY <1>1, GuardRecords
  <1>2. ASSUME NEW c \in Calls, RetryBody(c)
        PROVE Records' /\ \A id \in Ids : Settled(id) => Settled(id)'
    BY <1>2, RetryRecords
  <1>3. ASSUME NEW c \in Calls, BodyStep(c)
        PROVE Records' /\ \A id \in Ids : Settled(id) => Settled(id)'
    BY <1>3, FindRecords, ReadInventoryRecords, SaveReservationRecords, LaterSaveRecords,
       PublishRecords DEF BodyStep
  <1>4. ASSUME NEW c \in Calls, DbFails(c)
        PROVE Records' /\ \A id \in Ids : Settled(id) => Settled(id)'
    <2>1. pc[c] # "off" /\ Refuse(c)
      BY <1>4 DEF DbFails, DbRejects, DbSteps, Refuse
    <2>. QED
      BY <1>4, <2>1, RefuseRecords
  <1>5. ASSUME UNCHANGED <<client, answer, pc, attempt, request, tables, locals>>
        PROVE Records' /\ \A id \in Ids : Settled(id) => Settled(id)'
    BY <1>5 DEF Records, Recorded, Stored, Settled, tables, locals
  <1>6. ASSUME NEW k \in Keys, Expire(k)
        PROVE Records' /\ \A id \in Ids : Settled(id) => Settled(id)'
    BY <1>5, <1>6 DEF Expire, LeaseExpires
  <1>7. CASE UNCHANGED vars
    BY <1>5, <1>7 DEF vars, guardVars
  <1>. QED
    BY <1>1, <1>2, <1>3, <1>4, <1>6, <1>7 DEF Next, Finished

LEMMA InitRecords == Init => Records
  <1> SUFFICES ASSUME Init, NEW c \in Calls PROVE Recorded(c)
    BY DEF Records
  <1>1. client[c] = "idle" /\ answer[c] = "none" /\ pc[c] = "off" /\ attempt[c] = 0
    BY DEF Init, GuardInit
  <1>2. \A n \in 1..MaxAttempts : <<c, n>> \in Ids /\ <<c, n>> \notin DOMAIN Prior
    BY PriorAssumption DEF Ids, FreshIds
  <1>3. \A n \in 1..MaxAttempts : resv[<<c, n>>] = None
    BY <1>2 DEF Init
  <1>. QED
    BY <1>1, <1>3 DEF Recorded, AfterFind, AfterRead

\* Records hold in every state of every run.
LEMMA RecordsHold == Spec => [](TypeInv /\ Records)
  <1>1. Init => TypeInv /\ Records
    BY InitTypeInv, InitRecords
  <1>2. TypeInv /\ Records /\ [Next]_vars => (TypeInv /\ Records)'
    BY NextTypeInv, NextRecords
  <1>. QED
    BY <1>1, <1>2, PTL DEF Spec

\* A caller that was told ok finds its transaction, its events and its reservation, or
\* its reservation no longer active, for ever after: no orphaned body, retry, failure of
\* the database or crash takes it back.
THEOREM DurableCorrect == Spec => []AcknowledgedIsDurable
  <1>1. TypeInv /\ Records => AcknowledgedIsDurable
    BY DEF Records, Recorded, Stored, AcknowledgedIsDurable
  <1>. QED
    BY <1>1, RecordsHold, PTL

\* No late, retried or orphaned body makes a committed or cancelled reservation active.
THEOREM SettledCorrect == Spec => SettledStaysSettled
  <1>1. TypeInv /\ Records /\ [Next]_vars =>
          [\A id \in Ids :
             (resv[id] # None /\ resv[id].status # "ACTIVE") =>
                 (resv'[id] # None /\ resv'[id].status # "ACTIVE")]_vars
    BY NextRecords DEF Settled
  <1>. QED
    BY <1>1, RecordsHold, PTL DEF Spec, SettledStaysSettled

-----------------------------------------------------------------------------
(* Refusals.  Where the database refuses nothing and every reply arrives,   *)
(* a body throws only before its first save, so what is thrown at a caller  *)
(* comes from attempts that saved nothing.                                  *)

NoTrace(c) ==
    \A n \in 1..MaxAttempts : resv[<<c, n>>] = None /\ <<c, n>> \notin ledger

Traceless(c) ==
    /\ (\/ client[c] \in {"idle", "waiting"}
        \/ pc[c] \in {"start", "readInventory", "saveReservation", "backoff"}) => NoTrace(c)
    /\ answer[c] = "error" => client[c] \in Answered /\ pc[c] = "off" /\ NoTrace(c)

TraceInv == \A c \in Calls : Traceless(c)

DbAnswers == {"dbRejects", "replyLost"} \cap Faults = {}

\* A step of c leaves the traces of the others as they are.
LEMMA OthersTraceless ==
    ASSUME TypeInv, Records, TraceInv, NEW c \in Calls,
           Call(c) \/ Guard(c) \/ RetryBody(c) \/ BodyStep(c), NEW d \in Calls \ {c}
    PROVE  Traceless(d)'
  <1>1. client'[d] = client[d] /\ answer'[d] = answer[d] /\ pc'[d] = pc[d]
    <2>1. CASE Call(c) \/ Guard(c)
      BY <2>1 DEF TypeInv, TypeOK, Guard, Enter, AcquireAndFire, AcquireAndReject, NotLocked,
             WaitTimeout, AcquireFails, Timeout, Release, ReleaseFails, Crash, Call, Invoke
    <2>. QED
      BY <2>1, BodyStepOthers
  <1>2. ASSUME NEW n \in 1..MaxAttempts, <<d, n>> \notin ledger PROVE <<d, n>> \notin ledger'
    BY <1>2 DEF Call, Guard, RetryBody, BodyStep, FindForReserve, FindForSettle, ReadInventory,
           SaveReservation, DiffInventory, WriteInventory, SaveTransaction, Publish, Refuse,
           tables
  <1>3. ASSUME NEW n \in 1..MaxAttempts, resv[<<d, n>>] = None PROVE resv'[<<d, n>>] = None
    <2>1. CASE SaveReservation(c)
      <3>1. /\ pc[c] = "saveReservation"
            /\ resv' = [resv EXCEPT ![found[c]] = SavedReservation(c)]
            /\ request' = request
            /\ found' = found
        BY <2>1 DEF SaveReservation, locals
      <3>2. /\ \A id \in Ids \ {found[c]} : resv'[id] = resv[id]
            /\ resv[found[c]] = None => found[c] = <<c, attempt[c]>>
        BY <3>1, SavedRow
      <3>3. <<d, n>> \in Ids /\ <<d, n>> # <<c, attempt[c]>>
        BY DEF Ids, FreshIds
      <3>. QED
        BY <1>3, <3>2, <3>3
    <2>2. CASE ~SaveReservation(c)
      <3>1. resv' = resv
        BY <2>2 DEF Call, Guard, RetryBody, BodyStep, FindForReserve, FindForSettle,
               ReadInventory, DiffInventory, WriteInventory, SaveTransaction, Publish,
               Refuse, tables
      <3>. QED
        BY <1>3, <3>1
    <2>. QED
      BY <2>1, <2>2
  <1>4. NoTrace(d) => NoTrace(d)'
    BY <1>2, <1>3 DEF NoTrace
  <1>. QED
    BY <1>1, <1>4 DEF TraceInv, Traceless

\* c's own step: what throws has saved nothing, and what has saved goes on to the end.
LEMMA OwnTraceless ==
    ASSUME DbAnswers, TypeInv, Records, TraceInv, NEW c \in Calls,
           Call(c) \/ Guard(c) \/ RetryBody(c) \/ BodyStep(c)
    PROVE  Traceless(c)'
  <1>0. Traceless(c) /\ "replyLost" \notin Faults
    BY DEF TraceInv, DbAnswers
  <1>1. CASE Call(c) \/ Guard(c)
    <2>1. UNCHANGED <<tables, locals>>
      BY <1>1 DEF Call, Guard
    <2>2. NoTrace(c)' <=> NoTrace(c)
      BY <2>1 DEF NoTrace, tables
    <2>3. /\ \/ client[c] \in {"idle", "waiting"} /\ answer'[c] # "error"
             \/ /\ client'[c] \in Answered
                /\ pc'[c] \in {pc[c], "off"}
                /\ answer'[c] = "error" => answer[c] = "error"
          /\ client[c] \in {"idle", "waiting"} => NoTrace(c)
      BY <1>0, <1>1 DEF TypeInv, TypeOK, Guard, Enter, AcquireAndFire, AcquireAndReject,
             NotLocked, WaitTimeout, AcquireFails, Timeout, Release, ReleaseFails, Crash, Call,
             Invoke, Answered, Traceless
    <2>4. CASE client[c] \in {"idle", "waiting"} /\ answer'[c] # "error"
      BY <2>2, <2>3, <2>4 DEF Traceless
    <2>5. CASE /\ client'[c] \in Answered
               /\ pc'[c] \in {pc[c], "off"}
               /\ answer'[c] = "error" => answer[c] = "error"
      BY <1>0, <2>2, <2>5 DEF Traceless, Answered
    <2>. QED
      BY <2>3, <2>4, <2>5
  <1>2. CASE RetryBody(c)
    <2>1. /\ pc[c] = "backoff"
          /\ pc'[c] = "start"
          /\ UNCHANGED <<client, answer, tables>>
      BY <1>2 DEF RetryBody, Retry, Goto, TypeInv, TypeOK
    <2>. QED
      BY <1>0, <2>1 DEF Traceless, NoTrace, tables
  <1>3. CASE BodyStep(c)
    <2>0. pc[c] # "off" /\ answer[c] # "error" /\ client[c] \notin {"idle", "waiting"}
      <3>1. pc[c] # "off"
        BY <1>3 DEF BodyStep, FindForReserve, FindForSettle, ReadInventory, SaveReservation,
                    DiffInventory, WriteInventory, SaveTransaction, Publish
      <3>. QED
        BY <1>0, <3>1 DEF Traceless, Records, Recorded
    <2>1. CASE Refuse(c) /\ pc[c] \in {"start", "readInventory"}
      <3>1. NoTrace(c)'
        BY <1>0, <2>1 DEF Refuse, Traceless, NoTrace, tables
      <3>2. pc'[c] # "off" => answer'[c] # "error"
        BY <2>0, <2>1 DEF Refuse, BodyThrows, BodyContinues, Settle, Goto, TypeInv, TypeOK
      <3>3. answer'[c] = "error" => client'[c] \in Answered
        BY <2>0, <2>1 DEF Refuse, BodyThrows, BodyContinues, Settle, Answered, TypeInv, TypeOK
      <3>. QED
        BY <3>1, <3>2, <3>3 DEF Traceless
    <2>2. CASE /\ FindForReserve(c) \/ FindForSettle(c) \/ ReadInventory(c)
               /\ ~Refuse(c)
      <3>1. /\ UNCHANGED <<client, answer, tables>>
            /\ pc[c] \in {"start", "readInventory"}
        BY <2>2 DEF FindForReserve, FindForSettle, ReadInventory, BodyContinues
      <3>. QED
        BY <1>0, <2>0, <3>1 DEF Traceless, NoTrace, tables
    <2>3. CASE SaveReservation(c) \/ DiffInventory(c) \/ WriteInventory(c) \/ SaveTransaction(c)
               \/ Publish(c)
      <3>1. /\ pc'[c] \in {"diffInventory", "writeInventory", "saveTransaction", "publish", "off"}
            /\ answer'[c] # "error"
            /\ client'[c] \notin {"idle", "waiting"}
        BY <1>0, <2>0, <2>3
           DEF SaveReservation, DiffInventory, WriteInventory, SaveTransaction, Publish,
               ReplyOrLost, BodyContinues, BodyReturns, Settle, Goto, TypeInv, TypeOK
      <3>. QED
        BY <2>0, <3>1 DEF Traceless
    <2>. QED
      BY <1>3, <2>1, <2>2, <2>3 DEF BodyStep, FindForReserve, FindForSettle, ReadInventory
  <1>. QED
    BY <1>1, <1>2, <1>3

LEMMA NextTraceInv ==
    ASSUME DbAnswers, TypeInv, Records, TraceInv, [Next]_vars
    PROVE  TraceInv'
  <1>1. ASSUME NEW c \in Calls, Call(c) \/ Guard(c) \/ RetryBody(c) \/ BodyStep(c)
        PROVE TraceInv'
    BY <1>1, OthersTraceless, OwnTraceless DEF TraceInv
  <1>2. ASSUME NEW c \in Calls PROVE ~DbFails(c)
    BY DEF DbAnswers, DbFails, DbRejects
  <1>3. ASSUME UNCHANGED <<client, answer, pc, tables>> PROVE TraceInv'
    BY <1>3 DEF TraceInv, Traceless, NoTrace, tables
  <1>4. ASSUME NEW k \in Keys, Expire(k) PROVE TraceInv'
    BY <1>3, <1>4 DEF Expire, LeaseExpires
  <1>5. CASE UNCHANGED vars
    BY <1>3, <1>5 DEF vars, guardVars
  <1>. QED
    BY <1>1, <1>2, <1>4, <1>5 DEF Next, Finished

\* A body past its save of the reservation id, which it settled, and which is not thrown
\* at its caller any more.
Settler(c, id) ==
    /\ found[c] = id
    /\ request[c].op # "reserve"
    /\ answer[c] # "error"
    /\ client[c] \notin {"idle", "waiting"}
    /\ pc[c] \in {"diffInventory", "writeInventory", "saveTransaction", "publish", "off"}

\* Every reservation settled since the start has its settler.
SettlersKnown == \A id \in Ids : SettledSince(id) => \E c \in Calls : Settler(c, id)

\* A settler's own steps end the body or bring it nearer to its end; none of them throws.
LEMMA SettlerGoesOn ==
    ASSUME DbAnswers, TypeInv, NEW c \in Calls, NEW id \in Ids, Settler(c, id),
           Call(c) \/ Guard(c) \/ RetryBody(c) \/ BodyStep(c)
    PROVE  Settler(c, id)'
  <1>0. "replyLost" \notin Faults
    BY DEF DbAnswers
  <1>1. CASE Call(c) \/ RetryBody(c)
    BY <1>1 DEF Call, Invoke, RetryBody, Retry, Settler
  <1>2. CASE Guard(c)
    <2>1. request' = request /\ found' = found
      BY <1>2 DEF Guard, locals
    <2>2. /\ client'[c] \notin {"idle", "waiting"}
          /\ answer'[c] # "error"
          /\ pc'[c] \in {pc[c], "off"}
      BY <1>2 DEF TypeInv, TypeOK, Guard, Enter, AcquireAndFire, AcquireAndReject, NotLocked,
             WaitTimeout, AcquireFails, Timeout, Release, ReleaseFails, Crash, Settler
    <2>. QED
      BY <2>1, <2>2 DEF Settler
  <1>3. CASE BodyStep(c)
    <2>1. DiffInventory(c) \/ WriteInventory(c) \/ SaveTransaction(c) \/ Publish(c)
      BY <1>3 DEF BodyStep, FindForReserve, FindForSettle, ReadInventory, SaveReservation, Settler
    <2>2. request' = request /\ found' = found
      BY <2>1 DEF DiffInventory, WriteInventory, SaveTransaction, Publish, locals
    <2>3. /\ client'[c] \notin {"idle", "waiting"}
          /\ answer'[c] # "error"
          /\ pc'[c] \in {"writeInventory", "saveTransaction", "publish", "off"}
      BY <1>0, <2>1 DEF DiffInventory, WriteInventory, SaveTransaction, Publish, ReplyOrLost,
             BodyContinues, BodyReturns, Settle, Goto, TypeInv, TypeOK, Settler
    <2>. QED
      BY <2>2, <2>3 DEF Settler
  <1>. QED
    BY <1>1, <1>2, <1>3

\* A step of c settles nothing, or c becomes the settler of what it settles.
LEMMA SettledBySettler ==
    ASSUME DbAnswers, TypeInv, Records, TraceInv, NEW c \in Calls,
           Call(c) \/ Guard(c) \/ RetryBody(c) \/ BodyStep(c),
           NEW id \in Ids, SettledSince(id)', ~SettledSince(id)
    PROVE  Settler(c, id)'
  <1>1. SaveReservation(c)
    <2> SUFFICES ASSUME ~SaveReservation(c) PROVE resv' = resv
      BY DEF SettledSince
    <2>. QED
      BY DEF Call, Guard, RetryBody, BodyStep, FindForReserve, FindForSettle, ReadInventory,
             DiffInventory, WriteInventory, SaveTransaction, Publish, Refuse, tables
  <1>2. /\ pc[c] = "saveReservation"
        /\ resv' = [resv EXCEPT ![found[c]] = SavedReservation(c)]
        /\ request' = request
        /\ found' = found
    BY <1>1 DEF SaveReservation, locals
  <1>3. \A other \in Ids \ {found[c]} : resv'[other] = resv[other]
    BY <1>2, SavedRow
  <1>4. found[c] = id
    BY <1>3 DEF SettledSince
  <1>5. request[c].op # "reserve"
    <2>1. resv'[id] = SavedReservation(c)
      BY <1>2, <1>4 DEF TypeInv, TypeOK
    <2>. QED
      BY <2>1 DEF SettledSince, SavedReservation
  <1>6. answer[c] # "error" /\ client[c] \notin {"idle", "waiting"}
    BY <1>2 DEF TraceInv, Traceless, Records, Recorded
  <1>7. client' = client /\ answer' = answer /\ pc'[c] = "diffInventory"
    BY <1>1 DEF SaveReservation, ReplyOrLost, DbAnswers, BodyContinues, Goto, TypeInv, TypeOK
  <1>. QED
    BY <1>2, <1>4, <1>5, <1>6, <1>7 DEF Settler

LEMMA NextSettlersKnown ==
    ASSUME DbAnswers, TypeInv, Records, TraceInv, SettlersKnown, [Next]_vars
    PROVE  SettlersKnown'
  <1>1. ASSUME NEW c \in Calls, Call(c) \/ Guard(c) \/ RetryBody(c) \/ BodyStep(c)
        PROVE SettlersKnown'
    <2> SUFFICES ASSUME NEW id \in Ids, SettledSince(id)'
                 PROVE  \E d \in Calls : Settler(d, id)'
      BY DEF SettlersKnown
    <2>1. CASE ~SettledSince(id)
      BY <1>1, <2>1, SettledBySettler
    <2>2. CASE SettledSince(id)
      <3>1. PICK d \in Calls : Settler(d, id)
        BY <2>2 DEF SettlersKnown
      <3>2. CASE d = c
        BY <1>1, <3>1, <3>2, SettlerGoesOn
      <3>3. CASE d # c
        <4>1. /\ client'[d] = client[d] /\ answer'[d] = answer[d] /\ pc'[d] = pc[d]
              /\ request'[d] = request[d] /\ found'[d] = found[d]
          <5>1. CASE Call(c) \/ Guard(c)
            BY <3>3, <5>1
               DEF TypeInv, TypeOK, Guard, Enter, AcquireAndFire, AcquireAndReject, NotLocked,
                   WaitTimeout, AcquireFails, Timeout, Release, ReleaseFails, Crash, Call,
                   Invoke, locals
          <5>. QED
            BY <1>1, <3>3, <5>1, BodyStepOthers
        <4>. QED
          BY <3>1, <4>1 DEF Settler
      <3>. QED
        BY <3>2, <3>3
    <2>. QED
      BY <2>1, <2>2
  <1>2. ASSUME NEW c \in Calls PROVE ~DbFails(c)
    BY DEF DbAnswers, DbFails, DbRejects
  <1>3. ASSUME UNCHANGED <<client, answer, pc, request, found, resv>> PROVE SettlersKnown'
    BY <1>3 DEF SettlersKnown, SettledSince, Settler
  <1>4. ASSUME NEW k \in Keys, Expire(k) PROVE SettlersKnown'
    BY <1>3, <1>4 DEF Expire, LeaseExpires, tables, locals
  <1>5. CASE UNCHANGED vars
    BY <1>3, <1>5 DEF vars, guardVars, tables, locals
  <1>. QED
    BY <1>1, <1>2, <1>4, <1>5 DEF Next, Finished

\* Where the database answers, a caller that is told of an error finds that none of its
\* attempts created a reservation or recorded a transaction, and every reservation settled
\* since the start was settled by a call that was not refused, also when bodies are
\* orphaned, keys expire, processes crash, and callers name a quantity or a row that is
\* not the order's.
THEOREM RefusedCorrect ==
    ASSUME DbAnswers
    PROVE  Spec => []RefusedLeavesNoTrace
  <1>1. Init => TraceInv
    <2> SUFFICES ASSUME Init, NEW c \in Calls PROVE Traceless(c)
      BY DEF TraceInv
    <2>1. \A n \in 1..MaxAttempts : <<c, n>> \in Ids /\ <<c, n>> \notin DOMAIN Prior
      BY PriorAssumption DEF Ids, FreshIds
    <2>2. NoTrace(c)
      BY <2>1 DEF Init, NoTrace
    <2>. QED
      BY <2>2 DEF Init, GuardInit, Traceless
  <1>2. Init => SettlersKnown
    BY DEF Init, SettlersKnown, SettledSince
  <1>3. TypeInv /\ Records /\ TraceInv /\ SettlersKnown /\ [Next]_vars
        => TraceInv' /\ SettlersKnown'
    BY NextTraceInv, NextSettlersKnown
  <1>4. TraceInv /\ SettlersKnown => RefusedLeavesNoTrace
    BY DEF TraceInv, Traceless, NoTrace, SettlersKnown, Settler, RefusedLeavesNoTrace
  <1>. QED
    BY <1>1, <1>2, <1>3, <1>4, RecordsHold, PTL DEF Spec

-----------------------------------------------------------------------------
(* Orders.  Where no body outlives its call, the bodies that reserve for    *)
(* one order exclude each other, and the search at the start of a body is   *)
(* still true at its first save, whatever fails in between.                 *)

NoOrphans == "timeout" \notin Faults

Attended == \A c \in Calls : pc[c] # "off" => client[c] = "fired"

\* Without the breaker's timer no body outlives its call.
LEMMA AttendedStep ==
    ASSUME NoOrphans, TypeInv, Attended, [Next]_vars
    PROVE  Attended'
  <1> USE DEF Attended
  <1>1. ASSUME NEW c \in Calls, Call(c) PROVE Attended'
    BY <1>1 DEF Call, Invoke, TypeInv, TypeOK
  <1>2. ASSUME NEW c \in Calls, Guard(c) PROVE Attended'
    BY <1>2
       DEF Guard, Enter, AcquireAndFire, AcquireAndReject, NotLocked, WaitTimeout,
           AcquireFails, Timeout, Release, ReleaseFails, Crash, TypeInv, TypeOK, NoOrphans
  <1>3. ASSUME NEW c \in Calls, RetryBody(c) \/ BodyStep(c) \/ DbFails(c)
        PROVE Attended'
    <2>1. /\ pc[c] # "off"
          /\ \/ RetryBody(c)
             \/ BodyThrows(c)
             \/ BodyReturns(c)
             \/ \E step \in DbSteps \cup {"publish"} : BodyContinues(c, step)
      BY <1>3 DEF BodyStep, DbFails, DbRejects, FindForReserve, FindForSettle, ReadInventory,
             SaveReservation, DiffInventory, WriteInventory, SaveTransaction, Publish, Refuse,
             ReplyOrLost, DbSteps, RetryBody, Retry
    <2>2. \A d \in Calls \ {c} : pc'[d] = pc[d] /\ client'[d] = client[d]
      BY <1>3, BodyStepOthers
    <2>3. pc'[c] # "off" => client'[c] = "fired"
      BY <2>1 DEF RetryBody, Retry, BodyThrows, BodyReturns, BodyContinues, Goto, Settle,
                  TypeInv, TypeOK
    <2>. QED
      BY <2>2, <2>3
  <1>4. ASSUME NEW k \in Keys, Expire(k) PROVE Attended'
    BY <1>4 DEF Expire, LeaseExpires
  <1>5. CASE UNCHANGED vars
    BY <1>5 DEF vars, guardVars
  <1>. QED
    BY <1>1, <1>2, <1>3, <1>4, <1>5 DEF Next, Finished


Reserving(c) == pc[c] \in {"readInventory", "saveReservation"} /\ request[c].op = "reserve"

\* What the steps that save no reservation do to a body: they start it, move it on with
\* the reservation it has found, or find it one.
LEMMA BodyMoves ==
    ASSUME TypeInv, [Next]_vars, \A c \in Calls : ~SaveReservation(c)
    PROVE  /\ resv' = resv
           /\ \A d \in Calls :
                /\ pc'[d] # "off" =>
                    /\ request'[d] = request[d]
                    /\ pc[d] # "off" \/ (pc'[d] = "start" /\ client[d] = "waiting")
                /\ pc'[d] \in AfterFind =>
                    \/ /\ pc[d] \in AfterFind
                       /\ found'[d] = found[d]
                       /\ Reserving(d)' => Reserving(d)
                    \/ /\ pc'[d] = "readInventory"
                       /\ IF request[d].op = "reserve"
                          THEN ActiveByOrderRef(request[d].orderRef) = {}
                          ELSE found'[d] \in ActiveByOrderRef(request[d].orderRef)
  <1>1. resv' = resv
    BY DEF Next, Call, Guard, RetryBody, BodyStep, DbFails, DbRejects, FindForReserve,
           FindForSettle, ReadInventory, DiffInventory, WriteInventory, SaveTransaction,
           Publish, Refuse, Expire, Finished, vars, tables
  <1> SUFFICES ASSUME NEW d \in Calls
               PROVE  /\ pc'[d] # "off" =>
                        /\ request'[d] = request[d]
                        /\ pc[d] # "off" \/ (pc'[d] = "start" /\ client[d] = "waiting")
                      /\ pc'[d] \in AfterFind =>
                        \/ /\ pc[d] \in AfterFind
                           /\ found'[d] = found[d]
                           /\ Reserving(d)' => Reserving(d)
                        \/ /\ pc'[d] = "readInventory"
                           /\ IF request[d].op = "reserve"
                              THEN ActiveByOrderRef(request[d].orderRef) = {}
                              ELSE found'[d] \in ActiveByOrderRef(request[d].orderRef)
    BY <1>1
  <1> USE DEF AfterFind, Reserving
  <1>2. CASE pc'[d] = pc[d] /\ found'[d] = found[d] /\ (pc[d] # "off" => request'[d] = request[d])
    BY <1>2
  <1>3. ASSUME NEW c \in Calls, Call(c) PROVE
          pc'[d] = pc[d] /\ found'[d] = found[d] /\ (pc[d] # "off" => request'[d] = request[d])
    <2>1. client[c] = "idle" /\ pc[c] = "off"
      BY <1>3 DEF Call, Invoke, TypeInv, Shape, BodyShape
    <2>. QED
      BY <1>3, <2>1 DEF Call, Invoke, locals, TypeInv, TypeOK
  <1>4. ASSUME NEW c \in Calls, Guard(c) PROVE
          /\ found'[d] = found[d]
          /\ request'[d] = request[d]
          /\ pc'[d] \in {pc[d], "off"} \/ (pc'[d] = "start" /\ client[d] = "waiting")
    BY <1>4 DEF Guard, Enter, AcquireAndFire, AcquireAndReject, NotLocked, WaitTimeout,
           AcquireFails, Timeout, Release, ReleaseFails, Crash, locals, TypeInv, TypeOK
  <1>5. ASSUME NEW c \in Calls, RetryBody(c) \/ DbFails(c) \/ Refuse(c), pc[c] # "off" PROVE
          /\ found'[d] = found[d]
          /\ request'[d] = request[d]
          /\ pc'[d] = pc[d] \/ (pc[d] # "off" /\ pc'[d] \in {"off", "backoff", "start"})
    BY <1>5 DEF RetryBody, Retry, DbFails, DbRejects, Refuse, BodyThrows, BodyContinues, Goto,
           locals, TypeInv, TypeOK
  <1>6. ASSUME NEW c \in Calls, BodyStep(c), d # c PROVE
          /\ found'[d] = found[d]
          /\ request'[d] = request[d]
          /\ pc'[d] = pc[d]
    BY <1>6, OthersUntouched
  <1>7. ASSUME FindForReserve(d) \/ FindForSettle(d), ~Refuse(d) PROVE
          /\ pc[d] = "start"
          /\ request'[d] = request[d]
          /\ pc'[d] = "readInventory"
          /\ IF request[d].op = "reserve"
             THEN ActiveByOrderRef(request[d].orderRef) = {}
             ELSE found'[d] \in ActiveByOrderRef(request[d].orderRef)
    <2>1. CASE FindForReserve(d)
      BY <1>7, <2>1 DEF FindForReserve, BodyContinues, Goto, TypeInv, TypeOK
    <2>2. CASE FindForSettle(d)
      <3>1. /\ pc[d] = "start"
            /\ request[d].op # "reserve"
            /\ BodyContinues(d, "readInventory")
            /\ request' = request
            /\ \E id \in ActiveByOrderRef(request[d].orderRef) :
                 found' = [found EXCEPT ![d] = id]
        BY <1>7, <2>2 DEF FindForSettle
      <3>. QED
        BY <3>1 DEF BodyContinues, Goto, TypeInv, TypeOK
    <2>. QED
      BY <1>7, <2>1, <2>2
  <1>8. ASSUME ReadInventory(d) \/ DiffInventory(d) \/ WriteInventory(d) \/ SaveTransaction(d)
               \/ Publish(d), ~Refuse(d) PROVE
          /\ pc[d] \in AfterFind
          /\ request'[d] = request[d]
          /\ found'[d] = found[d]
          /\ pc'[d] \in {"saveReservation", "readInventory"} => pc[d] = "readInventory"
    BY <1>8 DEF ReadInventory, DiffInventory, WriteInventory, SaveTransaction, Publish,
           ReplyOrLost, BodyContinues, BodyThrows, BodyReturns, Goto, locals, TypeInv, TypeOK
  <1>9. \A c \in Calls : (BodyStep(c) \/ DbFails(c) \/ RetryBody(c)) => pc[c] # "off"
    BY DEF BodyStep, DbFails, RetryBody, Retry, DbSteps, FindForReserve, FindForSettle,
           ReadInventory, SaveReservation, DiffInventory, WriteInventory, SaveTransaction, Publish
  <1>10. ASSUME BodyStep(d) PROVE
          \/ Refuse(d)
          \/ (FindForReserve(d) \/ FindForSettle(d)) /\ ~Refuse(d)
          \/ /\ ReadInventory(d) \/ DiffInventory(d) \/ WriteInventory(d) \/ SaveTransaction(d)
                \/ Publish(d)
             /\ ~Refuse(d)
    BY <1>10 DEF BodyStep
  <1>11. \/ \E c \in Calls : Call(c) \/ Guard(c) \/ RetryBody(c) \/ DbFails(c) \/ BodyStep(c)
         \/ UNCHANGED <<pc, found, request>>
    BY DEF Next, Expire, LeaseExpires, Finished, vars, guardVars, locals
  <1>12. CASE \E c \in Calls : Call(c)
    BY <1>2, <1>3, <1>12
  <1>13. CASE \E c \in Calls : Guard(c)
    BY <1>4, <1>13
  <1>14. CASE \E c \in Calls : RetryBody(c) \/ DbFails(c)
    BY <1>5, <1>9, <1>14
  <1>15. CASE BodyStep(d)
    BY <1>5, <1>7, <1>8, <1>9, <1>10, <1>15
  <1>16. CASE \E c \in Calls : BodyStep(c) /\ d # c
    BY <1>2, <1>6, <1>16
  <1>17. CASE UNCHANGED <<pc, found, request>>
    BY <1>2, <1>17
  <1>. QED
    BY <1>11, <1>12, <1>13, <1>14, <1>15, <1>16, <1>17

IsActive(id) == resv[id] # None /\ resv[id].status = "ACTIVE"

\* The reservation a settling body has found is its order's.
FoundIsOrders ==
    \A c \in Calls :
        (pc[c] \in AfterFind /\ request[c].op # "reserve") =>
            resv[found[c]].orderRef = request[c].orderRef

\* No order has an active reservation while a body is about to give it one.
OrderIsFree ==
    \A c \in Calls : Reserving(c) => ActiveByOrderRef(request[c].orderRef) = {}

ActiveAreUnique ==
    \A x, y \in Ids :
        (IsActive(x) /\ IsActive(y) /\ resv[x].orderRef = resv[y].orderRef) => x = y

\* The start: no order has two active reservations.
PriorUnique ==
    \A x, y \in DOMAIN Prior :
        (/\ Prior[x].status = "ACTIVE"
         /\ Prior[y].status = "ACTIVE"
         /\ Prior[x].orderRef = Prior[y].orderRef) => x = y

OrderInv ==
    /\ TypeInv
    /\ FiredHoldsLock
    /\ Records
    /\ Attended
    /\ FoundIsOrders
    /\ OrderIsFree

\* At most one body reserves for an order.
LEMMA OneReserving ==
    ASSUME OrdersFit, OrderInv, NEW c \in Calls, NEW d \in Calls, pc[c] # "off", pc[d] # "off",
           request[c].op = "reserve", request[d].op = "reserve",
           request[c].orderRef = request[d].orderRef
    PROVE  c = d
  <1>1. request[c] \in Requests /\ request[d] \in Requests
    BY RunningBody DEF OrderInv
  <1>2. request[c].item = request[d].item
    BY <1>1 DEF OrdersFit
  <1>3. Key(c) = Key(d)
    BY <1>2 DEF Key, LockKey
  <1>. QED
    BY <1>3 DEF OrderInv, Attended, FiredHoldsLock

\* The first save in terms of what is active: a new reservation of the order, or one
\* fewer.
LEMMA SavedActive ==
    ASSUME OrderInv, NEW c \in Calls, SaveReservation(c)
    PROVE  /\ found[c] \in Ids
           /\ \A id \in Ids \ {found[c]} : resv'[id] = resv[id]
           /\ resv'[found[c]].orderRef = request[c].orderRef
           /\ IsActive(found[c])' => request[c].op = "reserve"
           /\ request[c].op = "reserve" => found[c] = <<c, attempt[c]>> /\ IsActive(found[c])'
           /\ request[c].op # "reserve" => resv[found[c]] # None
           /\ UNCHANGED <<request, found, attempt>>
           /\ \A d \in Calls \ {c} : pc'[d] = pc[d]
           /\ pc'[c] \in {"diffInventory", "off", "backoff"}
  <1>0. TypeInv /\ pc[c] = "saveReservation" /\ BodyStep(c) /\ Recorded(c) /\ BodyShape(c)
    BY DEF OrderInv, SaveReservation, BodyStep, Records, TypeInv, Shape
  <1>1. /\ resv' = [resv EXCEPT ![found[c]] = SavedReservation(c)]
        /\ ReplyOrLost(c, "diffInventory")
        /\ UNCHANGED <<request, found>>
    BY DEF SaveReservation, locals
  <1>2. found[c] \in Ids /\ SavedReservation(c) \in Reservation
    BY <1>0, SavedReservationType
  <1>3. /\ resv'[found[c]] = SavedReservation(c)
        /\ \A id \in Ids \ {found[c]} : resv'[id] = resv[id]
    BY <1>0, <1>1, <1>2 DEF TypeInv, TypeOK
  <1>4. resv'[found[c]] # None
    BY <1>2, <1>3, NullAssumption
  <1>5. /\ UNCHANGED attempt
        /\ \A d \in Calls \ {c} : pc'[d] = pc[d]
        /\ pc'[c] \in {"diffInventory", "off", "backoff"}
    BY <1>0, <1>1 DEF ReplyOrLost, BodyContinues, BodyThrows, Goto, TypeInv, TypeOK
  <1>6. request[c].op \in {"reserve", "release", "confirm"}
    BY <1>0, RunningBody DEF RequestType, Ops
  <1>7. CASE request[c].op = "reserve"
    <2>1. found[c] = <<c, attempt[c]>>
      BY <1>0, <1>7 DEF Recorded, AfterFind
    <2>2. SavedReservation(c).orderRef = request[c].orderRef /\ SavedReservation(c).status = "ACTIVE"
      BY <1>7 DEF SavedReservation
    <2>. QED
      BY <1>1, <1>2, <1>3, <1>4, <1>5, <1>7, <2>1, <2>2 DEF IsActive
  <1>8. CASE request[c].op \in {"release", "confirm"}
    <2>1. resv[found[c]] # None /\ resv[found[c]] \in Reservation
      BY <1>0, <1>2, <1>8 DEF BodyShape, AfterFind, TypeInv, TypeOK
    <2>2. resv[found[c]].orderRef = request[c].orderRef
      BY <1>0, <1>8 DEF OrderInv, FoundIsOrders, AfterFind
    <2>3. SavedReservation(c).orderRef = request[c].orderRef /\ SavedReservation(c).status # "ACTIVE"
      BY <1>8, <2>1, <2>2 DEF SavedReservation, Reservation
    <2>. QED
      BY <1>1, <1>2, <1>3, <1>5, <1>8, <2>1, <2>3 DEF IsActive
  <1>. QED
    BY <1>6, <1>7, <1>8

\* Every step keeps what the bodies have found, and that the orders they reserve for
\* are free.
LEMMA NextOrders ==
    ASSUME NoOrphans, OrdersFit, OrderInv, [Next]_vars
    PROVE  OrderInv'
  <1>0. TypeInv' /\ FiredHoldsLock' /\ Records' /\ Attended'
    BY NextTypeInv, NextFiredHoldsLock, NextRecords, AttendedStep DEF OrderInv
  <1>1. CASE \A c \in Calls : ~SaveReservation(c)
    <2>0. TypeInv
      BY DEF OrderInv
    <2>1. resv' = resv
      BY <1>1, <2>0, BodyMoves
    <2>2. ASSUME NEW d \in Calls, pc'[d] \in AfterFind
          PROVE  /\ request'[d] = request[d]
                 /\ \/ /\ pc[d] \in AfterFind
                       /\ found'[d] = found[d]
                       /\ Reserving(d)' => Reserving(d)
                    \/ IF request[d].op = "reserve"
                       THEN ActiveByOrderRef(request[d].orderRef) = {}
                       ELSE found'[d] \in ActiveByOrderRef(request[d].orderRef)
      <3>1. pc'[d] # "off"
        BY <2>2 DEF AfterFind
      <3>. QED
        BY <1>1, <2>0, <2>2, <3>1, BodyMoves
    <2>3. FoundIsOrders'
      BY <2>1, <2>2 DEF OrderInv, FoundIsOrders, ActiveByOrderRef
    <2>4. ASSUME NEW d \in Calls, Reserving(d)'
          PROVE  ActiveByOrderRef(request[d].orderRef)' = {}
      <3>1. pc'[d] \in AfterFind /\ request'[d].op = "reserve"
        BY <2>4 DEF Reserving, AfterFind
      <3>2. request'[d] = request[d]
        BY <2>2, <3>1
      <3>3. ActiveByOrderRef(request[d].orderRef)' = ActiveByOrderRef(request[d].orderRef)
        BY <2>1, <3>2 DEF ActiveByOrderRef
      <3>. QED
        BY <2>2, <2>4, <3>1, <3>2, <3>3 DEF OrderInv, OrderIsFree
    <2>. QED
      BY <1>0, <2>3, <2>4 DEF OrderInv, OrderIsFree
  <1>2. ASSUME NEW c \in Calls, SaveReservation(c) PROVE OrderInv'
    <2>1. /\ found[c] \in Ids
          /\ \A id \in Ids \ {found[c]} : resv'[id] = resv[id]
          /\ resv'[found[c]].orderRef = request[c].orderRef
          /\ IsActive(found[c])' => request[c].op = "reserve"
          /\ request[c].op = "reserve" => found[c] = <<c, attempt[c]>>
          /\ UNCHANGED <<request, found>>
          /\ \A d \in Calls \ {c} : pc'[d] = pc[d]
          /\ pc'[c] \in {"diffInventory", "off", "backoff"}
      BY <1>2, SavedActive
    <2>2. pc[c] = "saveReservation"
      BY <1>2 DEF SaveReservation
    <2>3. ASSUME NEW d \in Calls, pc'[d] \in AfterFind, request'[d].op # "reserve"
          PROVE  resv'[found'[d]].orderRef = request'[d].orderRef
      <3>1. CASE found[d] = found[c]
        <4>1. pc[d] \in AfterFind /\ pc[c] \in AfterFind
          BY <2>1, <2>2, <2>3 DEF AfterFind
        <4>2. d # c => request[c].op # "reserve"
          <5>1. resv[found[d]] # None
            BY <2>1, <2>3, <4>1 DEF OrderInv, TypeInv, Shape, BodyShape
          <5>2. request[c].op = "reserve" => resv[<<c, attempt[c]>>] = None
            BY <2>2 DEF OrderInv, Records, Recorded
          <5>. QED
            BY <2>1, <3>1, <5>1, <5>2
        <4>3. request[c].op # "reserve"
          BY <2>1, <2>3, <4>2
        <4>4. request[c].orderRef = request[d].orderRef
          BY <2>1, <2>3, <3>1, <4>1, <4>3 DEF OrderInv, FoundIsOrders
        <4>. QED
          BY <2>1, <3>1, <4>4
      <3>2. CASE found[d] # found[c]
        <4>1. pc[d] \in AfterFind /\ found[d] \in Ids
          BY <2>1, <2>2, <2>3 DEF AfterFind, OrderInv, TypeInv, Shape, BodyShape
        <4>. QED
          BY <2>1, <2>3, <3>2, <4>1 DEF OrderInv, FoundIsOrders
      <3>. QED
        BY <3>1, <3>2
    <2>4. ASSUME NEW d \in Calls, Reserving(d)'
          PROVE  ActiveByOrderRef(request[d].orderRef)' = {}
      <3>1. d # c /\ Reserving(d) /\ request'[d] = request[d]
        BY <2>1, <2>4 DEF Reserving
      <3>2. ActiveByOrderRef(request[d].orderRef) = {}
        BY <3>1 DEF OrderInv, OrderIsFree
      <3>3. ~(IsActive(found[c])' /\ resv'[found[c]].orderRef = request[d].orderRef)
        BY <2>1, <2>2, <3>1, OneReserving DEF Reserving
      <3>. QED
        BY <2>1, <3>1, <3>2, <3>3 DEF ActiveByOrderRef, IsActive
    <2>. QED
      BY <1>0, <2>3, <2>4 DEF OrderInv, OrderIsFree, FoundIsOrders
  <1>. QED
    BY <1>1, <1>2

\* An order gets a second active reservation from no step.
LEMMA NextUnique ==
    ASSUME OrderInv, ActiveAreUnique, [Next]_vars
    PROVE  ActiveAreUnique'
  <1>1. CASE \A c \in Calls : ~SaveReservation(c)
    <2>1. resv' = resv
      BY <1>1, BodyMoves DEF OrderInv
    <2>. QED
      BY <2>1 DEF ActiveAreUnique, IsActive
  <1>2. ASSUME NEW c \in Calls, SaveReservation(c) PROVE ActiveAreUnique'
    <2>1. /\ \A id \in Ids \ {found[c]} : resv'[id] = resv[id]
          /\ resv'[found[c]].orderRef = request[c].orderRef
          /\ IsActive(found[c])' => request[c].op = "reserve"
          /\ found' = found
      BY <1>2, SavedActive
    <2>2. request[c].op = "reserve" => ActiveByOrderRef(request[c].orderRef) = {}
      BY <1>2 DEF SaveReservation, OrderInv, OrderIsFree, Reserving
    <2>3. \A id \in Ids \ {found[c]} :
            IsActive(id)' => IsActive(id) /\ resv'[id].orderRef = resv[id].orderRef
      BY <2>1 DEF IsActive
    <2>4. ASSUME NEW id \in Ids \ {found[c]}, IsActive(id)', IsActive(found[c])'
          PROVE  resv'[id].orderRef # resv'[found[c]].orderRef
      BY <2>1, <2>2, <2>3, <2>4 DEF ActiveByOrderRef, IsActive
    <2>5. ASSUME NEW x \in Ids, NEW y \in Ids, IsActive(x)', IsActive(y)',
                 resv'[x].orderRef = resv'[y].orderRef
          PROVE  x = y
      <3>1. CASE x = found[c] \/ y = found[c]
        BY <2>1, <2>4, <2>5, <3>1
      <3>2. CASE x # found[c] /\ y # found[c]
        BY <2>3, <2>5, <3>2 DEF ActiveAreUnique
      <3>. QED
        BY <3>1, <3>2
    <2>. QED
      BY <2>5 DEF ActiveAreUnique
  <1>. QED
    BY <1>1, <1>2

\* At most one is a set with at most one member.
LEMMA UniqueIsOne == ActiveAreUnique => OneActivePerOrder
  <1> SUFFICES ASSUME ActiveAreUnique, NEW o \in Orders
               PROVE  Cardinality(ActiveByOrderRef(o)) <= 1
    BY DEF OneActivePerOrder
  <1>1. \A x, y \in ActiveByOrderRef(o) : x = y
    BY DEF ActiveAreUnique, IsActive, ActiveByOrderRef
  <1>2. CASE ActiveByOrderRef(o) = {}
    BY <1>2, FS_EmptySet
  <1>3. CASE \E x : ActiveByOrderRef(o) = {x}
    BY <1>3, FS_Singleton
  <1>. QED
    BY <1>1, <1>2, <1>3

LEMMA InitOrders == Init => OrderInv
  <1> SUFFICES ASSUME Init PROVE OrderInv
    OBVIOUS
  <1>1. \A c \in Calls : pc[c] = "off" /\ client[c] = "idle"
    BY DEF Init, GuardInit
  <1>. QED
    BY <1>1, InitTypeInv, InitRecords
       DEF OrderInv, FiredHoldsLock, Attended, FoundIsOrders, OrderIsFree, Reserving, AfterFind

\* Where every order is for one row, and no body outlives its call, no failure of the
\* database, of Redis or of a process, and no retry gives an order two active
\* reservations, although reserveStock only looks and then saves.
THEOREM OneActiveCorrect ==
    ASSUME NoOrphans, OrdersFit, PriorUnique
    PROVE  Spec => []OneActivePerOrder
  <1>1. Init => OrderInv /\ ActiveAreUnique
    <2>1. Init => ActiveAreUnique
      BY NullAssumption DEF Init, ActiveAreUnique, IsActive, PriorUnique
    <2>. QED
      BY <2>1, InitOrders
  <1>2. OrderInv /\ ActiveAreUnique /\ [Next]_vars => (OrderInv /\ ActiveAreUnique)'
    BY NextOrders, NextUnique
  <1>3. ActiveAreUnique => OneActivePerOrder
    BY UniqueIsOne
  <1>. QED
    BY <1>1, <1>2, <1>3, PTL DEF Spec

\* What a running body of reserveStock has saved in earlier attempts still reserves for
\* its order: under one lock per row nobody settles it in the meantime.
OwnStillActive ==
    \A c \in Calls : (pc[c] # "off" /\ request[c].op = "reserve") =>
        \A n \in 1..MaxAttempts : resv[<<c, n>>] # None =>
            IsActive(<<c, n>>) /\ resv[<<c, n>>].orderRef = request[c].orderRef

LEMMA NextOnce ==
    ASSUME OneLockPerRow, OrdersFit, OrderInv, OwnStillActive, OneReservationPerCall, [Next]_vars
    PROVE  OwnStillActive' /\ OneReservationPerCall'
  <1>0. TypeInv
    BY DEF OrderInv
  <1>1. CASE \A c \in Calls : ~SaveReservation(c)
    <2>1. resv' = resv
      BY <1>0, <1>1, BodyMoves
    <2>2. ASSUME NEW d \in Calls, pc'[d] # "off", request'[d].op = "reserve",
                 NEW n \in 1..MaxAttempts, resv'[<<d, n>>] # None
          PROVE  IsActive(<<d, n>>)' /\ resv'[<<d, n>>].orderRef = request'[d].orderRef
      <3>1. request'[d] = request[d] /\ (pc[d] # "off" \/ client[d] = "waiting")
        BY <1>0, <1>1, <2>2, BodyMoves
      <3>2. client[d] # "waiting"
        <4>1. client[d] = "waiting" => attempt[d] = 0
          BY DEF OrderInv, Records, Recorded
        <4>2. n > attempt[d] => resv[<<d, n>>] = None
          BY DEF OrderInv, Records, Recorded
        <4>. QED
          BY <2>1, <2>2, <4>1, <4>2
      <3>. QED
        BY <2>1, <2>2, <3>1, <3>2 DEF OwnStillActive, IsActive
    <2>. QED
      BY <2>1, <2>2 DEF OwnStillActive, OneReservationPerCall
  <1>2. ASSUME NEW c \in Calls, SaveReservation(c) PROVE OwnStillActive' /\ OneReservationPerCall'
    <2>1. /\ found[c] \in Ids
          /\ \A id \in Ids \ {found[c]} : resv'[id] = resv[id]
          /\ resv'[found[c]].orderRef = request[c].orderRef
          /\ request[c].op = "reserve" => found[c] = <<c, attempt[c]>> /\ IsActive(found[c])'
          /\ request[c].op # "reserve" => resv[found[c]] # None
          /\ UNCHANGED <<request, found>>
          /\ \A d \in Calls \ {c} : pc'[d] = pc[d]
      BY <1>2, SavedActive
    <2>2. pc[c] = "saveReservation"
      BY <1>2 DEF SaveReservation
    <2>3. \A d \in Calls : \A n \in 1..MaxAttempts : <<d, n>> \in Ids
      BY DEF Ids, FreshIds
    <2>4. request[c].op = "reserve" => \A n \in 1..MaxAttempts : resv[<<c, n>>] = None
      <3>1. request[c].op = "reserve" => ActiveByOrderRef(request[c].orderRef) = {}
        BY <2>2 DEF OrderInv, OrderIsFree, Reserving
      <3>. QED
        BY <2>2, <2>3, <3>1 DEF OwnStillActive, IsActive, ActiveByOrderRef
    <2>5. ASSUME NEW d \in Calls, pc'[d] # "off", request'[d].op = "reserve",
                 NEW n \in 1..MaxAttempts, resv'[<<d, n>>] # None
          PROVE  IsActive(<<d, n>>)' /\ resv'[<<d, n>>].orderRef = request'[d].orderRef
      <3>1. pc[d] # "off" /\ request'[d] = request[d]
        BY <2>1, <2>2, <2>5
      <3>2. CASE <<d, n>> # found[c]
        BY <2>1, <2>3, <2>5, <3>1, <3>2 DEF OwnStillActive, IsActive
      <3>3. CASE <<d, n>> = found[c] /\ request[c].op = "reserve"
        <4>1. d = c
          BY <2>1, <3>3
        <4>. QED
          BY <2>1, <3>1, <3>3, <4>1
      <3>4. CASE <<d, n>> = found[c] /\ request[c].op # "reserve"
        <4>1. resv[found[c]].orderRef = request[d].orderRef
          BY <2>1, <2>5, <3>1, <3>4 DEF OwnStillActive
        <4>2. resv[found[c]].orderRef = request[c].orderRef
          BY <2>2, <3>4 DEF OrderInv, FoundIsOrders, AfterFind
        <4>3. request[c] \in Requests /\ request[d] \in Requests
          BY <1>0, <2>2, <3>1, RunningBody
        <4>4. request[c].item = request[d].item
          BY <4>1, <4>2, <4>3 DEF OrdersFit
        <4>5. Key(c) = Key(d)
          BY <4>3, <4>4 DEF OneLockPerRow, Key
        <4>6. c = d
          BY <2>2, <3>1, <4>5 DEF OrderInv, Attended, FiredHoldsLock
        <4>. QED
          BY <2>5, <3>1, <3>4, <4>6
      <3>. QED
        BY <3>2, <3>3, <3>4
    <2>6. ASSUME NEW d \in Calls, NEW m \in 1..MaxAttempts, NEW n \in 1..MaxAttempts,
                 resv'[<<d, m>>] # None, resv'[<<d, n>>] # None
          PROVE  m = n
      <3>1. CASE request[c].op = "reserve" /\ d = c
        <4>1. <<d, m>> = found[c] /\ <<d, n>> = found[c]
          BY <2>1, <2>3, <2>4, <2>6, <3>1
        <4>. QED
          BY <4>1
      <3>2. CASE request[c].op = "reserve" /\ d # c
        <4>1. <<d, m>> # found[c] /\ <<d, n>> # found[c]
          BY <2>1, <3>2
        <4>. QED
          BY <2>1, <2>3, <2>6, <4>1 DEF OneReservationPerCall
      <3>3. CASE request[c].op # "reserve"
        <4>1. resv[<<d, m>>] # None /\ resv[<<d, n>>] # None
          BY <2>1, <2>3, <2>6, <3>3
        <4>. QED
          BY <4>1 DEF OneReservationPerCall
      <3>. QED
        BY <3>1, <3>2, <3>3
    <2>. QED
      BY <2>5, <2>6 DEF OwnStillActive, OneReservationPerCall
  <1>. QED
    BY <1>1, <1>2

\* Where no body outlives its call and a row is served under one lock, Retry never makes
\* one call of reserveStock reserve twice, whichever replies are lost.
THEOREM OneReservationCorrect ==
    ASSUME NoOrphans, OrdersFit, OneLockPerRow
    PROVE  Spec => []OneReservationPerCall
  <1>1. Init => OrderInv /\ OwnStillActive /\ OneReservationPerCall
    <2> SUFFICES ASSUME Init PROVE OwnStillActive /\ OneReservationPerCall
      BY InitOrders
    <2>1. \A c \in Calls : \A n \in 1..MaxAttempts : resv[<<c, n>>] = None
      BY PriorAssumption DEF Init, Ids, FreshIds
    <2>. QED
      BY <2>1 DEF OwnStillActive, OneReservationPerCall
  <1>2. OrderInv /\ OwnStillActive /\ OneReservationPerCall /\ [Next]_vars =>
            (OrderInv /\ OwnStillActive /\ OneReservationPerCall)'
    BY NextOrders, NextOnce
  <1>. QED
    BY <1>1, <1>2, PTL DEF Spec

-----------------------------------------------------------------------------
(* The refinement.  Where nothing but Redis fails and no body is orphaned,  *)
(* where a row is served under one lock and every order is for one quantity *)
(* of one row, bodies on one row exclude each other, and what a body has    *)
(* read is still so when it saves.  Then every step maps to a step of the   *)
(* ledger: the reservation's save to the operation, all others to nothing.  *)

\* The reservations in the table fit the requests.
ReservationsFit ==
    \A id \in Ids : \A r \in Requests :
        (resv[id] # None /\ resv[id].orderRef = r.orderRef) =>
            resv[id].item = r.item /\ resv[id].qty = r.qty

\* What a body read before its first save still holds.
ReadIsFresh(c) ==
    LET r == request[c]
    IN  /\ pc[c] \in {"readInventory", "saveReservation"} =>
             IF r.op = "reserve" THEN ActiveByOrderRef(r.orderRef) = {}
                                 ELSE found[c] \in ActiveByOrderRef(r.orderRef)
        /\ pc[c] = "saveReservation" =>
             /\ Allowed(r.op, inventory[r.item], r.qty)
             /\ row[c] = Applied(r.op, inventory[r.item], r.qty)
        /\ pc[c] = "writeInventory" => dirty[c] = Differing(row[c], inventory[r.item])

SerialInv ==
    /\ TypeInv
    /\ FiredHoldsLock
    /\ Records
    /\ \A c \in Calls : pc[c] # "off" => client[c] = "fired"
    /\ ReservationsFit
    /\ \A c \in Calls : ReadIsFresh(c)

\* At most one body runs for each row.
LEMMA OneBodyPerRow ==
    ASSUME Serial, SerialInv, NEW c \in Calls, NEW d \in Calls, pc[c] # "off", pc[d] # "off",
           request[c].item = request[d].item
    PROVE  c = d
  <1>1. request[c] \in Requests /\ request[d] \in Requests
    BY RunningBody DEF SerialInv
  <1>2. Key(c) = Key(d)
    BY <1>1 DEF Serial, OneLockPerRow, Key
  <1>. QED
    BY <1>2 DEF SerialInv, FiredHoldsLock

\* The bodies that are between their two saves of one row are at most one, whose object
\* is what the ledger shows.
LEMMA LedgerShowsObject ==
    ASSUME Serial, SerialInv, NEW c \in Calls, pc[c] \in {"diffInventory", "writeInventory"}
    PROVE  LedgerStock[request[c].item] = row[c]
  <1>1. request[c].item \in Items
    BY RunningBody DEF SerialInv, RequestType
  <1>2. Saving(request[c].item) = {c}
    BY OneBodyPerRow DEF Saving
  <1>3. (CHOOSE d \in {c} : TRUE) = c
    OBVIOUS
  <1>. QED
    BY <1>1, <1>2, <1>3 DEF LedgerStock

\* Elsewhere it shows the stored row.
LEMMA LedgerShowsRow ==
    ASSUME NEW i \in Items,
           \A c \in Calls : pc[c] \in {"diffInventory", "writeInventory"} => request[c].item # i
    PROVE  LedgerStock[i] = inventory[i]
  BY DEF LedgerStock, Saving

\* A row the ledger shows does not change unless the stored row, the bodies that are
\* saving it, or their objects do.
LEMMA LedgerRowKept ==
    ASSUME NEW i \in Items, inventory'[i] = inventory[i],
           \A c \in Calls :
              (pc'[c] \in {"diffInventory", "writeInventory"} /\ request'[c].item = i) <=>
              (pc[c] \in {"diffInventory", "writeInventory"} /\ request[c].item = i),
           \A c \in Calls : pc[c] \in {"diffInventory", "writeInventory"} => row'[c] = row[c]
    PROVE  LedgerStock'[i] = LedgerStock[i]
  <1>1. Saving(i)' = Saving(i)
    BY DEF Saving
  <1>2. CASE Saving(i) = {}
    BY <1>1, <1>2 DEF LedgerStock
  <1>3. CASE Saving(i) # {}
    <2>1. PICK d : d = CHOOSE c \in Saving(i) : TRUE
      OBVIOUS
    <2>2. d \in Saving(i)
      BY <1>3, <2>1
    <2>3. row'[d] = row[d]
      BY <2>2 DEF Saving
    <2>4. LedgerStock[i] = row[d]
      BY <1>3, <2>1 DEF LedgerStock
    <2>5. LedgerStock'[i] = row'[d]
      BY <1>1, <1>3, <2>1 DEF LedgerStock
    <2>. QED
      BY <2>3, <2>4, <2>5
  <1>. QED
    BY <1>2, <1>3

\* The ledger shows the same if it shows the same for every row.
LEMMA LedgerSame ==
    ASSUME \A i \in Items : LedgerStock'[i] = LedgerStock[i]
    PROVE  LedgerStock' = LedgerStock
  <1>1. LedgerStock = [i \in Items |-> LedgerStock[i]]
    BY DEF LedgerStock
  <1>2. LedgerStock' = [i \in Items |-> LedgerStock'[i]]
    BY DEF LedgerStock
  <1>. QED
    BY <1>1, <1>2

\* The steps that change no table and start or end no saving of the row.
LEMMA LedgerKept ==
    ASSUME inventory' = inventory,
           \A c \in Calls :
              /\ pc'[c] \in {"diffInventory", "writeInventory"} <=>
                 pc[c] \in {"diffInventory", "writeInventory"}
              /\ pc[c] \in {"diffInventory", "writeInventory"} =>
                    request'[c] = request[c] /\ row'[c] = row[c]
    PROVE  LedgerStock' = LedgerStock
  <1>1. ASSUME NEW i \in Items PROVE LedgerStock'[i] = LedgerStock[i]
    BY LedgerRowKept
  <1>. QED
    BY <1>1, LedgerSame

\* A step of c leaves what d has read fresh if it leaves d's row and d's order alone.
LEMMA FreshKept ==
    ASSUME SerialInv, NEW d \in Calls, pc'[d] = pc[d],
           pc[d] # "off" =>
              /\ request'[d] = request[d]
              /\ found'[d] = found[d]
              /\ row'[d] = row[d]
              /\ dirty'[d] = dirty[d]
              /\ inventory'[request[d].item] = inventory[request[d].item]
              /\ ActiveByOrderRef(request[d].orderRef)' =
                     ActiveByOrderRef(request[d].orderRef)
    PROVE  ReadIsFresh(d)'
  <1>1. ReadIsFresh(d)
    BY DEF SerialInv
  <1>2. CASE pc[d] = "off"
    BY <1>2 DEF ReadIsFresh
  <1>3. CASE pc[d] # "off"
    <2> DEFINE active == ActiveByOrderRef(request[d].orderRef)
    <2>1. active' = active
      BY <1>3
    <2>2. /\ pc[d] \in {"readInventory", "saveReservation"} =>
               IF request[d].op = "reserve" THEN active = {} ELSE found[d] \in active
          /\ pc[d] = "saveReservation" =>
               /\ Allowed(request[d].op, inventory[request[d].item], request[d].qty)
               /\ row[d] = Applied(request[d].op, inventory[request[d].item], request[d].qty)
          /\ pc[d] = "writeInventory" =>
               dirty[d] = Differing(row[d], inventory[request[d].item])
      BY <1>1 DEF ReadIsFresh
    <2> HIDE DEF active
    <2>. QED
      BY <1>3, <2>1, <2>2 DEF ReadIsFresh, active
  <1>. QED
    BY <1>2, <1>3


Fresh == ReservationsFit /\ \A c \in Calls : ReadIsFresh(c)

\* A step the ledger does not see.
Unseen == LedgerStock' = LedgerStock /\ resv' = resv

\* A step of c that writes no reservation and no inventory row.
LEMMA TablesUntouched ==
    ASSUME SerialInv, NEW c \in Calls, inventory' = inventory, resv' = resv,
           \A d \in Calls : pc[d] # "off" => request'[d] = request[d],
           \A d \in Calls \ {c} :
              /\ pc'[d] = pc[d]
              /\ found'[d] = found[d]
              /\ row'[d] = row[d]
              /\ dirty'[d] = dirty[d],
           pc'[c] \in {"diffInventory", "writeInventory"} <=>
               pc[c] \in {"diffInventory", "writeInventory"},
           pc[c] \in {"diffInventory", "writeInventory"} => row'[c] = row[c],
           ReadIsFresh(c)'
    PROVE  Fresh' /\ Unseen
  <1>1. ReservationsFit'
    BY DEF SerialInv, ReservationsFit
  <1>2. ASSUME NEW d \in Calls \ {c} PROVE ReadIsFresh(d)'
    <2>1. pc[d] # "off" => ActiveByOrderRef(request[d].orderRef)' =
                               ActiveByOrderRef(request[d].orderRef)
      BY DEF ActiveByOrderRef
    <2>. QED
      BY <2>1, FreshKept
  <1>3. LedgerStock' = LedgerStock
    BY LedgerKept
  <1>. QED
    BY <1>1, <1>2, <1>3 DEF Fresh, Unseen

\* A body that is not between its two reads and its saves has nothing to keep fresh.
LEMMA NothingRead ==
    ASSUME NEW c \in Calls,
           pc'[c] \notin {"readInventory", "saveReservation", "writeInventory"}
    PROVE  ReadIsFresh(c)'
  BY DEF ReadIsFresh

\* The decorators, and the bodies' refusals.
LEMMA OuterSerial ==
    ASSUME Serial, SerialInv, NEW c \in Calls,
           Call(c) \/ Guard(c) \/ RetryBody(c) \/ (pc[c] # "off" /\ Refuse(c))
    PROVE  \/ Fresh' /\ Unseen
           \/ pc[c] \in {"diffInventory", "writeInventory"} /\ Refuse(c)
  <1>0. TypeInv /\ Faults \subseteq {"redis"} /\ (pc[c] # "off" => client[c] = "fired")
    BY DEF SerialInv, Serial
  <1>1. UNCHANGED <<tables, locals>>
    BY DEF Call, Guard, RetryBody, Refuse
  <1>2. \A d \in Calls : pc[d] # "off" => request'[d] = request[d]
    <2>1. CASE Call(c)
      <3>1. pc[c] = "off"
        BY <1>0, <2>1 DEF Call, Invoke
      <3>. QED
        BY <1>0, <2>1, <3>1 DEF Call, TypeInv, TypeOK
    <2>. QED
      BY <2>1 DEF Guard, RetryBody, Refuse
  <1>3. /\ \A d \in Calls \ {c} : pc'[d] = pc[d]
        /\ pc'[c] \in {"off", "backoff", "start", pc[c]}
        /\ pc'[c] = pc[c] \/ pc[c] \in {"off", "backoff"} \/ Refuse(c)
    BY <1>0
       DEF Call, Invoke, Guard, Enter, AcquireAndFire, AcquireAndReject, NotLocked, WaitTimeout,
           AcquireFails, Timeout, Release, ReleaseFails, Crash, RetryBody, Retry, Refuse,
           BodyThrows, BodyContinues, Goto, TypeInv, TypeOK
  <1>4. CASE pc'[c] = pc[c]
    <2>1. ReadIsFresh(c)'
      <3>1. pc[c] # "off" => ActiveByOrderRef(request[c].orderRef)' =
                                 ActiveByOrderRef(request[c].orderRef)
        BY <1>1, <1>2 DEF ActiveByOrderRef, tables
      <3>. QED
        BY <1>1, <1>2, <1>4, <3>1, FreshKept DEF tables, locals
    <2>. QED
      BY <1>1, <1>2, <1>3, <1>4, <2>1, TablesUntouched DEF tables, locals
  <1>5. CASE pc'[c] # pc[c] /\ pc[c] \notin {"diffInventory", "writeInventory"}
    <2>1. pc'[c] \in {"off", "backoff", "start"}
      BY <1>3, <1>5
    <2>2. ReadIsFresh(c)'
      BY <2>1, NothingRead
    <2>. QED
      BY <1>1, <1>2, <1>3, <1>5, <2>1, <2>2, TablesUntouched DEF tables, locals
  <1>. QED
    BY <1>3, <1>4, <1>5

\* What the search found is so when it is found.
LEMMA FindSerial ==
    ASSUME Serial, SerialInv, NEW c \in Calls, FindForReserve(c) \/ FindForSettle(c)
    PROVE  Fresh' /\ Unseen
  <1>0. TypeInv /\ pc[c] = "start" /\ BodyStep(c)
    BY DEF SerialInv, FindForReserve, FindForSettle, BodyStep
  <1>1. CASE Refuse(c)
    BY <1>0, <1>1, OuterSerial
  <1>2. CASE ~Refuse(c)
    <2>1. /\ BodyContinues(c, "readInventory")
          /\ UNCHANGED <<request, tables, row, dirty>>
      BY <1>2 DEF FindForReserve, FindForSettle
    <2>2. pc'[c] = "readInventory"
      BY <1>0, <2>1 DEF BodyContinues, Goto, TypeInv, TypeOK
    <2>3. ActiveByOrderRef(request[c].orderRef)' = ActiveByOrderRef(request[c].orderRef)
      BY <2>1 DEF ActiveByOrderRef, tables
    <2>4. IF request[c].op = "reserve"
          THEN ActiveByOrderRef(request[c].orderRef) = {}
          ELSE found'[c] \in ActiveByOrderRef(request[c].orderRef)
      <3>1. CASE FindForReserve(c)
        BY <1>2, <3>1 DEF FindForReserve
      <3>2. CASE FindForSettle(c)
        <4>1. PICK id \in ActiveByOrderRef(request[c].orderRef) :
                found' = [found EXCEPT ![c] = id]
          BY <1>2, <3>2 DEF FindForSettle
        <4>2. found'[c] = id
          BY <1>0, <4>1 DEF TypeInv, TypeOK
        <4>. QED
          BY <3>2, <4>1, <4>2 DEF FindForSettle
      <3>. QED
        BY <3>1, <3>2
    <2>5. ReadIsFresh(c)'
      BY <2>1, <2>2, <2>3, <2>4 DEF ReadIsFresh
    <2>. QED
      BY <1>0, <2>1, <2>2, <2>5, OthersUntouched, TablesUntouched DEF tables
  <1>. QED
    BY <1>1, <1>2

\* The object is made of the row as it is stored.
LEMMA ReadInventorySerial ==
    ASSUME Serial, SerialInv, NEW c \in Calls, ReadInventory(c)
    PROVE  Fresh' /\ Unseen
  <1>0. TypeInv /\ pc[c] = "readInventory" /\ BodyStep(c) /\ ReadIsFresh(c)
    BY DEF SerialInv, ReadInventory, BodyStep
  <1>1. CASE Refuse(c)
    BY <1>0, <1>1, OuterSerial
  <1>2. CASE ~Refuse(c)
    <2> DEFINE r == request[c]
    <2>1. /\ Allowed(r.op, inventory[r.item], r.qty)
          /\ row' = [row EXCEPT ![c] = Applied(r.op, inventory[r.item], r.qty)]
          /\ BodyContinues(c, "saveReservation")
          /\ UNCHANGED <<request, tables, found, dirty>>
      BY <1>0, <1>2, ReadInventoryEffect
    <2>2. /\ pc'[c] = "saveReservation"
          /\ row'[c] = Applied(r.op, inventory[r.item], r.qty)
      BY <1>0, <2>1 DEF BodyContinues, Goto, TypeInv, TypeOK
    <2>3. ActiveByOrderRef(request[c].orderRef)' = ActiveByOrderRef(request[c].orderRef)
      BY <2>1 DEF ActiveByOrderRef, tables
    <2>4. ReadIsFresh(c)'
      BY <1>0, <2>1, <2>2, <2>3 DEF ReadIsFresh, tables
    <2>. QED
      BY <1>0, <2>1, <2>2, <2>4, OthersUntouched, TablesUntouched DEF tables
  <1>. QED
    BY <1>1, <1>2

\* The columns are compared with the row that the UPDATE will meet.
LEMMA DiffInventorySerial ==
    ASSUME Serial, SerialInv, NEW c \in Calls, DiffInventory(c)
    PROVE  Fresh' /\ Unseen
  <1>0. TypeInv /\ pc[c] = "diffInventory" /\ BodyStep(c)
    BY DEF SerialInv, DiffInventory, BodyStep
  <1> DEFINE differing == Differing(row[c], inventory[request[c].item])
  <1>1. /\ dirty' = [dirty EXCEPT ![c] = differing]
        /\ BodyContinues(c, "writeInventory")
        /\ UNCHANGED <<request, tables, found, row>>
    BY DEF DiffInventory
  <1>2. pc'[c] = "writeInventory" /\ dirty'[c] = differing
    BY <1>0, <1>1 DEF BodyContinues, Goto, TypeInv, TypeOK
  <1>3. ReadIsFresh(c)'
    BY <1>1, <1>2 DEF ReadIsFresh, tables
  <1>. QED
    BY <1>0, <1>1, <1>2, <1>3, OthersUntouched, TablesUntouched DEF tables

\* The last two steps of a body write neither table.
LEMMA EndSerial ==
    ASSUME Serial, SerialInv, NEW c \in Calls, SaveTransaction(c) \/ Publish(c)
    PROVE  Fresh' /\ Unseen
  <1>0. TypeInv /\ pc[c] \in {"saveTransaction", "publish"} /\ BodyStep(c)
    BY DEF SerialInv, SaveTransaction, Publish, BodyStep
  <1>1. pc'[c] \in {"publish", "off", "backoff"} /\ UNCHANGED <<inventory, resv>>
    BY <1>0 DEF SaveTransaction, Publish, ReplyOrLost, BodyContinues, BodyThrows, BodyReturns,
                Goto, TypeInv, TypeOK
  <1>2. ReadIsFresh(c)'
    BY <1>1, NothingRead
  <1>. QED
    BY <1>0, <1>1, <1>2, OthersUntouched, TablesUntouched

\* The UPDATE gives the row the value that the ledger shows already.
LEMMA WriteInventorySerial ==
    ASSUME Serial, SerialInv, NEW c \in Calls, WriteInventory(c)
    PROVE  Fresh' /\ Unseen
  <1> DEFINE i == request[c].item
  <1>0. TypeInv /\ pc[c] = "writeInventory" /\ BodyStep(c) /\ ReadIsFresh(c) /\ BodyShape(c)
    BY DEF SerialInv, WriteInventory, BodyStep, TypeInv, Shape
  <1>1. /\ inventory' = [inventory EXCEPT ![i] = Merge(inventory[i], row[c], dirty[c])]
        /\ ReplyOrLost(c, "saveTransaction")
        /\ UNCHANGED <<request, resv, locals>>
    BY DEF WriteInventory
  <1>2. i \in Items
    BY <1>0, RunningBody DEF RequestType
  <1>3. row[c] \in InventoryItem /\ inventory[i] \in InventoryItem
    BY <1>0, <1>2 DEF BodyShape, AfterRead, AfterFind, TypeInv, TypeOK
  <1>4. Merge(inventory[i], row[c], dirty[c]) = row[c]
    BY <1>0, <1>3, MergeOfDifferences DEF ReadIsFresh
  <1>5. /\ inventory'[i] = row[c]
        /\ \A j \in Items \ {i} : inventory'[j] = inventory[j]
    BY <1>0, <1>1, <1>2, <1>4 DEF TypeInv, TypeOK
  <1>6. pc'[c] \in {"saveTransaction", "off", "backoff"}
    BY <1>0, <1>1 DEF ReplyOrLost, BodyContinues, BodyThrows, Goto, TypeInv, TypeOK
  <1>7. \A d \in Calls \ {c} : pc'[d] = pc[d]
    BY <1>0, OthersUntouched
  <1>8. \A d \in Calls \ {c} : pc[d] # "off" => request[d].item # i /\ request[d].item \in Items
    BY <1>0, OneBodyPerRow, RunningBody DEF RequestType
  <1>9. LedgerStock' = LedgerStock
    <2>1. LedgerStock[i] = row[c]
      BY <1>0, LedgerShowsObject
    <2>2. \A j \in Items : j = i => Saving(j)' = {}
      BY <1>1, <1>6, <1>7, <1>8 DEF Saving
    <2>3. LedgerStock'[i] = row[c]
      BY <1>2, <1>5, <2>2 DEF LedgerStock
    <2>4. ASSUME NEW j \in Items \ {i} PROVE LedgerStock'[j] = LedgerStock[j]
      BY <1>1, <1>5, <1>7, LedgerRowKept DEF locals
    <2>. QED
      BY <2>1, <2>3, <2>4, LedgerSame
  <1>10. ReservationsFit'
    BY <1>1 DEF SerialInv, ReservationsFit
  <1>11. ReadIsFresh(c)'
    BY <1>6, NothingRead
  <1>12. ASSUME NEW d \in Calls \ {c} PROVE ReadIsFresh(d)'
    <2>1. pc[d] # "off" => inventory'[request[d].item] = inventory[request[d].item]
      BY <1>5, <1>8
    <2>2. ActiveByOrderRef(request[d].orderRef)' = ActiveByOrderRef(request[d].orderRef)
      BY <1>1 DEF ActiveByOrderRef
    <2>. QED
      BY <1>1, <1>7, <2>1, <2>2, FreshKept DEF locals
  <1>. QED
    BY <1>1, <1>9, <1>10, <1>11, <1>12 DEF Fresh, Unseen

\* The reservation a settling body found is active, and for what it asks.
LEMMA FoundFits ==
    ASSUME Serial, SerialInv, NEW c \in Calls, pc[c] = "saveReservation"
    PROVE  /\ found[c] \in Ids
           /\ request[c].op = "reserve" =>
                /\ resv[found[c]] = None
                /\ ActiveByOrderRef(request[c].orderRef) = {}
           /\ request[c].op # "reserve" =>
                /\ resv[found[c]] \in Reservation
                /\ resv[found[c]] # None
                /\ resv[found[c]].status = "ACTIVE"
                /\ resv[found[c]].item = request[c].item
                /\ resv[found[c]].qty = request[c].qty
                /\ resv[found[c]].orderRef = request[c].orderRef
  <1>1. TypeInv /\ Recorded(c) /\ ReadIsFresh(c) /\ ReservationsFit /\ BodyShape(c)
    BY DEF SerialInv, Records, TypeInv, Shape
  <1>2. found[c] \in Ids /\ request[c] \in Requests
    BY <1>1, RunningBody, SavedReservationType
  <1>3. CASE request[c].op = "reserve"
    <2>1. resv[found[c]] = None
      BY <1>1, <1>3 DEF Recorded, AfterFind
    <2>. QED
      BY <1>1, <1>2, <1>3, <2>1 DEF ReadIsFresh
  <1>4. CASE request[c].op # "reserve"
    <2>1. found[c] \in ActiveByOrderRef(request[c].orderRef)
      BY <1>1, <1>4 DEF ReadIsFresh
    <2>2. /\ resv[found[c]] # None
          /\ resv[found[c]].status = "ACTIVE"
          /\ resv[found[c]].orderRef = request[c].orderRef
      BY <2>1 DEF ActiveByOrderRef
    <2>3. resv[found[c]] \in Reservation
      BY <1>1, <1>2, <2>2 DEF TypeInv, TypeOK
    <2>. QED
      BY <1>1, <1>2, <1>4, <2>2, <2>3 DEF ReservationsFit
  <1>. QED
    BY <1>3, <1>4

\* What the first save stores is for the order, the row and the quantity of the request.
LEMMA SavedFits ==
    ASSUME Serial, SerialInv, NEW c \in Calls, pc[c] = "saveReservation"
    PROVE  /\ SavedReservation(c).item = request[c].item
           /\ SavedReservation(c).qty = request[c].qty
           /\ SavedReservation(c).orderRef = request[c].orderRef
  <1>1. request[c].op \in {"reserve", "release", "confirm"}
    BY RunningBody DEF SerialInv, RequestType, Ops
  <1>2. CASE request[c].op = "reserve"
    BY <1>2 DEF SavedReservation
  <1>3. CASE request[c].op \in {"release", "confirm"}
    BY <1>3, FoundFits DEF SavedReservation, Reservation
  <1>. QED
    BY <1>1, <1>2, <1>3

\* The first save shows the ledger the operation's effect on the counters.
LEMMA SaveShowsObject ==
    ASSUME Serial, SerialInv, NEW c \in Calls, SaveReservation(c)
    PROVE  LET r == request[c]
           IN  /\ LedgerStock[r.item] = inventory[r.item]
               /\ LedgerStock' = [LedgerStock EXCEPT ![r.item] =
                                     Applied(r.op, inventory[r.item], r.qty)]
  <1> DEFINE i == request[c].item
  <1> DEFINE object == Applied(request[c].op, inventory[i], request[c].qty)
  <1>0. TypeInv /\ pc[c] = "saveReservation" /\ BodyStep(c) /\ ReadIsFresh(c)
    BY DEF SerialInv, SaveReservation, BodyStep
  <1>1. ReplyOrLost(c, "diffInventory") /\ UNCHANGED <<request, inventory, locals>>
    BY DEF SaveReservation
  <1>2. Faults \subseteq {"redis"}
    BY DEF Serial
  <1>3. pc'[c] = "diffInventory" /\ \A d \in Calls \ {c} : pc'[d] = pc[d]
    BY <1>0, <1>1, <1>2 DEF ReplyOrLost, BodyContinues, Goto, TypeInv, TypeOK
  <1>4. i \in Items
    BY <1>0, RunningBody DEF RequestType
  <1>5. \A d \in Calls \ {c} : pc[d] # "off" => request[d].item # i
    BY <1>0, OneBodyPerRow
  <1>6. row[c] = object
    BY <1>0 DEF ReadIsFresh
  <1> HIDE DEF object
  <1>7. LedgerStock[i] = inventory[i]
    BY <1>0, <1>4, <1>5, LedgerShowsRow
  <1>8. \A j \in Items : j = i => Saving(j)' = {c}
    BY <1>1, <1>3, <1>5 DEF Saving
  <1>9. LedgerStock'[i] = object
    <2>1. (CHOOSE d \in {c} : TRUE) = c
      OBVIOUS
    <2>2. row'[c] = object
      BY <1>1, <1>6 DEF locals
    <2>. QED
      BY <1>4, <1>8, <2>1, <2>2 DEF LedgerStock
  <1>10. ASSUME NEW j \in Items \ {i} PROVE LedgerStock'[j] = LedgerStock[j]
    <2>1. \A d \in Calls : (pc'[d] \in {"diffInventory", "writeInventory"} /\ request'[d].item = j)
                       <=> (pc[d] \in {"diffInventory", "writeInventory"} /\ request[d].item = j)
      BY <1>0, <1>1, <1>3
    <2>. QED
      BY <1>1, <2>1, LedgerRowKept DEF locals
  <1>11. LedgerStock' = [LedgerStock EXCEPT ![i] = object]
    <2>1. LedgerStock = [j \in Items |-> LedgerStock[j]]
      BY DEF LedgerStock
    <2>2. LedgerStock' = [j \in Items |-> LedgerStock'[j]]
      BY DEF LedgerStock
    <2>. QED
      BY <1>4, <1>9, <1>10, <2>1, <2>2
  <1>. QED
    BY <1>7, <1>11 DEF object

\* The ledger's methods are the aggregate's.
LEMMA LedgerMethods ==
    \A item, qty :
        /\ Ledger!CanReserve(item, qty) <=> CanReserve(item, qty)
        /\ Ledger!ReserveStock(item, qty) = ReserveStock(item, qty)
        /\ Ledger!ReleaseStock(item, qty) = ReleaseStock(item, qty)
        /\ Ledger!ConfirmSale(item, qty) = ConfirmSale(item, qty)
  BY DEF Ledger!CanReserve, CanReserve, Ledger!ReserveStock, ReserveStock,
         Ledger!ReleaseStock, ReleaseStock, Ledger!ConfirmSale, ConfirmSale

\* The first save is the ledger's operation.
LEMMA SaveIsLedgerStep ==
    ASSUME Serial, SerialInv, NEW c \in Calls, SaveReservation(c)
    PROVE  Ledger!LedgerNext
  <1> DEFINE i == request[c].item
  <1> DEFINE q == request[c].qty
  <1> DEFINE o == request[c].orderRef
  <1> DEFINE op == request[c].op
  <1>0. TypeInv /\ pc[c] = "saveReservation" /\ ReadIsFresh(c) /\ BodyShape(c)
    BY DEF SerialInv, SaveReservation, TypeInv, Shape
  <1>1. request[c] \in Requests /\ i \in Items /\ o \in Orders /\ op \in {"reserve", "release", "confirm"}
    BY <1>0, RunningBody DEF RequestType, Ops
  <1>2. /\ found[c] \in Ids
        /\ op = "reserve" => resv[found[c]] = None /\ ActiveByOrderRef(o) = {}
        /\ op # "reserve" =>
             /\ resv[found[c]] \in Reservation
             /\ resv[found[c]] # None
             /\ resv[found[c]].status = "ACTIVE"
             /\ resv[found[c]].item = i
             /\ resv[found[c]].qty = q
    BY <1>0, FoundFits
  <1>3. /\ LedgerStock[i] = inventory[i]
        /\ LedgerStock' = [LedgerStock EXCEPT ![i] = Applied(op, inventory[i], q)]
    BY SaveShowsObject
  <1>4. resv' = [resv EXCEPT ![found[c]] = SavedReservation(c)]
    BY DEF SaveReservation
  <1>5. Allowed(op, inventory[i], q) /\ inventory[i] # None
    BY <1>0 DEF ReadIsFresh, BodyShape, AfterRead, AfterFind
  <1>6. CASE op = "reserve"
    <2>1. \A other \in Ids : Ledger!IsActive(other) => resv[other].orderRef # o
      BY <1>2, <1>6 DEF Ledger!IsActive, ActiveByOrderRef
    <2>2. Ledger!CanReserve(LedgerStock[i], q) /\ LedgerStock[i] # None
      BY <1>3, <1>5, <1>6, LedgerMethods DEF Allowed
    <2>3. LedgerStock' = [LedgerStock EXCEPT ![i] = Ledger!ReserveStock(LedgerStock[i], q)]
      BY <1>3, <1>6, LedgerMethods DEF Applied
    <2>4. resv' = [resv EXCEPT ![found[c]] =
                      [item |-> i, qty |-> q, orderRef |-> o, status |-> "ACTIVE"]]
      BY <1>4, <1>6 DEF SavedReservation
    <2>5. Ledger!PlaceHold(found[c], i, q, o)
      BY <1>2, <1>6, <2>1, <2>2, <2>3, <2>4 DEF Ledger!PlaceHold
    <2>6. q \in {r.qty : r \in Requests}
      BY <1>1
    <2>. QED
      BY <1>1, <1>2, <2>5, <2>6 DEF Ledger!LedgerNext
  <1>7. CASE op = "release"
    <2>1. LedgerStock' = [LedgerStock EXCEPT ![resv[found[c]].item] =
                             Ledger!ReleaseStock(LedgerStock[resv[found[c]].item],
                                                 resv[found[c]].qty)]
      BY <1>2, <1>3, <1>7, LedgerMethods DEF Applied
    <2>2. resv' = [resv EXCEPT ![found[c]] = [resv[found[c]] EXCEPT !.status = "CANCELLED"]]
      BY <1>4, <1>7 DEF SavedReservation
    <2>3. Ledger!CancelHold(found[c])
      BY <1>2, <1>7, <2>1, <2>2 DEF Ledger!CancelHold, Ledger!IsActive
    <2>. QED
      BY <1>2, <2>3 DEF Ledger!LedgerNext
  <1>8. CASE op = "confirm"
    <2>1. LedgerStock' = [LedgerStock EXCEPT ![resv[found[c]].item] =
                             Ledger!ConfirmSale(LedgerStock[resv[found[c]].item],
                                                resv[found[c]].qty)]
      BY <1>2, <1>3, <1>8, LedgerMethods DEF Applied
    <2>2. resv' = [resv EXCEPT ![found[c]] = [resv[found[c]] EXCEPT !.status = "COMMITTED"]]
      BY <1>4, <1>8 DEF SavedReservation
    <2>3. Ledger!SellHold(found[c])
      BY <1>2, <1>8, <2>1, <2>2 DEF Ledger!SellHold, Ledger!IsActive
    <2>. QED
      BY <1>2, <2>3 DEF Ledger!LedgerNext
  <1>. QED
    BY <1>1, <1>6, <1>7, <1>8

\* The first save concerns no other running body's order.
LEMMA SaveSerial ==
    ASSUME Serial, SerialInv, NEW c \in Calls, SaveReservation(c)
    PROVE  Fresh'
  <1>0. TypeInv /\ pc[c] = "saveReservation" /\ BodyStep(c) /\ ReservationsFit
    BY DEF SerialInv, SaveReservation, BodyStep
  <1>1. /\ resv' = [resv EXCEPT ![found[c]] = SavedReservation(c)]
        /\ ReplyOrLost(c, "diffInventory")
        /\ UNCHANGED <<request, inventory, locals>>
    BY DEF SaveReservation
  <1>2. found[c] \in Ids /\ request[c] \in Requests
    BY <1>0, RunningBody, SavedReservationType
  <1>3. /\ resv'[found[c]] = SavedReservation(c)
        /\ \A id \in Ids \ {found[c]} : resv'[id] = resv[id]
    BY <1>0, <1>1, <1>2 DEF TypeInv, TypeOK
  <1>4. /\ SavedReservation(c).item = request[c].item
        /\ SavedReservation(c).qty = request[c].qty
        /\ SavedReservation(c).orderRef = request[c].orderRef
    BY <1>0, SavedFits
  <1>5. \A r \in Requests : r.orderRef = request[c].orderRef =>
            request[c].item = r.item /\ request[c].qty = r.qty
    BY <1>2 DEF Serial, OrdersFit
  <1>6. ReservationsFit'
    BY <1>0, <1>3, <1>4, <1>5 DEF ReservationsFit
  <1>7. pc'[c] \in {"diffInventory", "off", "backoff"} /\ \A d \in Calls \ {c} : pc'[d] = pc[d]
    BY <1>0, <1>1 DEF ReplyOrLost, BodyContinues, BodyThrows, Goto, TypeInv, TypeOK
  <1>8. ReadIsFresh(c)'
    BY <1>7, NothingRead
  <1>9. ASSUME NEW d \in Calls \ {c} PROVE ReadIsFresh(d)'
    <2>1. ASSUME pc[d] # "off" PROVE request[d].orderRef # request[c].orderRef
      <3>1. request[d] \in Requests /\ request[d].item # request[c].item
        BY <1>0, <1>9, <2>1, RunningBody, OneBodyPerRow
      <3>. QED
        BY <1>5, <3>1
    <2>2. ASSUME pc[d] # "off"
          PROVE  ActiveByOrderRef(request[d].orderRef)' = ActiveByOrderRef(request[d].orderRef)
      <3>1. found[c] \notin ActiveByOrderRef(request[d].orderRef)
        BY <1>0, <2>1, <2>2, FoundFits DEF ActiveByOrderRef
      <3>2. resv'[found[c]].orderRef # request'[d].orderRef
        BY <1>1, <1>3, <1>4, <2>1, <2>2
      <3>3. request'[d].orderRef = request[d].orderRef
        BY <1>1
      <3>. QED
        BY <1>2, <1>3, <3>1, <3>2, <3>3 DEF ActiveByOrderRef
    <2>. QED
      BY <1>1, <1>7, <2>2, FreshKept DEF locals
  <1>. QED
    BY <1>6, <1>8, <1>9 DEF Fresh

\* Only a first save is seen by the ledger, and what was read stays fresh.
LEMMA NextSerial ==
    ASSUME Serial, SerialInv, [Next]_vars
    PROVE  Fresh' /\ ((\E c \in Calls : SaveReservation(c)) \/ Unseen)
  <1>0. TypeInv /\ Faults \subseteq {"redis"}
    BY DEF SerialInv, Serial
  <1>1. ASSUME NEW c \in Calls, Call(c) \/ Guard(c) \/ RetryBody(c)
        PROVE Fresh' /\ Unseen
    <2>1. CASE Refuse(c) /\ pc[c] \in {"diffInventory", "writeInventory"}
      <3>1. pc[c] # "off" /\ client[c] = "fired"
        BY <2>1 DEF SerialInv
      <3>2. pc'[c] = pc[c]
        BY <1>0, <1>1, <2>1, <3>1
           DEF Call, Invoke, Guard, Enter, AcquireAndFire, AcquireAndReject, NotLocked,
               WaitTimeout, AcquireFails, Timeout, Release, ReleaseFails, Crash, RetryBody,
               Retry, TypeInv, TypeOK
      <3>3. pc'[c] \in {"off", "backoff"}
        BY <1>0, <2>1 DEF Refuse, BodyThrows, BodyContinues, Goto, TypeInv, TypeOK
      <3>. QED
        BY <2>1, <3>2, <3>3
    <2>. QED
      BY <1>1, <2>1, OuterSerial
  <1>2. ASSUME NEW c \in Calls, BodyStep(c) PROVE Fresh' /\ (SaveReservation(c) \/ Unseen)
    BY <1>2, FindSerial, ReadInventorySerial, SaveSerial, DiffInventorySerial, WriteInventorySerial, EndSerial DEF BodyStep
  <1>3. ASSUME NEW c \in Calls PROVE ~DbFails(c)
    BY <1>0 DEF DbFails, DbRejects
  <1>4. ASSUME UNCHANGED <<pc, request, tables, locals>> PROVE Fresh' /\ Unseen
    <2>1. ReservationsFit'
      BY <1>4 DEF SerialInv, ReservationsFit, tables
    <2>2. LedgerStock' = LedgerStock
      BY <1>4, LedgerKept DEF tables, locals
    <2>3. ASSUME NEW d \in Calls PROVE ReadIsFresh(d)'
      <3>1. ActiveByOrderRef(request[d].orderRef)' = ActiveByOrderRef(request[d].orderRef)
        BY <1>4 DEF ActiveByOrderRef, tables
      <3>. QED
        BY <1>4, <3>1, FreshKept DEF tables, locals
    <2>. QED
      BY <1>4, <2>1, <2>2, <2>3 DEF Fresh, Unseen, tables
  <1>5. ASSUME NEW k \in Keys, Expire(k) PROVE Fresh' /\ Unseen
    BY <1>4, <1>5 DEF Expire, LeaseExpires
  <1>6. CASE UNCHANGED vars
    BY <1>4, <1>6 DEF vars, guardVars
  <1>. QED
    BY <1>1, <1>2, <1>3, <1>5, <1>6 DEF Next, Finished

LEMMA NextSerialInv ==
    ASSUME Serial, SerialInv, [Next]_vars
    PROVE  SerialInv'
  <1>1. Fresh'
    BY NextSerial
  <1>2. TypeInv' /\ FiredHoldsLock' /\ Records'
    BY NextTypeInv, NextFiredHoldsLock, NextRecords DEF SerialInv
  <1>3. \A c \in Calls : pc'[c] # "off" => client'[c] = "fired"
    BY AttendedStep DEF SerialInv, Serial, NoOrphans, Attended
  <1>. QED
    BY <1>1, <1>2, <1>3 DEF SerialInv, Fresh

\* At the start nothing runs, and the ledger shows the inventory table.
LEMMA InitSerial ==
    ASSUME Serial, Init
    PROVE  SerialInv /\ Ledger!LedgerInit
  <1>1. \A c \in Calls : pc[c] = "off" /\ client[c] = "idle"
    BY DEF Init, GuardInit
  <1>2. TypeInv /\ Records /\ FiredHoldsLock
    BY <1>1, InitTypeInv, InitRecords DEF FiredHoldsLock
  <1>3. ReservationsFit
    BY DEF Init, ReservationsFit, Serial, OrdersFit
  <1>4. \A c \in Calls : ReadIsFresh(c)
    BY <1>1 DEF ReadIsFresh
  <1>5. LedgerStock = InitialStock
    <2>1. \A i \in Items : LedgerStock[i] = InitialStock[i]
      BY <1>1, LedgerShowsRow DEF Init
    <2>2. LedgerStock = [i \in Items |-> LedgerStock[i]]
      BY DEF LedgerStock
    <2>. QED
      BY <2>1, <2>2, StockAssumption
  <1>6. Ledger!LedgerInit
    BY <1>5 DEF Init, Ledger!LedgerInit
  <1>. QED
    BY <1>1, <1>2, <1>3, <1>4, <1>6 DEF SerialInv

\* Where nothing but Redis fails, a row is served under one lock and every order is for
\* one quantity of one row, the five round trips of a body, however they interleave with
\* those of other calls, are one indivisible operation of the ledger.
THEOREM ImplementsCorrect ==
    ASSUME Serial
    PROVE  Spec => ImplementsLedger
  <1>1. Init => SerialInv /\ Ledger!LedgerInit
    BY InitSerial
  <1>2. SerialInv /\ [Next]_vars => SerialInv'
    BY NextSerialInv
  <1>3. SerialInv /\ [Next]_vars => [Ledger!LedgerNext]_(Ledger!ledgerVars)
    BY NextSerial, SaveIsLedgerStep DEF Unseen, Ledger!ledgerVars
  <1>. QED
    BY <1>1, <1>2, <1>3, PTL DEF Spec, ImplementsLedger, Ledger!LedgerSpec

-----------------------------------------------------------------------------
(* The units the reservations hold.                                        *)

\* The reservations made before the start are finitely many, and each row's reserved
\* counter is that of its active ones.
PriorIsBacked ==
    /\ IsFiniteSet(DOMAIN Prior)
    /\ \A i \in Items : InitialStock[i] # None =>
        InitialStock[i].reserved =
            SumFunction([id \in {p \in DOMAIN Prior : /\ Prior[p].status = "ACTIVE"
                                                      /\ Prior[p].item = i}
                            |-> Prior[id].qty])

\* The ledger's counters and its holds agree at every moment.
Backed ==
    /\ \A i \in Items : IsFiniteSet(HeldIds(i))
    /\ \A i \in Items : LedgerStock[i] # None => LedgerStock[i].reserved = Held(i)

\* A row whose reservations stay holds what it held.
LEMMA HeldStays ==
    ASSUME NEW i, HeldIds(i)' = HeldIds(i), \A id \in HeldIds(i) : resv'[id] = resv[id]
    PROVE  Held(i)' = Held(i)
  <1>1. [id \in HeldIds(i)' |-> resv'[id].qty] = [id \in HeldIds(i) |-> resv[id].qty]
    OBVIOUS
  <1>. QED
    BY <1>1 DEF Held

\* A reservation that is new among the active ones adds its units.
LEMMA HeldGrows ==
    ASSUME NEW i, NEW id \in Ids, id \notin HeldIds(i), HeldIds(i)' = HeldIds(i) \cup {id},
           IsFiniteSet(HeldIds(i)), \A h \in HeldIds(i) : resv[h].qty \in Int,
           \A h \in HeldIds(i) : resv'[h] = resv[h], resv'[id].qty \in Int
    PROVE  Held(i)' = Held(i) + resv'[id].qty
  <1> DEFINE f == [h \in HeldIds(i) |-> resv[h].qty]
             g == [h \in HeldIds(i)' |-> resv'[h].qty]
  <1>1. /\ DOMAIN f = HeldIds(i) /\ DOMAIN g = DOMAIN f \cup {id}
        /\ \A h \in DOMAIN f : f[h] \in Int /\ f[h] = g[h]
        /\ g[id] = resv'[id].qty
    OBVIOUS
  <1>2. Held(i) = SumFunction(f) /\ Held(i)' = SumFunction(g)
    BY DEF Held
  <1> HIDE DEF f, g
  <1>. QED
    BY <1>1, <1>2, SumGrows

\* One that is no longer active takes its units with it.
LEMMA HeldShrinks ==
    ASSUME NEW i, NEW id \in HeldIds(i), HeldIds(i)' = HeldIds(i) \ {id},
           IsFiniteSet(HeldIds(i)), \A h \in HeldIds(i) : resv[h].qty \in Int,
           \A h \in HeldIds(i) \ {id} : resv'[h] = resv[h]
    PROVE  Held(i)' = Held(i) - resv[id].qty
  <1> DEFINE f == [h \in HeldIds(i)' |-> resv'[h].qty]
             g == [h \in HeldIds(i) |-> resv[h].qty]
  <1>1. /\ DOMAIN f = HeldIds(i) \ {id} /\ DOMAIN g = DOMAIN f \cup {id} /\ id \notin DOMAIN f
        /\ \A h \in DOMAIN f : f[h] \in Int /\ f[h] = g[h]
        /\ g[id] = resv[id].qty /\ g[id] \in Int
    OBVIOUS
  <1>2. Held(i)' = SumFunction(f) /\ Held(i) = SumFunction(g)
    BY DEF Held
  <1>3. IsFiniteSet(DOMAIN f)
    BY <1>1, FS_Subset
  <1> HIDE DEF f, g
  <1>4. SumFunction(g) = SumFunction(f) + g[id] /\ SumFunction(f) \in Int
    BY <1>1, <1>3, SumGrows, SumFunctionType
  <1>. QED
    BY <1>1, <1>2, <1>4

\* The first save changes the counter by the units it takes hold of or lets go.
LEMMA SaveBacked ==
    ASSUME Serial, SerialInv, Backed, NEW c \in Calls, SaveReservation(c)
    PROVE  Backed'
  <1>0. TypeInv /\ pc[c] = "saveReservation" /\ ReadIsFresh(c) /\ BodyShape(c)
    BY DEF SerialInv, SaveReservation, TypeInv, Shape
  <1>1. PICK r \in Requests : r = request[c]
    BY <1>0, RunningBody
  <1>2. PICK f \in Ids : f = found[c]
    BY <1>0, FoundFits
  <1>3. r.item \in Items /\ r.qty \in Int /\ r.op \in {"reserve", "release", "confirm"}
    BY RequestsAssumption DEF RequestType, Ops
  <1>4. /\ r.op = "reserve" => resv[f] = None
        /\ r.op # "reserve" =>
             /\ resv[f] \in Reservation /\ resv[f] # None /\ resv[f].status = "ACTIVE"
             /\ resv[f].item = r.item /\ resv[f].qty = r.qty
    BY <1>0, <1>1, <1>2, FoundFits
  <1>5. PICK item \in InventoryItem : item = inventory[r.item]
    BY <1>0, <1>1, <1>3 DEF BodyShape, AfterRead, AfterFind, TypeInv, TypeOK
  <1>6. /\ LedgerStock[r.item] = item
        /\ LedgerStock'[r.item] = Applied(r.op, item, r.qty)
        /\ \A i \in Items \ {r.item} : LedgerStock'[i] = LedgerStock[i]
    <2>1. /\ LedgerStock[r.item] = item
          /\ LedgerStock' = [LedgerStock EXCEPT ![r.item] = Applied(r.op, item, r.qty)]
      BY <1>1, <1>5, SaveShowsObject
    <2>2. DOMAIN LedgerStock = Items
      BY DEF LedgerStock
    <2>. QED
      BY <1>3, <2>1, <2>2
  <1>7. /\ resv'[f] = SavedReservation(c)
        /\ \A id \in Ids \ {f} : resv'[id] = resv[id]
    BY <1>0, <1>2 DEF SaveReservation, TypeInv, TypeOK
  <1>8. /\ r.op = "reserve" =>
             resv'[f] = [item |-> r.item, qty |-> r.qty, orderRef |-> r.orderRef,
                         status |-> "ACTIVE"]
        /\ r.op = "release" => resv'[f] = [resv[f] EXCEPT !.status = "CANCELLED"]
        /\ r.op = "confirm" => resv'[f] = [resv[f] EXCEPT !.status = "COMMITTED"]
    BY <1>1, <1>2, <1>7 DEF SavedReservation
  <1>9. ASSUME NEW i \in Items, NEW h \in HeldIds(i) PROVE h \in Ids /\ resv[h].qty \in Int
    BY <1>0 DEF HeldIds, TypeInv, TypeOK, Reservation
  <1>10. item # None /\ item.reserved \in Int /\ item.reserved = Held(r.item)
    BY <1>3, <1>6, ItemCounters, NullAssumption DEF Backed
  <1>11. ASSUME NEW i \in Items \ {r.item}
         PROVE  /\ IsFiniteSet(HeldIds(i)')
                /\ LedgerStock'[i] # None => LedgerStock'[i].reserved = Held(i)'
    <2>1. f \notin HeldIds(i)
      BY <1>4, <1>11 DEF HeldIds
    <2>2. resv'[f].item = r.item
      BY <1>3, <1>4, <1>8 DEF Reservation
    <2>3. HeldIds(i)' = HeldIds(i)
      BY <1>7, <1>11, <2>1, <2>2 DEF HeldIds
    <2>4. \A id \in HeldIds(i) : resv'[id] = resv[id]
      BY <1>7, <1>9, <2>1
    <2>. QED
      BY <1>6, <2>3, <2>4, HeldStays DEF Backed
  <1>12. /\ IsFiniteSet(HeldIds(r.item)')
         /\ LedgerStock'[r.item].reserved = Held(r.item)'
    <2>1. IsFiniteSet(HeldIds(r.item)) /\ \A h \in HeldIds(r.item) : resv[h].qty \in Int
      BY <1>3, <1>9 DEF Backed
    <2>2. CASE r.op = "reserve"
      <3>1. f \notin HeldIds(r.item)
        BY <1>4, <2>2 DEF HeldIds
      <3>2. /\ resv'[f] # None /\ resv'[f].status = "ACTIVE" /\ resv'[f].item = r.item
            /\ resv'[f].qty = r.qty
        <4>1. resv'[f] \in Reservation
          BY <1>3, <1>8, <2>2, RequestsAssumption DEF Reservation, RequestType, Statuses
        <4>. QED
          BY <1>8, <2>2, <4>1, NullAssumption
      <3>3. HeldIds(r.item)' = HeldIds(r.item) \cup {f}
        BY <1>7, <3>2 DEF HeldIds
      <3>4. \A h \in HeldIds(r.item) : resv'[h] = resv[h]
        BY <1>3, <1>7, <1>9, <3>1
      <3>5. Held(r.item)' = Held(r.item) + r.qty
        BY <1>3, <2>1, <3>1, <3>2, <3>3, <3>4, HeldGrows
      <3>6. Moved(item, ReserveStock(item, r.qty), 0, -r.qty, r.qty, 0, 0)
        BY <1>3, ReserveStockMoves
      <3>7. ReserveStock(item, r.qty).reserved = item.reserved + r.qty
        BY <3>6 DEF Moved
      <3>8. IsFiniteSet(HeldIds(r.item)')
        BY <2>1, <3>3, FS_AddElement
      <3>. QED
        BY <1>6, <1>10, <2>2, <3>5, <3>7, <3>8 DEF Applied
    <2>3. CASE r.op # "reserve"
      <3>1. f \in HeldIds(r.item)
        BY <1>4, <2>3 DEF HeldIds
      <3>2. resv'[f].status # "ACTIVE"
        BY <1>3, <1>4, <1>8, <2>3 DEF Reservation
      <3>3. HeldIds(r.item)' = HeldIds(r.item) \ {f}
        BY <1>7, <3>2 DEF HeldIds
      <3>4. \A h \in HeldIds(r.item) \ {f} : resv'[h] = resv[h]
        BY <1>3, <1>7, <1>9
      <3>5. Held(r.item)' = Held(r.item) - r.qty
        BY <1>3, <1>4, <2>1, <2>3, <3>1, <3>3, <3>4, HeldShrinks
      <3>6. /\ Moved(item, ReleaseStock(item, r.qty), 0, r.qty, -r.qty, 0, 0)
            /\ Moved(item, ConfirmSale(item, r.qty), -r.qty, 0, -r.qty, r.qty, 0)
        BY <1>3, ReleaseStockMoves, ConfirmSaleMoves
      <3>7. /\ ReleaseStock(item, r.qty).reserved = item.reserved - r.qty
            /\ ConfirmSale(item, r.qty).reserved = item.reserved - r.qty
        BY <1>3, <1>10, <3>6 DEF Moved
      <3>8. IsFiniteSet(HeldIds(r.item)')
        BY <2>1, <3>3, FS_Subset
      <3>9. Applied(r.op, item, r.qty).reserved = item.reserved - r.qty
        BY <1>3, <2>3, <3>7 DEF Applied
      <3>. QED
        BY <1>6, <1>10, <3>5, <3>8, <3>9
    <2>. QED
      BY <2>2, <2>3
  <1>. QED
    BY <1>11, <1>12 DEF Backed

LEMMA InitBacked ==
    ASSUME Serial, PriorIsBacked, Init
    PROVE  Backed
  <1>1. LedgerStock = InitialStock
    BY InitSerial DEF Ledger!LedgerInit
  <1>2. ASSUME NEW i \in Items
        PROVE  /\ HeldIds(i) = {p \in DOMAIN Prior : Prior[p].status = "ACTIVE"
                                                     /\ Prior[p].item = i}
               /\ \A id \in HeldIds(i) : resv[id] = Prior[id]
    <2>1. \A id \in Ids : resv[id] = IF id \in DOMAIN Prior THEN Prior[id] ELSE None
      BY DEF Init
    <2>2. \A id \in DOMAIN Prior : id \in Ids /\ Prior[id] # None
      BY PriorAssumption, NullAssumption DEF Ids
    <2>. QED
      BY <2>1, <2>2 DEF HeldIds
  <1>3. ASSUME NEW i \in Items PROVE IsFiniteSet(HeldIds(i))
    BY <1>2, FS_Subset DEF PriorIsBacked
  <1>4. ASSUME NEW i \in Items
        PROVE  [id \in HeldIds(i) |-> resv[id].qty] =
                [id \in {p \in DOMAIN Prior : Prior[p].status = "ACTIVE" /\ Prior[p].item = i}
                    |-> Prior[id].qty]
    BY <1>2
  <1>. QED
    BY <1>1, <1>3, <1>4 DEF Backed, Held, PriorIsBacked

\* There the reserved counter of a row is, between the saves, the sum of its active
\* reservations, if it was so at the start.
THEOREM BackedCorrect ==
    ASSUME Serial, PriorIsBacked
    PROVE  Spec => []ReservedIsBacked
  <1>1. Init => SerialInv /\ Backed
    BY InitSerial, InitBacked
  <1>2. SerialInv /\ Backed /\ [Next]_vars => (SerialInv /\ Backed)'
    <2> SUFFICES ASSUME SerialInv, Backed, [Next]_vars PROVE (SerialInv /\ Backed)'
      OBVIOUS
    <2>1. SerialInv'
      BY NextSerialInv
    <2>2. CASE Unseen
      <3>1. ASSUME NEW i \in Items PROVE HeldIds(i)' = HeldIds(i) /\ Held(i)' = Held(i)
        BY <2>2 DEF Unseen, HeldIds, Held
      <3>. QED
        BY <2>1, <2>2, <3>1 DEF Unseen, Backed
    <2>. QED
      BY <2>1, <2>2, NextSerial, SaveBacked
  <1>3. Backed => ReservedIsBacked
    BY DEF Backed, ReservedIsBacked, LedgerStock
  <1>. QED
    BY <1>1, <1>2, <1>3, PTL DEF Spec
=============================================================================
