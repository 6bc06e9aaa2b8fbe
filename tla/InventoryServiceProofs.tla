----------------------- MODULE InventoryServiceProofs -----------------------
(***************************************************************************)
(* Proofs about InventoryService for any number of calls, readers and      *)
(* attempts: its types, and that no adjustment stores an unsound row.      *)
(* Shape adds to the two what a body that has reached a step can rely on:  *)
(* its request was checked, and the object it is about to save is sound.   *)
(***************************************************************************)
EXTENDS InventoryService, InventoryItemProofs, FiniteSetTheorems

Sound(item) == NonNegative(item) /\ ShelfBalanced(item)

Object == [id : RowIds, item : InventoryItem]

BodyShape(c) ==
    /\ client[c] = "idle" => pc[c] = "off"
    /\ client[c] # "idle" => request[c] \in Requests
    /\ pc[c] # "off" => attempt[c] \in 1..MaxAttempts
    /\ pc[c] = "backoff" => attempt[c] < MaxAttempts
    /\ pc[c] = "readInventory" => (request[c].op = "restock" => request[c].qty > 0)
    /\ pc[c] \in {"save", "commit"} => object[c] \in Object /\ Sound(object[c].item)

Shape == \A c \in Calls : BodyShape(c)

ServiceInv == TypeOK /\ Shape /\ RowsSound

\* The program starts without bodies, on a sound row or none.
LEMMA InitServiceInv == Init => ServiceInv
  <1> SUFFICES ASSUME Init PROVE ServiceInv
    OBVIOUS
  <1>1. PICK item \in InitialItems : rows = [r \in RowIds |-> IF r = OldRow THEN item ELSE None]
    BY DEF Init
  <1>2. item = None \/ (item \in InventoryItem /\ Sound(item))
    BY InitialItemsAssumption DEF Sound
  <1>3. rows \in [RowIds -> InventoryItem \cup {None}]
    BY <1>1, <1>2
  <1>4. TypeOK
    BY <1>3, AttemptsAssumption DEF Init, GuardInit, TypeOK, ClientStates, Answers
  <1>5. Shape
    BY DEF Init, GuardInit, Shape, BodyShape
  <1>6. RowsSound
    BY <1>1, <1>2 DEF RowsSound, Visible, Sound
  <1>. QED
    BY <1>4, <1>5, <1>6 DEF ServiceInv

\* Nothing that leaves the rows alone can make them unsound.
LEMMA RowsSoundKept ==
    ASSUME RowsSound, rows' = rows
    PROVE  RowsSound'
  BY DEF RowsSound, Visible, NonNegative, CountersNonNegative, ShelfBalanced

-----------------------------------------------------------------------------
(* The callers, the decorators and the readers.                            *)

\* A call comes with one of the requests.
LEMMA CallServiceInv ==
    ASSUME ServiceInv, NEW c \in Calls, Call(c)
    PROVE  ServiceInv'
  <1>1. TypeOK'
    BY DEF ServiceInv, TypeOK, Call, Invoke, tables, cacheVars, ClientStates
  <1>2. Shape'
    BY DEF ServiceInv, TypeOK, Shape, BodyShape, Call, Invoke, tables, cacheVars, Object,
           Sound, NonNegative, CountersNonNegative, ShelfBalanced
  <1>3. RowsSound'
    BY RowsSoundKept DEF ServiceInv, Call, tables
  <1>. QED
    BY <1>1, <1>2, <1>3 DEF ServiceInv

\* The decorators only start and stop bodies.
LEMMA GuardServiceInv ==
    ASSUME ServiceInv, NEW c \in Calls, Guard(c)
    PROVE  ServiceInv'
  <1>0. Key(c) \in Keys
    BY InventoryKeysAssumption DEF Key
  <1>1. TypeOK'
    BY <1>0, AttemptsAssumption
       DEF ServiceInv, TypeOK, Guard, AcquireAndFire, AcquireAndReject, NotLocked,
           WaitTimeout, AcquireFails, Timeout, Release, ReleaseFails, Crash, tables,
           cacheVars, ClientStates, Answers, DbSteps
  <1>2. ASSUME NEW d \in Calls PROVE BodyShape(d)'
    <2>1. BodyShape(d)
      BY DEF ServiceInv, Shape
    <2>2. request' = request /\ object' = object
      BY DEF Guard
    <2>3. /\ client'[d] = "idle" <=> client[d] = "idle"
          /\ \/ pc'[d] = pc[d] /\ attempt'[d] = attempt[d]
             \/ pc'[d] = "start" /\ attempt'[d] = 1 /\ client[d] # "idle"
             \/ pc'[d] = "off"
      BY DEF ServiceInv, TypeOK, Guard, AcquireAndFire, AcquireAndReject, NotLocked,
             WaitTimeout, AcquireFails, Timeout, Release, ReleaseFails, Crash
    <2>. QED
      BY <2>1, <2>2, <2>3, AttemptsAssumption
         DEF BodyShape, Object, Sound, NonNegative, CountersNonNegative, ShelfBalanced
  <1>3. RowsSound'
    BY RowsSoundKept DEF ServiceInv, Guard, tables
  <1>. QED
    BY <1>1, <1>2, <1>3 DEF ServiceInv, Shape

\* The next attempt starts over.
LEMMA RetryServiceInv ==
    ASSUME ServiceInv, NEW c \in Calls, RetryBody(c)
    PROVE  ServiceInv'
  <1>1. BodyShape(c)
    BY DEF ServiceInv, Shape
  <1>2. TypeOK'
    BY <1>1, AttemptsAssumption
       DEF ServiceInv, TypeOK, BodyShape, RetryBody, Retry, Goto, DbSteps, tables, cacheVars
  <1>3. ASSUME NEW d \in Calls PROVE BodyShape(d)'
    <2>1. BodyShape(d)
      BY DEF ServiceInv, Shape
    <2>2. request' = request /\ object' = object /\ client' = client
      BY DEF RetryBody, Retry
    <2>3. \/ pc'[d] = pc[d] /\ attempt'[d] = attempt[d]
          \/ pc[d] = "backoff" /\ pc'[d] = "start" /\ attempt'[d] = attempt[d] + 1
      BY DEF ServiceInv, TypeOK, RetryBody, Retry, Goto
    <2>. QED
      BY <2>1, <2>2, <2>3, AttemptsAssumption
         DEF BodyShape, Object, Sound, NonNegative, CountersNonNegative, ShelfBalanced
  <1>4. RowsSound'
    BY RowsSoundKept DEF ServiceInv, RetryBody, tables
  <1>. QED
    BY <1>2, <1>3, <1>4 DEF ServiceInv, Shape

\* What happens to locks that run out, to the cache and to its readers touches no body
\* and no row.
LEMMA RedisServiceInv ==
    ASSUME ServiceInv,
           \/ \E k \in Keys : Expire(k)
           \/ \E r \in Readers : Read(r)
           \/ \E id \in invalidations : Invalidate(id)
           \/ CacheExpires
           \/ UNCHANGED vars
    PROVE  ServiceInv'
  <1>1. TypeOK'
    BY DEF ServiceInv, TypeOK, Expire, LeaseExpires, Read, CacheMiss, Fetch, Fill, Invalidate,
           CacheExpires, Visible, tables, cacheVars, guardVars, vars
  <1>2. UNCHANGED <<client, pc, attempt, request, object, rows>>
    BY DEF Expire, LeaseExpires, Read, CacheMiss, Fetch, Fill, Invalidate, CacheExpires,
           tables, guardVars, vars
  <1>3. Shape'
    BY <1>2 DEF ServiceInv, Shape, BodyShape, Object, Sound, NonNegative, CountersNonNegative,
                ShelfBalanced
  <1>4. RowsSound'
    BY <1>2, RowsSoundKept DEF ServiceInv
  <1>. QED
    BY <1>1, <1>3, <1>4 DEF ServiceInv

-----------------------------------------------------------------------------
(* The steps of a body.                                                    *)

\* The part of TypeOK a step of a body can change.
BodyTypes ==
    /\ client \in [Calls -> ClientStates]
    /\ answer \in [Calls -> Answers]
    /\ pc \in [Calls -> DbSteps \cup {"backoff", "off"}]
    /\ rows \in [RowIds -> InventoryItem \cup {None}]
    /\ ledger \subseteq FreshIds
    /\ object \in [Calls -> [id : RowIds, item : InventoryItem] \cup {None}]
    /\ invalidations \subseteq FreshIds

\* What a step of c leaves to the other calls and to the readers.
OthersKept(c) ==
    /\ UNCHANGED <<lock, attempt, request, subscribed, cache, reader, copy>>
    /\ \A d \in Calls : client'[d] = "idle" <=> client[d] = "idle"
    /\ \A d \in Calls \ {c} : pc'[d] = pc[d] /\ object'[d] = object[d]

\* A body's step keeps the invariant if it keeps the types, its own shape and the rows.
LEMMA BodyStepKeepsInv ==
    ASSUME ServiceInv, NEW c \in Calls, BodyTypes', OthersKept(c), BodyShape(c)', RowsSound'
    PROVE  ServiceInv'
  <1>1. TypeOK'
    BY DEF ServiceInv, TypeOK, BodyTypes, OthersKept
  <1>2. ASSUME NEW d \in Calls \ {c} PROVE BodyShape(d)'
    <2>1. BodyShape(d)
      BY DEF ServiceInv, Shape
    <2>. QED
      BY <2>1 DEF OthersKept, BodyShape, Object, Sound, NonNegative, CountersNonNegative,
                  ShelfBalanced
  <1>3. Shape'
    BY <1>2 DEF Shape
  <1>. QED
    BY <1>1, <1>3 DEF ServiceInv

\* What is known of a body at one of its steps.
LEMMA RunningBody ==
    ASSUME ServiceInv, NEW c \in Calls, pc[c] # "off"
    PROVE  /\ client[c] # "idle"
           /\ request[c] \in WriteRequest
           /\ request[c] \in Requests
           /\ attempt[c] \in 1..MaxAttempts
           /\ <<c, attempt[c]>> \in FreshIds
           /\ BodyShape(c)
  BY WriteRequestsAssumption DEF ServiceInv, Shape, BodyShape, FreshIds

\* How an attempt ends: the guard's variables keep their types, and nobody else's move.
LEMMA BodyEnds ==
    ASSUME ServiceInv, NEW c \in Calls, pc[c] # "off", BodyThrows(c) \/ BodyReturns(c)
    PROVE  /\ client' \in [Calls -> ClientStates]
           /\ answer' \in [Calls -> Answers]
           /\ pc' \in [Calls -> DbSteps \cup {"backoff", "off"}]
           /\ UNCHANGED <<lock, attempt>>
           /\ \A d \in Calls : client'[d] = "idle" <=> client[d] = "idle"
           /\ \A d \in Calls \ {c} : pc'[d] = pc[d]
           /\ pc'[c] \in {"off", "backoff"}
           /\ pc'[c] = "backoff" => attempt[c] < MaxAttempts
  BY RunningBody, AttemptsAssumption
     DEF ServiceInv, TypeOK, BodyThrows, BodyReturns, BodyContinues, Goto, Settle, ClientStates,
         Answers, DbSteps

\* A body that goes on moves nothing but its own pc.
LEMMA BodyGoesOn ==
    ASSUME ServiceInv, NEW c \in Calls, NEW step \in DbSteps, BodyContinues(c, step)
    PROVE  /\ client' \in [Calls -> ClientStates]
           /\ answer' \in [Calls -> Answers]
           /\ pc' \in [Calls -> DbSteps \cup {"backoff", "off"}]
           /\ UNCHANGED <<client, lock, attempt>>
           /\ \A d \in Calls \ {c} : pc'[d] = pc[d]
           /\ pc'[c] = step
  BY DEF ServiceInv, TypeOK, BodyContinues, Goto

\* An attempt that throws is rolled back.
LEMMA RefuseServiceInv ==
    ASSUME ServiceInv, NEW c \in Calls, pc[c] # "off", Refuse(c)
    PROVE  ServiceInv'
  <1>1. BodyThrows(c) /\ UNCHANGED <<request, tables, object, cacheVars>>
    BY DEF Refuse
  <1>2. /\ client' \in [Calls -> ClientStates]
        /\ answer' \in [Calls -> Answers]
        /\ pc' \in [Calls -> DbSteps \cup {"backoff", "off"}]
        /\ UNCHANGED <<lock, attempt>>
        /\ \A d \in Calls : client'[d] = "idle" <=> client[d] = "idle"
        /\ \A d \in Calls \ {c} : pc'[d] = pc[d]
        /\ pc'[c] \in {"off", "backoff"}
        /\ pc'[c] = "backoff" => attempt[c] < MaxAttempts
    BY <1>1, BodyEnds
  <1>3. BodyTypes'
    BY <1>1, <1>2 DEF ServiceInv, TypeOK, BodyTypes, tables, cacheVars
  <1>4. OthersKept(c)
    BY <1>1, <1>2 DEF OthersKept, cacheVars
  <1>5. BodyShape(c)'
    BY <1>1, <1>2, RunningBody DEF BodyShape
  <1>6. RowsSound'
    BY <1>1, RowsSoundKept DEF ServiceInv, tables
  <1>. QED
    BY <1>3, <1>4, <1>5, <1>6, BodyStepKeepsInv

\* A body that gets past its first checks does not restock zero units or fewer.
LEMMA ValidateServiceInv ==
    ASSUME ServiceInv, NEW c \in Calls, Validate(c)
    PROVE  ServiceInv'
  <1>0. pc[c] # "off"
    BY DEF Validate
  <1>1. CASE Refuse(c)
    BY <1>0, <1>1, RefuseServiceInv
  <1>2. CASE ~Refuse(c)
    <2>1. /\ ~(request[c].op = "restock" /\ request[c].qty <= 0)
          /\ BodyContinues(c, "readInventory")
          /\ UNCHANGED <<request, tables, object, cacheVars>>
      BY <1>2 DEF Validate
    <2>2. /\ client' \in [Calls -> ClientStates]
          /\ answer' \in [Calls -> Answers]
          /\ pc' \in [Calls -> DbSteps \cup {"backoff", "off"}]
          /\ UNCHANGED <<client, lock, attempt>>
          /\ \A d \in Calls \ {c} : pc'[d] = pc[d]
          /\ pc'[c] = "readInventory"
      BY <2>1, BodyGoesOn DEF DbSteps
    <2>3. BodyTypes'
      BY <2>1, <2>2 DEF ServiceInv, TypeOK, BodyTypes, tables, cacheVars
    <2>4. OthersKept(c)
      BY <2>1, <2>2 DEF OthersKept, cacheVars
    <2>5. request[c].op = "restock" => request[c].qty > 0
      <3>1. request[c].qty \in Int
        BY <1>0, RunningBody DEF WriteRequest
      <3>. QED
        BY <2>1, <3>1
    <2>6. BodyShape(c)'
      <3>1. client[c] # "idle" /\ request[c] \in Requests /\ attempt[c] \in 1..MaxAttempts
        BY <1>0, RunningBody
      <3>. QED
        BY <2>1, <2>2, <2>5, <3>1 DEF BodyShape
    <2>7. RowsSound'
      BY <2>1, RowsSoundKept DEF ServiceInv, tables
    <2>. QED
      BY <2>3, <2>4, <2>6, <2>7, BodyStepKeepsInv
  <1>. QED
    BY <1>1, <1>2

\* A change that passed its checks leaves a sound item sound: a correction downwards is
\* bounded by what is available, one upwards and a restock add to both sides.
LEMMA AppliedSound ==
    ASSUME NEW op \in {"adjust", "restock"}, NEW qty \in Int,
           NEW item \in InventoryItem, Sound(item),
           op = "restock" => qty > 0,
           Allowed(op, item, qty)
    PROVE  Applied(op, item, qty) \in InventoryItem /\ Sound(Applied(op, item, qty))
  <1> DEFINE new == Applied(op, item, qty)
  <1>1. Moved(item, new, qty, qty, 0, 0, 0)
    BY AddStockMoves, AdjustStockMoves DEF Applied
  <1>2. item.onHand + qty >= 0 /\ item.available + qty >= 0
    BY ItemCounters DEF Allowed, CanAdjust, Sound, NonNegative, CountersNonNegative,
                        ShelfBalanced
  <1> HIDE DEF new
  <1>3. new \in InventoryItem /\ Sound(new)
    BY <1>1, <1>2, ItemCounters
       DEF Moved, Sound, NonNegative, CountersNonNegative, ShelfBalanced
  <1>. QED
    BY <1>3 DEF new

\* What the body finds, or makes, is sound.
LEMMA FoundSound ==
    ASSUME ServiceInv, NEW c \in Calls, pc[c] # "off", NEW f \in Found(c)
    PROVE  f \in Object /\ Sound(f.item)
  <1>1. CASE Visible = {}
    <2>1. f = [id |-> <<c, attempt[c]>>, item |-> EmptyItem]
      BY <1>1 DEF Found
    <2>2. <<c, attempt[c]>> \in RowIds
      BY RunningBody DEF RowIds
    <2>3. EmptyItem \in InventoryItem /\ Sound(EmptyItem)
      BY DEF EmptyItem, InventoryItem, Sound, NonNegative, CountersNonNegative, ShelfBalanced
    <2>. QED
      BY <2>1, <2>2, <2>3 DEF Object
  <1>2. CASE Visible # {}
    <2>1. PICK r \in Visible : f = [id |-> r, item |-> rows[r]]
      BY <1>2 DEF Found
    <2>2. r \in RowIds /\ rows[r] \in InventoryItem /\ Sound(rows[r])
      BY DEF ServiceInv, TypeOK, RowsSound, Visible, Sound
    <2>. QED
      BY <2>1, <2>2 DEF Object
  <1>. QED
    BY <1>1, <1>2

\* The object a body goes on with is sound.
LEMMA ReadInventoryServiceInv ==
    ASSUME ServiceInv, NEW c \in Calls, ReadInventory(c)
    PROVE  ServiceInv'
  <1>0. pc[c] # "off" /\ pc[c] = "readInventory"
    BY DEF ReadInventory
  <1>1. CASE Refuse(c)
    BY <1>0, <1>1, RefuseServiceInv
  <1>2. CASE ~Refuse(c)
    <2> DEFINE op == request[c].op
    <2> DEFINE qty == request[c].qty
    <2>1. PICK f \in Found(c) :
            /\ Allowed(op, f.item, qty)
            /\ object' = [object EXCEPT ![c] = [f EXCEPT !.item = Applied(op, @, qty)]]
            /\ BodyContinues(c, "save")
            /\ UNCHANGED <<request, tables, cacheVars>>
      BY <1>2 DEF ReadInventory
    <2>2. /\ client' \in [Calls -> ClientStates]
          /\ answer' \in [Calls -> Answers]
          /\ pc' \in [Calls -> DbSteps \cup {"backoff", "off"}]
          /\ UNCHANGED <<client, lock, attempt>>
          /\ \A d \in Calls \ {c} : pc'[d] = pc[d]
          /\ pc'[c] = "save"
      BY <2>1, BodyGoesOn DEF DbSteps
    <2>3. f \in Object /\ Sound(f.item)
      BY <1>0, FoundSound
    <2>4. op \in {"adjust", "restock"} /\ qty \in Int /\ (op = "restock" => qty > 0)
      BY <1>0, RunningBody DEF WriteRequest, BodyShape
    <2> DEFINE new == Applied(op, f.item, qty)
    <2>5. new \in InventoryItem /\ Sound(new)
      <3>1. f.item \in InventoryItem
        BY <2>3 DEF Object
      <3> HIDE DEF op, qty
      <3>. QED
        BY <2>1, <2>3, <2>4, <3>1, AppliedSound
    <2> DEFINE obj == [f EXCEPT !.item = new]
    <2>6. obj \in Object /\ obj.item = new
      <3> HIDE DEF new
      <3>. QED
        BY <2>3, <2>5 DEF Object
    <2>7. object' = [object EXCEPT ![c] = obj]
      BY <2>1, Zenon
    <2> HIDE DEF obj, new
    <2>8. object'[c] = obj /\ \A d \in Calls \ {c} : object'[d] = object[d]
      BY <2>7 DEF ServiceInv, TypeOK
    <2>9. BodyTypes'
      <3>1. object \in [Calls -> Object \cup {None}]
        BY DEF ServiceInv, TypeOK, Object
      <3>2. object' \in [Calls -> Object \cup {None}]
        BY <2>6, <2>7, <3>1
      <3>. QED
        BY <2>1, <2>2, <3>2 DEF ServiceInv, TypeOK, BodyTypes, Object, tables, cacheVars
    <2>10. OthersKept(c)
      BY <2>1, <2>2, <2>8 DEF OthersKept, cacheVars
    <2>11. BodyShape(c)'
      BY <1>0, <2>1, <2>2, <2>5, <2>6, <2>8, RunningBody DEF BodyShape, Object, Sound, NonNegative,
         CountersNonNegative, ShelfBalanced
    <2>12. RowsSound'
      BY <2>1, RowsSoundKept DEF ServiceInv, tables
    <2>. QED
      BY <2>9, <2>10, <2>11, <2>12, BodyStepKeepsInv
  <1>. QED
    BY <1>1, <1>2

\* The saves are not visible yet; the events carry no stock.
LEMMA SaveServiceInv ==
    ASSUME ServiceInv, NEW c \in Calls, Save(c)
    PROVE  ServiceInv'
  <1>1. /\ pc[c] = "save"
        /\ invalidations' \subseteq invalidations \cup {<<c, attempt[c]>>}
        /\ BodyContinues(c, "commit")
        /\ UNCHANGED <<request, tables, object, subscribed, cache, reader, copy>>
    BY DEF Save
  <1>2. pc[c] # "off"
    BY <1>1
  <1>3. /\ client' \in [Calls -> ClientStates]
        /\ answer' \in [Calls -> Answers]
        /\ pc' \in [Calls -> DbSteps \cup {"backoff", "off"}]
        /\ UNCHANGED <<client, lock, attempt>>
        /\ \A d \in Calls \ {c} : pc'[d] = pc[d]
        /\ pc'[c] = "commit"
    BY <1>1, BodyGoesOn DEF DbSteps
  <1>4. BodyTypes'
    BY <1>1, <1>2, <1>3, RunningBody DEF ServiceInv, TypeOK, BodyTypes, tables
  <1>5. OthersKept(c)
    BY <1>1, <1>3 DEF OthersKept
  <1>6. BodyShape(c)'
    BY <1>1, <1>2, <1>3, RunningBody DEF BodyShape, Object, Sound, NonNegative,
       CountersNonNegative, ShelfBalanced
  <1>7. RowsSound'
    BY <1>1, RowsSoundKept DEF ServiceInv, tables
  <1>. QED
    BY <1>4, <1>5, <1>6, <1>7, BodyStepKeepsInv

\* The commit stores the object, which is sound.
LEMMA CommitServiceInv ==
    ASSUME ServiceInv, NEW c \in Calls, Commit(c)
    PROVE  ServiceInv'
  <1> DEFINE obj == object[c]
  <1>1. /\ pc[c] = "commit"
        /\ rows' = [rows EXCEPT ![obj.id] = obj.item]
        /\ ledger' = ledger \cup {<<c, attempt[c]>>}
        /\ BodyReturns(c) \/ BodyThrows(c)
        /\ UNCHANGED <<request, object, cacheVars>>
    BY DEF Commit
  <1>2. pc[c] # "off" /\ obj.id \in RowIds /\ obj.item \in InventoryItem /\ Sound(obj.item)
    BY <1>1, RunningBody DEF BodyShape, Object
  <1> HIDE DEF obj
  <1>3. /\ client' \in [Calls -> ClientStates]
        /\ answer' \in [Calls -> Answers]
        /\ pc' \in [Calls -> DbSteps \cup {"backoff", "off"}]
        /\ UNCHANGED <<lock, attempt>>
        /\ \A d \in Calls : client'[d] = "idle" <=> client[d] = "idle"
        /\ \A d \in Calls \ {c} : pc'[d] = pc[d]
        /\ pc'[c] \in {"off", "backoff"}
        /\ pc'[c] = "backoff" => attempt[c] < MaxAttempts
    BY <1>1, <1>2, BodyEnds
  <1>4. BodyTypes'
    BY <1>1, <1>2, <1>3, RunningBody DEF ServiceInv, TypeOK, BodyTypes, cacheVars
  <1>5. OthersKept(c)
    BY <1>1, <1>3 DEF OthersKept, cacheVars
  <1>6. BodyShape(c)'
    BY <1>1, <1>2, <1>3, RunningBody DEF BodyShape
  <1>7. ASSUME NEW r \in RowIds, rows'[r] # None PROVE Sound(rows'[r])
    BY <1>1, <1>2, <1>7 DEF ServiceInv, TypeOK, RowsSound, Visible, Sound
  <1>8. RowsSound'
    BY <1>7 DEF RowsSound, Visible, Sound, NonNegative, CountersNonNegative, ShelfBalanced
  <1>. QED
    BY <1>4, <1>5, <1>6, <1>8, BodyStepKeepsInv

\* Every step of the program keeps the invariant.
LEMMA NextServiceInv == ServiceInv /\ [Next]_vars => ServiceInv'
  <1> SUFFICES ASSUME ServiceInv, [Next]_vars PROVE ServiceInv'
    OBVIOUS
  <1>1. ASSUME NEW c \in Calls, BodyStep(c) \/ DbFails(c) PROVE ServiceInv'
    <2>1. CASE BodyStep(c)
      BY <2>1, ValidateServiceInv, ReadInventoryServiceInv, SaveServiceInv, CommitServiceInv
         DEF BodyStep
    <2>2. CASE DbFails(c)
      <3>1. pc[c] # "off" /\ Refuse(c)
        BY <2>2 DEF DbFails, DbSteps
      <3>. QED
        BY <3>1, RefuseServiceInv
    <2>. QED
      BY <1>1, <2>1, <2>2
  <1>2. ASSUME NEW c \in Calls, Call(c) \/ Guard(c) \/ RetryBody(c) PROVE ServiceInv'
    BY <1>2, CallServiceInv, GuardServiceInv, RetryServiceInv
  <1>. QED
    BY <1>1, <1>2, RedisServiceInv DEF Next

-----------------------------------------------------------------------------
\* The rows, the ledger, the cache and the locals keep their types, and Retry never goes
\* past maxAttempts.
THEOREM TypeCorrect == Spec => []TypeOK
  <1>1. ServiceInv => TypeOK
    BY DEF ServiceInv
  <1>. QED
    BY <1>1, InitServiceInv, NextServiceInv, PTL DEF Spec

\* No sequence of adjustments and restocks, tried again, orphaned or meeting each other on
\* the same row, commits a negative counter or a shelf that does not add up.
THEOREM RowsCorrect == Spec => []RowsSound
  <1>1. ServiceInv => RowsSound
    BY DEF ServiceInv
  <1>. QED
    BY <1>1, InitServiceInv, NextServiceInv, PTL DEF Spec

-----------------------------------------------------------------------------
(* Once or not at all.  While a body runs, none of its attempts has        *)
(* committed: the one that does ends it.  An answer other than a timeout   *)
(* is given only where the body has not started or has just ended.         *)

Recorded(c) == \E n \in 1..MaxAttempts : <<c, n>> \in ledger

OnceShape(c) ==
    /\ \A n \in 1..MaxAttempts : <<c, n>> \in ledger => n = attempt[c] /\ pc[c] = "off"
    /\ client[c] \in {"idle", "waiting"} =>
           pc[c] = "off" /\ answer[c] = "none" /\ ~Recorded(c)
    /\ pc[c] # "off" => answer[c] \in {"none", "timeout"}
    /\ answer[c] = "ok" => <<c, attempt[c]>> \in ledger
    /\ answer[c] \in {"error", "rejected", "notLocked"} => ~Recorded(c)

OnceInv == \A c \in Calls : OnceShape(c)

\* OnceShape gives at most one committed attempt.
LEMMA OnceInvSuffices == ServiceInv /\ OnceInv => OnceOrNotAtAll
  <1> SUFFICES ASSUME ServiceInv, OnceInv, NEW c \in Calls
               PROVE  LET committed == {n \in 1..MaxAttempts : <<c, n>> \in ledger}
                      IN  /\ Cardinality(committed) <= 1
                          /\ answer[c] = "ok" => committed = {attempt[c]}
                          /\ answer[c] \in {"error", "rejected", "notLocked"} => committed = {}
    BY Zenon DEF OnceOrNotAtAll
  <1> DEFINE committed == {n \in 1..MaxAttempts : <<c, n>> \in ledger}
  <1>1. OnceShape(c)
    BY DEF OnceInv
  <1>2. committed \subseteq {attempt[c]}
    BY <1>1 DEF OnceShape
  <1>3. Cardinality(committed) <= 1
    <2> HIDE DEF committed
    <2>1. committed = {} \/ committed = {attempt[c]}
      BY <1>2
    <2>2. Cardinality({}) = 0 /\ Cardinality({attempt[c]}) = 1
      BY FS_EmptySet, FS_Singleton
    <2>. QED
      BY <2>1, <2>2
  <1>4. answer[c] = "ok" => committed = {attempt[c]}
    <2>1. answer[c] = "ok" => <<c, attempt[c]>> \in ledger
      BY <1>1 DEF OnceShape
    <2>2. <<c, attempt[c]>> \in FreshIds => attempt[c] \in 1..MaxAttempts
      BY DEF FreshIds
    <2>3. ledger \subseteq FreshIds
      BY DEF ServiceInv, TypeOK
    <2>. QED
      BY <1>2, <2>1, <2>2, <2>3
  <1>5. answer[c] \in {"error", "rejected", "notLocked"} => committed = {}
    BY <1>1 DEF OnceShape, Recorded
  <1>. QED
    BY <1>3, <1>4, <1>5

\* Nothing was recorded or answered before the first call.
LEMMA InitOnceInv == Init => OnceInv
  BY DEF Init, GuardInit, OnceInv, OnceShape, Recorded

\* The others' shapes depend on what a step of c leaves alone.
LEMMA OnceKept ==
    ASSUME OnceInv, NEW c \in Calls,
           \A d \in Calls \ {c} :
               /\ client'[d] = client[d] /\ answer'[d] = answer[d]
               /\ pc'[d] = pc[d] /\ attempt'[d] = attempt[d]
               /\ \A n \in 1..MaxAttempts : <<d, n>> \in ledger' => <<d, n>> \in ledger,
           ledger \subseteq ledger',
           OnceShape(c)'
    PROVE  OnceInv'
  <1>1. ASSUME NEW d \in Calls \ {c} PROVE OnceShape(d)'
    <2>1. OnceShape(d)
      BY DEF OnceInv
    <2>. QED
      BY <2>1 DEF OnceShape, Recorded
  <1>. QED
    BY <1>1 DEF OnceInv

\* A call that starts, waits, is answered, retried or cut off keeps what was recorded.
LEMMA GuardOnceInv ==
    ASSUME ServiceInv, OnceInv, NEW c \in Calls, Call(c) \/ Guard(c) \/ RetryBody(c)
    PROVE  OnceInv'
  <1> USE DEF Call, Guard, RetryBody, Invoke, AcquireAndFire, AcquireAndReject, NotLocked,
              WaitTimeout, AcquireFails, Timeout, Release, ReleaseFails, Crash, Retry, Goto
  <1>1. ledger' = ledger
    BY DEF tables
  <1>2. \A d \in Calls \ {c} :
            /\ client'[d] = client[d] /\ answer'[d] = answer[d]
            /\ pc'[d] = pc[d] /\ attempt'[d] = attempt[d]
    BY DEF ServiceInv, TypeOK
  <1>3. OnceShape(c)
    BY DEF OnceInv
  <1>4. \/ /\ client[c] = "idle" /\ client'[c] = "waiting"
           /\ answer'[c] = answer[c] /\ pc'[c] = pc[c] /\ attempt'[c] = attempt[c]
        \/ /\ client[c] = "waiting" /\ client'[c] = "fired"
           /\ answer'[c] = answer[c]
        \/ /\ client[c] = "waiting" /\ client'[c] \in {"releasing", "answered"}
           /\ answer'[c] \in {"rejected", "notLocked"} /\ pc'[c] = pc[c]
           /\ attempt'[c] = attempt[c]
        \/ /\ client[c] = "fired" /\ client'[c] = "releasing"
           /\ answer'[c] = "timeout" /\ pc'[c] = pc[c] /\ attempt'[c] = attempt[c]
        \/ /\ client'[c] \in {"answered", "crashed"} /\ answer'[c] = answer[c]
           /\ pc'[c] \in {pc[c], "off"} /\ attempt'[c] = attempt[c]
        \/ /\ client'[c] = client[c] /\ answer'[c] = answer[c]
           /\ pc[c] = "backoff" /\ pc'[c] = "start"
    BY DEF ServiceInv, TypeOK
  <1>5. OnceShape(c)'
    BY <1>1, <1>3, <1>4 DEF OnceShape, Recorded
  <1>. QED
    BY <1>1, <1>2, <1>5, OnceKept

\* What a step of a body does to the outer half.
LEMMA BodySettles ==
    ASSUME ServiceInv, NEW c \in Calls, BodyThrows(c) \/ BodyReturns(c)
    PROVE  /\ attempt' = attempt
           /\ \A d \in Calls \ {c} :
                  client'[d] = client[d] /\ answer'[d] = answer[d] /\ pc'[d] = pc[d]
           /\ pc'[c] \in {"backoff", "off"}
           /\ \/ client'[c] = client[c] /\ answer'[c] = answer[c]
              \/ /\ client'[c] = "releasing" /\ pc'[c] = "off"
                 /\ answer'[c] = "ok" /\ BodyReturns(c)
              \/ /\ client'[c] = "releasing" /\ pc'[c] = "off"
                 /\ answer'[c] = "error" /\ BodyThrows(c)
  BY DEF ServiceInv, TypeOK, BodyThrows, BodyReturns, BodyContinues, Goto, Settle

\* A body that throws has committed nothing, in this attempt or an earlier one.
LEMMA RefuseOnceInv ==
    ASSUME ServiceInv, OnceInv, NEW c \in Calls, pc[c] # "off", Refuse(c)
    PROVE  OnceInv'
  <1>1. BodyThrows(c) /\ ledger' = ledger
    BY DEF Refuse, tables
  <1>2. OnceShape(c)
    BY DEF OnceInv
  <1>3. answer'[c] # "ok"
    BY <1>1, <1>2 DEF ServiceInv, TypeOK, BodyThrows, BodyContinues, Settle, OnceShape
  <1>4. OnceShape(c)'
    BY <1>1, <1>2, <1>3, BodySettles DEF OnceShape, Recorded
  <1>. QED
    BY <1>1, <1>4, BodySettles, OnceKept

\* The attempt that commits ends the body, where COMMIT's reply arrives.
LEMMA CommitOnceInv ==
    ASSUME ServiceInv, OnceInv, NEW c \in Calls, Commit(c), "replyLost" \notin Faults
    PROVE  OnceInv'
  <1>1. /\ pc[c] = "commit"
        /\ ledger' = ledger \cup {<<c, attempt[c]>>}
        /\ BodyReturns(c)
    BY DEF Commit
  <1>2. OnceShape(c)
    BY DEF OnceInv
  <1>3. /\ pc'[c] = "off"
        /\ answer'[c] \in {"ok", answer[c]}
        /\ client'[c] \in {"releasing", client[c]}
        /\ attempt'[c] = attempt[c]
    BY <1>1 DEF ServiceInv, TypeOK, BodyReturns, Goto, Settle
  <1>4. OnceShape(c)'
    BY <1>1, <1>2, <1>3 DEF OnceShape, Recorded
  <1>5. \A d \in Calls \ {c} :
            \A n \in 1..MaxAttempts : <<d, n>> \in ledger' => <<d, n>> \in ledger
    BY <1>1
  <1>. QED
    BY <1>1, <1>4, <1>5, BodySettles, OnceKept

\* Every step keeps OnceInv.
LEMMA NextOnceInv ==
    ASSUME "replyLost" \notin Faults
    PROVE  ServiceInv /\ OnceInv /\ [Next]_vars => OnceInv'
  <1> SUFFICES ASSUME ServiceInv, OnceInv, [Next]_vars PROVE OnceInv'
    OBVIOUS
  <1>1. ASSUME NEW c \in Calls, BodyStep(c) \/ DbFails(c) PROVE OnceInv'
    <2>1. CASE Refuse(c) /\ pc[c] # "off"
      BY <2>1, RefuseOnceInv
    <2>2. CASE Commit(c)
      BY <2>2, CommitOnceInv
    <2>3. CASE \E step \in {"readInventory", "save", "commit"} :
                  pc[c] # "off" /\ BodyContinues(c, step) /\ ledger' = ledger
      <3>1. PICK step \in {"readInventory", "save", "commit"} :
                  pc[c] # "off" /\ BodyContinues(c, step) /\ ledger' = ledger
        BY <2>3
      <3>2. /\ UNCHANGED <<client, answer, attempt>>
            /\ \A d \in Calls \ {c} : pc'[d] = pc[d]
            /\ pc'[c] = step
        BY <3>1 DEF ServiceInv, TypeOK, BodyContinues, Goto
      <3>3. OnceShape(c)
        BY DEF OnceInv
      <3>4. OnceShape(c)'
        BY <3>1, <3>2, <3>3 DEF OnceShape, Recorded
      <3>. QED
        BY <3>1, <3>2, <3>4, OnceKept
    <2>. QED
      BY <1>1, <2>1, <2>2, <2>3
         DEF BodyStep, DbFails, DbSteps, Validate, ReadInventory, Save, tables
  <1>2. ASSUME NEW c \in Calls, Call(c) \/ Guard(c) \/ RetryBody(c) PROVE OnceInv'
    BY <1>2, GuardOnceInv
  <1>3. CASE UNCHANGED <<client, answer, pc, attempt, ledger>>
    BY <1>3 DEF OnceInv, OnceShape, Recorded
  <1>4. ASSUME NEW k \in Keys, Expire(k) PROVE OnceInv'
    BY <1>4, <1>3 DEF Expire, LeaseExpires, tables
  <1>5. ASSUME \/ \E r \in Readers : Read(r)
               \/ \E id \in invalidations : Invalidate(id)
               \/ CacheExpires
               \/ UNCHANGED vars
        PROVE  OnceInv'
    BY <1>5, <1>3 DEF Read, CacheMiss, Fetch, Fill, Invalidate, CacheExpires, guardVars,
                      tables, vars
  <1>. QED
    BY <1>1, <1>2, <1>4, <1>5 DEF Next

\* Where COMMIT's reply arrives, every adjustment takes effect once or not at all, and not
\* at all if its caller was told of an error, however it was retried, orphaned or crashed.
THEOREM AppliedOnce ==
    ASSUME "replyLost" \notin Faults
    PROVE  Spec => []OnceOrNotAtAll
  <1>1. ServiceInv /\ OnceInv /\ [Next]_vars => (ServiceInv /\ OnceInv)'
    BY NextServiceInv, NextOnceInv
  <1>2. Init => ServiceInv /\ OnceInv
    BY InitServiceInv, InitOnceInv
  <1>. QED
    BY <1>1, <1>2, OnceInvSuffices, PTL DEF Spec

-----------------------------------------------------------------------------
(* The ledger explains the stock.  COMMIT stores an object made earlier,   *)
(* so the sums agree only if nobody changed the row in between: of the     *)
(* bodies that have read it, one at a time holds its lock (OneHolder).     *)

\* What a row adds to the stock.
Units(r) == IF rows[r] = None THEN 0 ELSE rows[r].onHand

LedgerShape(c) ==
    /\ client[c] \in {"idle", "waiting"} =>
           pc[c] = "off" /\ \A n \in 1..MaxAttempts : <<c, n>> \notin ledger
    /\ \A n \in 1..MaxAttempts : <<c, n>> \in ledger =>
           n < attempt[c] \/ (n = attempt[c] /\ pc[c] \in {"off", "backoff"})
    /\ \A n \in 1..MaxAttempts : rows[<<c, n>>] # None => <<c, n>> \in ledger
    /\ pc[c] \in {"save", "commit"} =>
           /\ object[c].item.onHand = Units(object[c].id) + request[c].qty
           /\ rows[object[c].id] = None => object[c].id = <<c, attempt[c]>>

OneHolder == \A c, d \in Calls : HoldsRow(c) /\ HoldsRow(d) => c = d

\* The two tables are finite, and their sums agree.
Explained ==
    /\ IsFiniteSet(Visible)
    /\ IsFiniteSet(ledger)
    /\ LedgerExplainsStock

LedgerInv == (\A c \in Calls : LedgerShape(c)) /\ OneHolder /\ Explained

\* At the start there is one row or none, and no transaction.
LEMMA InitLedgerInv == Init => LedgerInv
  <1> SUFFICES ASSUME Init PROVE LedgerInv
    OBVIOUS
  <1>1. PICK item \in InitialItems : rows = [r \in RowIds |-> IF r = OldRow THEN item ELSE None]
    BY DEF Init
  <1>2. ASSUME NEW c \in Calls PROVE LedgerShape(c)
    <2>1. \A n \in 1..MaxAttempts : <<c, n>> \in RowIds /\ <<c, n>> # OldRow
      BY InventoryNoneAssumption DEF RowIds, FreshIds
    <2>. QED
      BY <1>1, <2>1 DEF Init, GuardInit, LedgerShape
  <1>3. OneHolder
    BY DEF Init, GuardInit, OneHolder, HoldsRow
  <1> DEFINE stock == [r \in Visible |-> rows[r].onHand]
             moved == [t \in ledger |-> request[t[1]].qty]
  <1>4. IsFiniteSet({}) /\ IsFiniteSet({OldRow})
    BY FS_EmptySet, FS_Singleton
  <1>5. ledger = {} /\ Visible = IF item = None THEN {} ELSE {OldRow}
    BY <1>1 DEF Init, Visible, RowIds
  <1>6. SumFunction(moved) = 0
    BY <1>4, <1>5, SumFunctionType
  <1>7. SumFunction(stock) = IF item = None THEN 0 ELSE item.onHand
    <2>1. CASE item = None
      BY <1>4, <1>5, <2>1, SumFunctionType
    <2>2. CASE item # None
      <3> DEFINE none == [r \in {} |-> 0]
      <3>1. stock[OldRow] = item.onHand /\ item.onHand \in Int
        BY <1>1, <1>5, <2>2, InitialItemsAssumption, ItemCounters DEF RowIds
      <3>2. SumFunction(none) = 0
        BY <1>4, SumFunctionType
      <3>3. DOMAIN stock = DOMAIN none \cup {OldRow} /\ DOMAIN none = {}
        BY <1>5, <2>2
      <3> HIDE DEF stock, none
      <3>4. SumFunction(stock) = SumFunction(none) + stock[OldRow]
        BY <1>4, <3>1, <3>3, SumGrows
      <3>. QED
        BY <2>2, <3>1, <3>2, <3>4
    <2>. QED
      BY <2>1, <2>2
  <1>8. LedgerExplainsStock
    <2>1. (IF item = None THEN 0 ELSE item.onHand) \in Int
      BY InitialItemsAssumption, ItemCounters
    <2> HIDE DEF stock, moved
    <2>2. SumFunction(stock) = (IF item = None THEN 0 ELSE item.onHand) + SumFunction(moved)
      BY <1>6, <1>7, <2>1
    <2>3. item = None <=> rows[OldRow] = None
      BY <1>1 DEF RowIds
    <2>. QED
      BY <2>2, <2>3 DEF LedgerExplainsStock, stock, moved
  <1>. QED
    BY <1>2, <1>3, <1>4, <1>5, <1>8 DEF LedgerInv, Explained

\* Where no table changes, and no request that was carried out, the sums stay.
LEMMA ExplainedKept ==
    ASSUME Explained, rows' = rows, ledger' = ledger,
           \A t \in ledger : request'[t[1]] = request[t[1]]
    PROVE  Explained'
  <1>1. Visible' = Visible
    BY DEF Visible
  <1>2. [r \in Visible |-> rows[r].onHand]' = [r \in Visible |-> rows[r].onHand]
    BY <1>1
  <1>3. [t \in ledger |-> request[t[1]].qty]' = [t \in ledger |-> request[t[1]].qty]
    OBVIOUS
  <1>4. LedgerExplainsStock'
    BY <1>2, <1>3 DEF Explained, LedgerExplainsStock
  <1>. QED
    BY <1>1, <1>4 DEF Explained

\* A step of c that changes no table keeps the invariant if c's own part of it holds
\* afterwards, and if c, should it now hold the row, is the only one to do so.
LEMMA LedgerKept ==
    ASSUME ServiceInv, LedgerInv, NEW c \in Calls, rows' = rows, ledger' = ledger,
           \A d \in Calls \ {c} :
               /\ client'[d] = client[d] /\ pc'[d] = pc[d] /\ attempt'[d] = attempt[d]
               /\ object'[d] = object[d] /\ request'[d] = request[d],
           request'[c] = request[c] \/ \A n \in 1..MaxAttempts : <<c, n>> \notin ledger,
           LedgerShape(c)',
           HoldsRow(c)' => HoldsRow(c) \/ \A d \in Calls \ {c} : ~HoldsRow(d)
    PROVE  LedgerInv'
  <1>1. ASSUME NEW d \in Calls \ {c} PROVE LedgerShape(d)' /\ (HoldsRow(d)' <=> HoldsRow(d))
    BY DEF LedgerInv, LedgerShape, Units, HoldsRow
  <1>2. OneHolder'
    BY <1>1 DEF LedgerInv, OneHolder
  <1>3. \A t \in ledger : request'[t[1]] = request[t[1]]
    BY DEF ServiceInv, TypeOK, FreshIds
  <1>4. Explained'
    BY <1>3, ExplainedKept DEF LedgerInv
  <1>. QED
    BY <1>1, <1>2, <1>4 DEF LedgerInv

\* Callers, decorators and Retry bring no body to a step where it has the row.
LEMMA GuardLedgerInv ==
    ASSUME ServiceInv, LedgerInv, NEW c \in Calls, Call(c) \/ Guard(c) \/ RetryBody(c)
    PROVE  LedgerInv'
  <1> USE DEF Call, Guard, RetryBody, Invoke, AcquireAndFire, AcquireAndReject, NotLocked,
              WaitTimeout, AcquireFails, Timeout, Release, ReleaseFails, Crash, Retry, Goto
  <1>1. rows' = rows /\ ledger' = ledger /\ object' = object
    BY DEF tables
  <1>2. \A d \in Calls \ {c} :
            /\ client'[d] = client[d] /\ pc'[d] = pc[d] /\ attempt'[d] = attempt[d]
            /\ object'[d] = object[d] /\ request'[d] = request[d]
    BY DEF ServiceInv, TypeOK, tables
  <1>3. LedgerShape(c) /\ BodyShape(c) /\ attempt[c] \in Int
    BY DEF ServiceInv, Shape, TypeOK, LedgerInv
  <1>4. \/ /\ client[c] = "idle" /\ client'[c] = "waiting"
           /\ pc'[c] = pc[c] /\ attempt'[c] = attempt[c]
        \/ /\ client[c] = "waiting" /\ client'[c] = "fired" /\ request'[c] = request[c]
           /\ pc'[c] = "start" /\ attempt'[c] = 1
        \/ /\ client[c] # "idle" /\ client'[c] \notin {"idle", "waiting"}
           /\ request'[c] = request[c] /\ pc'[c] \in {pc[c], "off"} /\ attempt'[c] = attempt[c]
        \/ /\ client'[c] = client[c] /\ request'[c] = request[c]
           /\ pc[c] = "backoff" /\ pc'[c] = "start" /\ attempt'[c] = attempt[c] + 1
    BY DEF ServiceInv, TypeOK
  <1>5. LedgerShape(c)'
    BY <1>1, <1>3, <1>4 DEF LedgerShape, BodyShape, Units
  <1>6. HoldsRow(c)' => HoldsRow(c)
    BY <1>1, <1>3, <1>4 DEF LedgerShape, HoldsRow
  <1>7. request'[c] = request[c] \/ \A n \in 1..MaxAttempts : <<c, n>> \notin ledger
    BY <1>3, <1>4 DEF LedgerShape
  <1>. QED
    BY <1>1, <1>2, <1>5, <1>6, <1>7, LedgerKept

\* A body that goes on without having read the row, or with what it has, or throws.
LEMMA StepLedgerInv ==
    ASSUME ServiceInv, LedgerInv, NEW c \in Calls, pc[c] \notin {"off", "backoff"},
           UNCHANGED <<request, tables, object>>,
           \/ BodyThrows(c)
           \/ BodyContinues(c, "readInventory")
           \/ pc[c] = "save" /\ BodyContinues(c, "commit")
    PROVE  LedgerInv'
  <1>1. rows' = rows /\ ledger' = ledger /\ request' = request /\ object' = object
    BY DEF tables
  <1>2. /\ attempt' = attempt
        /\ \A d \in Calls \ {c} : client'[d] = client[d] /\ pc'[d] = pc[d]
        /\ client'[c] = client[c] \/ client'[c] = "releasing"
        /\ \/ pc'[c] \in {"backoff", "off", "readInventory"}
           \/ pc[c] = "save" /\ pc'[c] = "commit"
    BY DEF ServiceInv, TypeOK, BodyThrows, BodyContinues, Goto, Settle
  <1>3. LedgerShape(c)
    BY DEF LedgerInv
  <1>4. LedgerShape(c)'
    <2>1. client'[c] \notin {"idle", "waiting"}
      BY <1>2, <1>3 DEF LedgerShape
    <2>2. \A n \in 1..MaxAttempts : <<c, n>> \in ledger' => n < attempt'[c]
      BY <1>1, <1>2, <1>3 DEF LedgerShape
    <2>3. pc'[c] \in {"save", "commit"} => pc[c] = "save"
      BY <1>2
    <2>. QED
      BY <1>1, <1>2, <1>3, <2>1, <2>2, <2>3 DEF LedgerShape, Units
  <1>5. HoldsRow(c)' => HoldsRow(c)
    BY <1>1, <1>2 DEF HoldsRow
  <1>. QED
    BY <1>1, <1>2, <1>4, <1>5, LedgerKept

\* A body reads a row nobody holds, and its object is that row with the request's units.
LEMMA ReadInventoryLedgerInv ==
    ASSUME ServiceInv, LedgerInv, NEW c \in Calls, ReadInventory(c)
    PROVE  LedgerInv'
  <1>0. pc[c] = "readInventory"
    BY DEF ReadInventory
  <1>1. CASE Refuse(c)
    BY <1>0, <1>1, StepLedgerInv DEF Refuse
  <1>2. CASE ~Refuse(c)
    <2> DEFINE op == request[c].op
               qty == request[c].qty
    <2>1. PICK f \in Found(c) :
            /\ object' = [object EXCEPT ![c] = [f EXCEPT !.item = Applied(op, @, qty)]]
            /\ BodyContinues(c, "save")
            /\ UNCHANGED <<request, tables, cacheVars>>
      BY <1>2 DEF ReadInventory
    <2>2. /\ UNCHANGED <<client, attempt>>
          /\ \A d \in Calls \ {c} : pc'[d] = pc[d]
          /\ pc'[c] = "save"
      BY <2>1 DEF ServiceInv, TypeOK, BodyContinues, Goto
    <2>3. f \in Object
      BY <1>0, FoundSound
    <2>4. op \in {"adjust", "restock"} /\ qty \in Int
      BY <1>0, RunningBody DEF WriteRequest
    <2>5. f.item.onHand = Units(f.id) /\ (rows[f.id] = None => f.id = <<c, attempt[c]>>)
      <3>1. CASE Visible = {}
        <4>1. f = [id |-> <<c, attempt[c]>>, item |-> EmptyItem]
          BY <3>1 DEF Found
        <4>2. f.id \in RowIds /\ rows[f.id] = None
          BY <2>3, <3>1 DEF Object, Visible
        <4>. QED
          BY <4>1, <4>2 DEF Units, EmptyItem
      <3>2. CASE Visible # {}
        <4>1. PICK r \in Visible : f = [id |-> r, item |-> rows[r]]
          BY <3>2 DEF Found
        <4>. QED
          BY <4>1 DEF Units, Visible
      <3>. QED
        BY <3>1, <3>2
    <2> DEFINE new == Applied(op, f.item, qty)
    <2>6. new.onHand = f.item.onHand + qty
      <3>1. f.item \in InventoryItem
        BY <2>3 DEF Object
      <3> HIDE DEF op, qty
      <3>2. Moved(f.item, new, qty, qty, 0, 0, 0)
        BY <2>4, <3>1, AddStockMoves, AdjustStockMoves DEF Applied
      <3>. QED
        BY <3>2 DEF Moved
    <2> DEFINE obj == [f EXCEPT !.item = new]
    <2>7. obj.id = f.id /\ obj.item = new
      <3> HIDE DEF new
      <3>. QED
        BY <2>3 DEF Object
    <2>8. object' = [object EXCEPT ![c] = obj]
      BY <2>1, Zenon
    <2> HIDE DEF obj, new, op
    <2>9. object'[c] = obj /\ \A d \in Calls \ {c} : object'[d] = object[d]
      BY <2>8 DEF ServiceInv, TypeOK
    <2>10. rows' = rows /\ ledger' = ledger /\ request' = request
      BY <2>1 DEF tables
    <2>11. LedgerShape(c)
      BY DEF LedgerInv
    <2>12. LedgerShape(c)'
      BY <1>0, <2>2, <2>5, <2>6, <2>7, <2>9, <2>10, <2>11 DEF LedgerShape, Units
    <2>13. \A d \in Calls \ {c} : ~HoldsRow(d)
      BY DEF ReadInventory
    <2>. QED
      BY <2>2, <2>9, <2>10, <2>12, <2>13, LedgerKept
  <1>. QED
    BY <1>1, <1>2

\* COMMIT adds the request's units to the row and its transaction to the ledger.
LEMMA CommitExplained ==
    ASSUME ServiceInv, LedgerInv, NEW c \in Calls, Commit(c)
    PROVE  Explained'
  <1> DEFINE id == object[c].id
             item == object[c].item
             t == <<c, attempt[c]>>
             stock == [r \in Visible |-> rows[r].onHand]
             moved == [u \in ledger |-> request[u[1]].qty]
  <1>1. /\ pc[c] = "commit"
        /\ rows' = [rows EXCEPT ![id] = item]
        /\ ledger' = ledger \cup {t}
        /\ request' = request
    BY DEF Commit
  <1>2. /\ id \in RowIds /\ item \in InventoryItem
        /\ t \in FreshIds /\ request[c].qty \in Int
        /\ attempt[c] \in 1..MaxAttempts
    BY <1>1, RunningBody DEF BodyShape, Object, WriteRequest
  <1>3. t \notin ledger
    BY <1>1, <1>2 DEF LedgerInv, LedgerShape
  <1>4. item.onHand = Units(id) + request[c].qty
    BY <1>1 DEF LedgerInv, LedgerShape
  <1>5. IsFiniteSet(Visible) /\ IsFiniteSet(ledger) /\ LedgerExplainsStock
    BY DEF LedgerInv, Explained
  <1>6. PICK first \in InitialItems :
            /\ first = None <=> rows[OldRow] = None
            /\ SumFunction(stock) = (IF first = None THEN 0 ELSE first.onHand) + SumFunction(moved)
    BY <1>5 DEF LedgerExplainsStock
  <1>7. rows \in [RowIds -> InventoryItem \cup {None}] /\ item # None
    BY <1>2, InventoryNoneAssumption DEF ServiceInv, TypeOK
  <1>8. Visible' = Visible \cup {id} /\ \A r \in RowIds \ {id} : rows'[r] = rows[r]
    BY <1>1, <1>2, <1>7 DEF Visible
  <1>9. \A r \in Visible : rows[r] \in InventoryItem
    BY <1>7 DEF Visible
  <1> DEFINE stock2 == [r \in Visible' |-> rows'[r].onHand]
             moved2 == [u \in ledger' |-> request'[u[1]].qty]
  <1>10. SumFunction(stock2) = SumFunction(stock) + request[c].qty /\ SumFunction(stock) \in Int
    <2>1. /\ \A r \in Visible : stock[r] \in Int
          /\ \A r \in Visible \ {id} : stock2[r] = stock[r]
          /\ stock2[id] = item.onHand /\ item.onHand \in Int
          /\ id \in Visible => Units(id) = stock[id]
          /\ id \notin Visible => Units(id) = 0
      BY <1>1, <1>2, <1>7, <1>8, <1>9, ItemCounters DEF Units, Visible
    <2>2. DOMAIN stock = Visible /\ DOMAIN stock2 = Visible \cup {id}
      BY <1>8
    <2> HIDE DEF stock, stock2, id, item
    <2>3. SumFunction(stock) \in Int
      BY <1>5, <2>1, <2>2, SumFunctionType
    <2>4. CASE id \in Visible
      <3>0. /\ DOMAIN stock2 = DOMAIN stock /\ stock2[id] \in Int
            /\ IsFiniteSet(DOMAIN stock) /\ id \in DOMAIN stock
            /\ \A r \in DOMAIN stock : stock[r] \in Int
            /\ \A r \in DOMAIN stock \ {id} : stock2[r] = stock[r]
        BY <1>5, <2>1, <2>2, <2>4
      <3>1. SumFunction(stock2) = SumFunction(stock) - stock[id] + stock2[id]
        BY <3>0, SumChanges
      <3>. QED
        BY <1>2, <1>4, <2>1, <2>3, <2>4, <3>1
    <2>5. CASE id \notin Visible
      <3>1. SumFunction(stock2) = SumFunction(stock) + stock2[id]
        BY <1>5, <2>1, <2>2, <2>5, SumGrows
      <3>. QED
        BY <1>2, <1>4, <2>1, <2>3, <2>5, <3>1
    <2>. QED
      BY <2>3, <2>4, <2>5
  <1>11. SumFunction(moved2) = SumFunction(moved) + request[c].qty /\ SumFunction(moved) \in Int
    <2>1. \A u \in ledger : request[u[1]] \in WriteRequest
      <3>1. ASSUME NEW d \in Calls, NEW n \in 1..MaxAttempts, <<d, n>> \in ledger
            PROVE  request[d] \in WriteRequest
        BY <3>1, WriteRequestsAssumption DEF LedgerInv, LedgerShape, ServiceInv, Shape, BodyShape
      <3>. QED
        BY <3>1 DEF ServiceInv, TypeOK, FreshIds
    <2>2. /\ \A u \in ledger : moved[u] \in Int /\ moved2[u] = moved[u]
          /\ moved2[t] = request[c].qty
          /\ DOMAIN moved = ledger /\ DOMAIN moved2 = ledger \cup {t}
      BY <1>1, <2>1 DEF WriteRequest
    <2> HIDE DEF moved, moved2, t
    <2>3. SumFunction(moved) \in Int
      BY <1>5, <2>2, SumFunctionType
    <2>4. SumFunction(moved2) = SumFunction(moved) + moved2[t]
      BY <1>2, <1>3, <1>5, <2>2, SumGrows
    <2>. QED
      BY <2>2, <2>3, <2>4
  <1>12. (IF first = None THEN 0 ELSE first.onHand) \in Int
    BY InitialItemsAssumption, ItemCounters
  <1>13. SumFunction(stock2) = (IF first = None THEN 0 ELSE first.onHand) + SumFunction(moved2)
    <2> HIDE DEF stock, stock2, moved, moved2
    <2>. QED
      BY <1>2, <1>6, <1>10, <1>11, <1>12
  <1>14. LedgerExplainsStock'
    <2>1. rows[id] = None => id # OldRow
      <3>1. rows[id] = None => id = t
        BY <1>1 DEF LedgerInv, LedgerShape
      <3>. QED
        BY <1>2, <3>1, InventoryNoneAssumption
    <2>2. rows'[OldRow] = None <=> rows[OldRow] = None
      BY <1>1, <1>7, <2>1 DEF RowIds
    <2>. QED
      BY <1>6, <1>13, <2>2 DEF LedgerExplainsStock
  <1>15. IsFiniteSet(Visible') /\ IsFiniteSet(ledger')
    BY <1>1, <1>5, <1>8, FS_AddElement
  <1>. QED
    BY <1>14, <1>15 DEF Explained

\* The row that is committed is nobody else's: it is locked, or its id is the body's own.
LEMMA CommitLedgerInv ==
    ASSUME ServiceInv, LedgerInv, NEW c \in Calls, Commit(c)
    PROVE  LedgerInv'
  <1> DEFINE id == object[c].id
  <1>1. /\ pc[c] = "commit"
        /\ rows' = [rows EXCEPT ![id] = object[c].item]
        /\ ledger' = ledger \cup {<<c, attempt[c]>>}
        /\ request' = request /\ object' = object
        /\ BodyReturns(c) \/ BodyThrows(c)
    BY DEF Commit
  <1>2. /\ attempt' = attempt
        /\ \A d \in Calls \ {c} : client'[d] = client[d] /\ pc'[d] = pc[d]
        /\ client'[c] = client[c] \/ client'[c] = "releasing"
        /\ pc'[c] \in {"backoff", "off"}
    BY <1>1 DEF ServiceInv, TypeOK, BodyReturns, BodyThrows, BodyContinues, Goto, Settle
  <1>3. \A d \in Calls : LedgerShape(d)
    BY DEF LedgerInv
  <1>4. \A r \in RowIds \ {id} : rows'[r] = rows[r]
    BY <1>1 DEF ServiceInv, TypeOK
  <1>5. ASSUME NEW d \in Calls \ {c}, pc[d] \in {"save", "commit"}
        PROVE  object[d].id # id /\ object[d].id \in RowIds
    <2>1. object[d].id \in RowIds
      BY <1>5, RunningBody DEF BodyShape, Object
    <2>2. CASE rows[id] = None
      <3>1. rows[object[d].id] = None => object[d].id = <<d, attempt[d]>>
        BY <1>3, <1>5 DEF LedgerShape
      <3>2. id = <<c, attempt[c]>>
        BY <1>1, <1>3, <2>2 DEF LedgerShape
      <3>3. <<c, attempt[c]>> # <<d, attempt[d]>>
        OBVIOUS
      <3> HIDE DEF id
      <3>. QED
        BY <2>1, <2>2, <3>1, <3>2, <3>3
    <2>3. CASE rows[id] # None
      <3>1. HoldsRow(c)
        BY <1>1, <2>3 DEF HoldsRow
      <3>2. ~HoldsRow(d)
        BY <1>5, <3>1 DEF LedgerInv, OneHolder
      <3>3. rows[object[d].id] = None
        BY <1>5, <3>2 DEF HoldsRow
      <3> HIDE DEF id
      <3>. QED
        BY <2>1, <2>3, <3>3
    <2>. QED
      BY <2>1, <2>2, <2>3
  <1>6. ASSUME NEW d \in Calls PROVE LedgerShape(d)'
    <2>1. \A n \in 1..MaxAttempts : rows'[<<d, n>>] # None => <<d, n>> \in ledger'
      <3> SUFFICES ASSUME NEW n \in 1..MaxAttempts, rows'[<<d, n>>] # None
                   PROVE  <<d, n>> \in ledger'
        OBVIOUS
      <3>1. <<d, n>> \in RowIds
        BY DEF RowIds, FreshIds
      <3>2. CASE <<d, n>> # id
        BY <1>1, <1>3, <1>4, <3>1, <3>2 DEF LedgerShape
      <3>3. CASE <<d, n>> = id /\ rows[id] # None
        BY <1>1, <1>3, <3>3 DEF LedgerShape
      <3>4. CASE <<d, n>> = id /\ rows[id] = None
        BY <1>1, <1>3, <3>4 DEF LedgerShape
      <3>. QED
        BY <3>2, <3>3, <3>4
    <2>2. CASE d = c
      BY <1>1, <1>2, <1>3, <2>1, <2>2 DEF LedgerShape
    <2>3. CASE d # c
      BY <1>1, <1>2, <1>3, <1>4, <1>5, <2>1, <2>3 DEF LedgerShape, Units
    <2>. QED
      BY <2>2, <2>3
  <1>7. OneHolder'
    BY <1>1, <1>2, <1>4, <1>5 DEF LedgerInv, OneHolder, HoldsRow
  <1>. QED
    BY <1>6, <1>7, CommitExplained DEF LedgerInv

\* Every step keeps the sums equal.
LEMMA NextLedgerInv == ServiceInv /\ LedgerInv /\ [Next]_vars => LedgerInv'
  <1> SUFFICES ASSUME ServiceInv, LedgerInv, [Next]_vars PROVE LedgerInv'
    OBVIOUS
  <1>1. ASSUME NEW c \in Calls, BodyStep(c) \/ DbFails(c) PROVE LedgerInv'
    <2>1. CASE ReadInventory(c) \/ Commit(c)
      BY <2>1, ReadInventoryLedgerInv, CommitLedgerInv
    <2>2. CASE Validate(c) \/ Save(c) \/ DbFails(c)
      BY <2>2, StepLedgerInv DEF Validate, Save, DbFails, DbSteps, Refuse
    <2>. QED
      BY <1>1, <2>1, <2>2 DEF BodyStep
  <1>2. ASSUME NEW c \in Calls, Call(c) \/ Guard(c) \/ RetryBody(c) PROVE LedgerInv'
    BY <1>2, GuardLedgerInv
  <1>3. CASE UNCHANGED <<client, pc, attempt, request, rows, ledger, object>>
    <2>1. Explained'
      BY <1>3, ExplainedKept DEF LedgerInv
    <2>. QED
      BY <1>3, <2>1 DEF LedgerInv, LedgerShape, Units, OneHolder, HoldsRow
  <1>4. ASSUME \/ \E k \in Keys : Expire(k)
               \/ \E r \in Readers : Read(r)
               \/ \E id \in invalidations : Invalidate(id)
               \/ CacheExpires
               \/ UNCHANGED vars
        PROVE  LedgerInv'
    BY <1>4, <1>3 DEF Expire, LeaseExpires, Read, CacheMiss, Fetch, Fill, Invalidate,
                      CacheExpires, guardVars, tables, vars
  <1>. QED
    BY <1>1, <1>2, <1>4 DEF Next

\* Under every fault, and with any number of calls and attempts, the units on hand are
\* those of the start and those of the recorded transactions: neither a rollback, a retry
\* nor an orphan that meets the next holder of the lock loses or repeats one unrecorded.
THEOREM LedgerCorrect == Spec => []LedgerExplainsStock
  <1>1. LedgerInv => LedgerExplainsStock
    BY DEF LedgerInv, Explained
  <1>2. ServiceInv /\ LedgerInv /\ [Next]_vars => (ServiceInv /\ LedgerInv)'
    BY NextServiceInv, NextLedgerInv
  <1>3. Init => ServiceInv /\ LedgerInv
    BY InitServiceInv, InitLedgerInv
  <1>. QED
    BY <1>1, <1>2, <1>3, PTL DEF Spec
=============================================================================
