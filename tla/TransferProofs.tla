--------------------------- MODULE TransferProofs ---------------------------
(***************************************************************************)
(* Proofs about TransferService for any number of calls, stores, transfers *)
(* and attempts.                                                           *)
(*                                                                         *)
(* Under every fault: its types, its counters, and what an acknowledged    *)
(* operation leaves behind.  They rest on Inv, which adds to TypeOK what a *)
(* body at each of its steps can rely on, and which transfer ids are still *)
(* unused.                                                                 *)
(*                                                                         *)
(* Where all operations are on one transfer and no body outlives its call: *)
(* that a store has one row, what becomes of the units, and the refinement *)
(* of TransferLedger.  They rest on Orderly: one body runs, under the lock *)
(* of its call, and what it holds is what is stored, but for its own work. *)
(***************************************************************************)
EXTENDS TransferRefinement, InventoryItemProofs

AfterStart == DbSteps \ {"start"}

HasSource == {"readDest", "diffSource", "writeSource", "diffDest", "writeDest"}

HasDest == HasSource \ {"readDest"}

\* An object that a body may save.
Sound(o) == o \in Object /\ CountersNonNegative(o.item)

\* What an ok stands for.
Durable(c) ==
    /\ transfers[TransferId(c)] # None
    /\ request[c].op # "create" => transfers[TransferId(c)].status # "PENDING"
    /\ request[c].op \in {"start", "complete"} => <<c, attempt[c]>> \in ledger

BodyShape(c) ==
    /\ client[c] # "idle" => request[c] \in Requests
    /\ client[c] = "idle" => \A n \in 1..MaxAttempts : <<c, n>> \notin ledger
    /\ client[c] \in {"idle", "waiting"} => attempt[c] = 0 /\ pc[c] = "off"
    /\ client[c] \in {"idle", "waiting", "fired"} => answer[c] = "none"
    /\ pc[c] # "off" => attempt[c] \in 1..MaxAttempts
    /\ pc[c] = "backoff" => attempt[c] < MaxAttempts
    /\ pc[c] \in AfterStart =>
        /\ transfer[c] \in Transfer
        /\ request[c].op # "create" => transfers[request[c].id] # None
    /\ pc[c] \in HasSource => Sound(source[c]) /\ inventory[source[c].id] # None
    /\ pc[c] \in {"readDest", "diffDest", "writeDest"} => request[c].op = "complete"
    /\ (pc[c] \in HasDest /\ request[c].op = "complete") => Sound(dest[c])
    /\ (pc[c] = "saveTransfer" /\ request[c].op \in {"start", "complete"}) =>
            <<c, attempt[c]>> \in ledger
    /\ answer[c] = "ok" => pc[c] = "off" /\ attempt[c] \in 1..MaxAttempts /\ Durable(c)
    /\ \A n \in 1..MaxAttempts : transfers[<<c, n>>] # None =>
            n < attempt[c] \/ (n = attempt[c] /\ pc[c] \in {"off", "backoff"})

Shape == \A c \in Calls : BodyShape(c)

Inv == TypeOK /\ Shape /\ CountersNeverNegative /\ StatusIsRecorded

\* The program starts with nothing under way.
LEMMA InitInv == Init => Inv
  <1> SUFFICES ASSUME Init PROVE Inv
    OBVIOUS
  <1>1. \A r \in RowIds :
            /\ inventory[r] \in Row \cup {None}
            /\ inventory[r] # None => CountersNonNegative(inventory[r].item)
    <2> SUFFICES ASSUME NEW r \in RowIds
                 PROVE  /\ InitialRow(r) \in Row \cup {None}
                        /\ InitialRow(r) # None => CountersNonNegative(InitialRow(r).item)
      BY DEF Init
    <2>1. CASE r \in Stores /\ InitialStock[r] # None
      <3>1. InitialStock[r] \in InventoryItem /\ CountersNonNegative(InitialStock[r])
        BY <2>1, TransferStockAssumption DEF NonNegative
      <3>2. InitialRow(r) = [store |-> r, item |-> InitialStock[r]]
        BY <2>1 DEF InitialRow
      <3>. QED
        BY <2>1, <3>1, <3>2 DEF Row
    <2>2. CASE ~(r \in Stores /\ InitialStock[r] # None)
      BY <2>2 DEF InitialRow
    <2>. QED
      BY <2>1, <2>2
  <1>2. inventory \in [RowIds -> Row \cup {None}]
    BY <1>1 DEF Init
  <1>3. transfers \in [Ids -> Transfer \cup {None}]
    BY TransferPriorAssumption DEF Init
  <1>4. TypeOK
    BY <1>2, <1>3, AttemptsAssumption DEF Init, GuardInit, TypeOK, ClientStates, Answers
  <1>5. ASSUME NEW c \in Calls, NEW n \in 1..MaxAttempts PROVE transfers[<<c, n>>] = None
    <2>1. <<c, n>> \in FreshIds
      BY DEF FreshIds
    <2>. QED
      BY <2>1, TransferPriorAssumption DEF Init, Ids
  <1>6. Shape
    BY <1>5 DEF Init, GuardInit, Shape, BodyShape, AfterStart, HasSource, HasDest, DbSteps
  <1>7. CountersNeverNegative
    BY <1>1 DEF CountersNeverNegative, Stored
  <1>8. StatusIsRecorded
    BY DEF Init, StatusIsRecorded
  <1>. QED
    BY <1>4, <1>6, <1>7, <1>8 DEF Inv

-----------------------------------------------------------------------------
(* The decorators.                                                         *)

LEMMA RequestTypes ==
    ASSUME NEW r \in Requests
    PROVE  /\ r.op \in {"create", "start", "complete", "fail"}
           /\ r.op = "create" => r.from \in Stores /\ r.to \in Stores /\ r.qty \in Nat \ {0}
           /\ r.op # "create" => r.id \in Ids
  BY TransferRequestsAssumption DEF CreateRequest, HandleRequest

\* The key of a call that was made is the name of a lock.
LEMMA KeyIsAKey ==
    ASSUME Inv, NEW c \in Calls, client[c] # "idle"
    PROVE  Key(c) \in Keys
  <1>1. request[c] \in Requests
    BY DEF Inv, Shape, BodyShape
  <1>. QED
    BY <1>1, RequestTypes, TransferKeysAssumption DEF Key, LockKey, LockKeys

\* What belongs to the bodies and the tables.
Data == <<request, tables, locals>>

\* The decorators leave the other calls and all data alone.
GuardKept(c) ==
    /\ UNCHANGED Data
    /\ \A d \in Calls \ {c} :
        client'[d] = client[d] /\ answer'[d] = answer[d] /\ pc'[d] = pc[d] /\ attempt'[d] = attempt[d]

\* The part of TypeOK that is about the decorators' variables and the requests.
GuardOK ==
    /\ client \in [Calls -> ClientStates]
    /\ answer \in [Calls -> Answers]
    /\ lock \in [Keys -> Calls \cup {None}]
    /\ pc \in [Calls -> DbSteps \cup {"backoff", "off"}]
    /\ attempt \in [Calls -> 0..MaxAttempts]
    /\ request \in [Calls -> Requests \cup {None}]

LEMMA GuardKeepsInv ==
    ASSUME Inv, NEW c \in Calls, GuardOK', GuardKept(c), BodyShape(c)'
    PROVE  Inv'
  <1>1. TypeOK'
    BY DEF Inv, TypeOK, GuardOK, GuardKept, Data, tables, locals
  <1>2. ASSUME NEW d \in Calls \ {c} PROVE BodyShape(d)'
    BY DEF Inv, Shape, BodyShape, Sound, Durable, TransferId, GuardKept, Data, tables, locals
  <1>3. CountersNeverNegative'
    BY DEF Inv, CountersNeverNegative, Stored, GuardKept, Data, tables
  <1>4. StatusIsRecorded'
    BY DEF Inv, StatusIsRecorded, Recorded, GuardKept, Data, tables
  <1>. QED
    BY <1>1, <1>2, <1>3, <1>4 DEF Inv, Shape

LEMMA GuardTypes ==
    ASSUME Inv, NEW c \in Calls, Guard(c)
    PROVE  GuardOK' /\ GuardKept(c)
  <1>0. client[c] # "idle" => Key(c) \in Keys
    BY KeyIsAKey
  <1>1. GuardOK'
    BY <1>0, AttemptsAssumption
       DEF Inv, TypeOK, GuardOK, Guard, Enter, AcquireAndFire, AcquireAndReject, NotLocked,
           WaitTimeout, AcquireFails, Timeout, Release, ReleaseFails, Crash, ClientStates,
           Answers, DbSteps
  <1>2. GuardKept(c)
    BY DEF Inv, TypeOK, GuardKept, Guard, Enter, AcquireAndFire, AcquireAndReject, NotLocked,
           WaitTimeout, AcquireFails, Timeout, Release, ReleaseFails, Crash, Data
  <1>. QED
    BY <1>1, <1>2

\* The decorators only start and stop bodies.
LEMMA GuardInv ==
    ASSUME Inv, NEW c \in Calls, Guard(c)
    PROVE  Inv'
  <1>1. GuardOK' /\ GuardKept(c)
    BY GuardTypes
  <1>2. BodyShape(c) /\ TypeOK /\ UNCHANGED Data
    BY <1>1 DEF Inv, Shape, GuardKept
  <1>3. CASE AcquireAndFire(c, Key(c))
    <2>1. client'[c] = "fired" /\ pc'[c] = "start" /\ attempt'[c] = 1 /\ answer' = answer
      BY <1>2, <1>3 DEF AcquireAndFire, TypeOK
    <2>2. client[c] = "waiting"
      BY <1>3 DEF AcquireAndFire
    <2>3. BodyShape(c)'
      BY <1>2, <2>1, <2>2, AttemptsAssumption
         DEF BodyShape, AfterStart, HasSource, HasDest, Data, tables, locals
    <2>. QED
      BY <1>1, <2>3, GuardKeepsInv
  <1>4. CASE AcquireAndReject(c, Key(c)) \/ WaitTimeout(c) \/ AcquireFails(c, Key(c))
    <2>1. /\ client[c] = "waiting" /\ client'[c] \in {"releasing", "answered"}
          /\ answer'[c] \in {"rejected", "notLocked"} /\ pc' = pc /\ attempt' = attempt
      BY <1>2, <1>4 DEF AcquireAndReject, WaitTimeout, AcquireFails, NotLocked, TypeOK
    <2>2. BodyShape(c)'
      BY <1>2, <2>1 DEF BodyShape, AfterStart, HasSource, HasDest, DbSteps, Data, tables, locals
    <2>. QED
      BY <1>1, <2>2, GuardKeepsInv
  <1>5. CASE Timeout(c)
    <2>1. /\ client[c] = "fired" /\ client'[c] = "releasing" /\ answer'[c] = "timeout"
          /\ pc' = pc /\ attempt' = attempt
      BY <1>2, <1>5 DEF Timeout, TypeOK
    <2>2. BodyShape(c)'
      BY <1>2, <2>1 DEF BodyShape, Sound, Data, tables, locals
    <2>. QED
      BY <1>1, <2>2, GuardKeepsInv
  <1>6. CASE Release(c, Key(c)) \/ ReleaseFails(c)
    <2>1. /\ client[c] = "releasing" /\ client'[c] = "answered" /\ answer' = answer
          /\ pc' = pc /\ attempt' = attempt
      BY <1>2, <1>6 DEF Release, ReleaseFails, TypeOK
    <2>2. BodyShape(c)'
      BY <1>2, <2>1 DEF BodyShape, Sound, Durable, TransferId, Data, tables, locals
    <2>. QED
      BY <1>1, <2>2, GuardKeepsInv
  <1>7. CASE Crash(c)
    <2>1. /\ client[c] # "idle" /\ client'[c] = "crashed" /\ pc'[c] = "off"
          /\ answer' = answer /\ attempt' = attempt
      BY <1>2, <1>7 DEF Crash, TypeOK
    <2>2. BodyShape(c)'
      BY <1>2, <2>1
         DEF BodyShape, AfterStart, HasSource, HasDest, DbSteps, Durable, TransferId, Data, tables,
             locals
    <2>. QED
      BY <1>1, <2>2, GuardKeepsInv
  <1>. QED
    BY <1>3, <1>4, <1>5, <1>6, <1>7 DEF Guard, Enter

\* A call comes with one of the requests.
LEMMA CallInv ==
    ASSUME Inv, NEW c \in Calls, Call(c)
    PROVE  Inv'
  <1>1. TypeOK'
    BY DEF Inv, TypeOK, Call, Invoke, tables, locals, ClientStates
  <1>2. ASSUME NEW d \in Calls PROVE BodyShape(d)'
    <2>1. CASE d = c
      <3>1. /\ client[c] = "idle" /\ client'[c] = "waiting" /\ request'[c] \in Requests
            /\ UNCHANGED <<answer, pc, attempt, tables>>
        BY DEF Inv, TypeOK, Call, Invoke
      <3>2. BodyShape(c)
        BY DEF Inv, Shape
      <3>. QED
        BY <2>1, <3>1, <3>2 DEF BodyShape, AfterStart, HasSource, HasDest, DbSteps, tables
    <2>2. CASE d # c
      <3>1. client'[d] = client[d] /\ request'[d] = request[d] /\ BodyShape(d)
        BY <2>2 DEF Inv, TypeOK, Shape, Call, Invoke
      <3>. QED
        BY <3>1 DEF BodyShape, Sound, Durable, TransferId, Call, Invoke, tables, locals
    <2>. QED
      BY <2>1, <2>2
  <1>3. CountersNeverNegative'
    BY DEF Inv, CountersNeverNegative, Stored, Call, tables
  <1>4. StatusIsRecorded'
    <2>1. \A d \in Calls \ {c} : request'[d] = request[d]
      BY DEF Inv, TypeOK, Call
    <2>2. \A n \in 1..MaxAttempts : <<c, n>> \notin ledger
      BY DEF Inv, Shape, BodyShape, Call, Invoke
    <2>3. \A id \in Ids : \A op \in {"start", "complete"} : Recorded(id, op) => Recorded(id, op)'
      BY <2>1, <2>2 DEF Recorded, Call, tables
    <2>. QED
      BY <2>3 DEF Inv, StatusIsRecorded, Reached, Call, tables
  <1>. QED
    BY <1>1, <1>2, <1>3, <1>4 DEF Inv, Shape

\* The next attempt starts over, with ids that were not used yet.
LEMMA RetryInv ==
    ASSUME Inv, NEW c \in Calls, RetryBody(c)
    PROVE  Inv'
  <1>1. BodyShape(c) /\ TypeOK
    BY DEF Inv, Shape
  <1>2. /\ pc[c] = "backoff" /\ pc'[c] = "start" /\ attempt'[c] = attempt[c] + 1
        /\ UNCHANGED <<client, answer, lock, Data>>
    BY <1>1 DEF RetryBody, Retry, Goto, TypeOK, Data
  <1>3. attempt[c] \in 1..MaxAttempts /\ attempt[c] < MaxAttempts
    BY <1>1, <1>2 DEF BodyShape
  <1>4. GuardOK'
    BY <1>1, <1>3, AttemptsAssumption
       DEF RetryBody, Retry, Goto, TypeOK, GuardOK, DbSteps
  <1>5. GuardKept(c)
    BY <1>1 DEF RetryBody, Retry, Goto, TypeOK, GuardKept, Data
  <1>6. BodyShape(c)'
    <2>1. \A n \in 1..MaxAttempts : n <= attempt[c] => n < attempt[c] + 1
      BY <1>3
    <2>2. attempt[c] + 1 \in 1..MaxAttempts
      BY <1>3, AttemptsAssumption
    <2>3. \A n \in 1..MaxAttempts : transfers[<<c, n>>] # None => n <= attempt[c]
      BY <1>1, <1>3 DEF BodyShape
    <2>. QED
      BY <1>1, <1>2, <1>3, <2>1, <2>2, <2>3
         DEF BodyShape, AfterStart, HasSource, HasDest, Data, tables, locals
  <1>. QED
    BY <1>4, <1>5, <1>6, GuardKeepsInv

\* A lease that runs out frees its key.
LEMMA ExpireInv ==
    ASSUME Inv, NEW k \in Keys, Expire(k)
    PROVE  Inv'
  <1>1. TypeOK'
    BY DEF Inv, TypeOK, Expire, LeaseExpires, tables, locals
  <1>2. Shape'
    BY DEF Inv, Shape, BodyShape, Sound, Durable, TransferId, Expire, LeaseExpires, tables, locals
  <1>3. CountersNeverNegative'
    BY DEF Inv, CountersNeverNegative, Stored, Expire, tables
  <1>4. StatusIsRecorded'
    BY DEF Inv, StatusIsRecorded, Recorded, Expire, tables
  <1>. QED
    BY <1>1, <1>2, <1>3, <1>4 DEF Inv

-----------------------------------------------------------------------------
(* How a step of a body can leave the guard's variables.                   *)

\* What is known of a body at one of its steps.
LEMMA RunningBody ==
    ASSUME Inv, NEW c \in Calls, pc[c] # "off"
    PROVE  /\ BodyShape(c)
           /\ client[c] \notin {"idle", "waiting"} /\ answer[c] # "ok"
           /\ request[c] \in Requests
           /\ attempt[c] \in 1..MaxAttempts
           /\ <<c, attempt[c]>> \in FreshIds /\ <<c, attempt[c]>> \in Ids /\ <<c, attempt[c]>> \in RowIds
           /\ TransferId(c) \in Ids
  <1>1. /\ BodyShape(c) /\ client[c] \notin {"idle", "waiting"} /\ answer[c] # "ok"
        /\ request[c] \in Requests /\ attempt[c] \in 1..MaxAttempts
    BY DEF Inv, Shape, BodyShape
  <1>2. <<c, attempt[c]>> \in FreshIds
    BY <1>1 DEF FreshIds
  <1>. QED
    BY <1>1, <1>2, RequestTypes DEF Ids, RowIds, TransferId

GuardStep(c) ==
    /\ GuardOK' /\ attempt' = attempt /\ request' = request
    /\ \A d \in Calls \ {c} :
        client'[d] = client[d] /\ answer'[d] = answer[d] /\ pc'[d] = pc[d]
    /\ client'[c] \notin {"idle", "waiting"}
    /\ client'[c] = "fired" => answer'[c] = "none"

\* A body that throws either waits for its next attempt or is over.
LEMMA BodyThrowsGuard ==
    ASSUME Inv, NEW c \in Calls, pc[c] # "off", BodyThrows(c), request' = request
    PROVE  /\ GuardStep(c)
           /\ pc'[c] \in {"off", "backoff"} /\ answer'[c] # "ok"
           /\ pc'[c] = "backoff" => attempt[c] < MaxAttempts
  <1>1. /\ BodyShape(c) /\ client[c] \notin {"idle", "waiting"} /\ answer[c] # "ok"
        /\ attempt[c] \in 1..MaxAttempts
    BY RunningBody
  <1>. QED
    BY <1>1, AttemptsAssumption
       DEF Inv, TypeOK, GuardOK, GuardStep, BodyThrows, BodyContinues, Goto, Settle, BodyShape,
           ClientStates, Answers, DbSteps

\* A body that goes on moves nothing but its own pc.
LEMMA BodyContinuesGuard ==
    ASSUME Inv, NEW c \in Calls, NEW step \in DbSteps, pc[c] # "off",
           BodyContinues(c, step), request' = request
    PROVE  GuardStep(c) /\ pc'[c] = step /\ answer'[c] # "ok"
  <1>1. BodyShape(c) /\ client[c] \notin {"idle", "waiting"} /\ answer[c] # "ok"
    BY RunningBody
  <1>. QED
    BY <1>1 DEF Inv, TypeOK, GuardOK, GuardStep, BodyContinues, Goto, BodyShape, DbSteps

\* A body that returns is over.
LEMMA BodyReturnsGuard ==
    ASSUME Inv, NEW c \in Calls, pc[c] # "off", BodyReturns(c), request' = request
    PROVE  GuardStep(c) /\ pc'[c] = "off"
  <1>1. BodyShape(c) /\ client[c] \notin {"idle", "waiting"} /\ answer[c] # "ok"
    BY RunningBody
  <1>. QED
    BY <1>1 DEF Inv, TypeOK, GuardOK, GuardStep, BodyReturns, Goto, Settle, BodyShape,
                ClientStates, Answers, DbSteps

\* The two ways on from a write.
LEMMA ReplyOrLostGuard ==
    ASSUME Inv, NEW c \in Calls, NEW step \in DbSteps, pc[c] # "off",
           ReplyOrLost(c, step), request' = request
    PROVE  /\ GuardStep(c)
           /\ pc'[c] \in {"off", "backoff", step} /\ answer'[c] # "ok"
           /\ pc'[c] = "backoff" => attempt[c] < MaxAttempts
  <1>1. step # "backoff"
    BY DEF DbSteps
  <1>. QED
    BY <1>1, BodyContinuesGuard, BodyThrowsGuard DEF ReplyOrLost

-----------------------------------------------------------------------------
(* The steps of a body.                                                    *)

\* The part of Inv that is about the tables and the locals of the bodies.
DataOK ==
    /\ inventory \in [RowIds -> Row \cup {None}]
    /\ transfers \in [Ids -> Transfer \cup {None}]
    /\ ledger \subseteq FreshIds
    /\ transfer \in [Calls -> Transfer \cup {None}]
    /\ source \in [Calls -> Object \cup {None}]
    /\ dest \in [Calls -> Object \cup {None}]
    /\ dirty \in [Calls -> SUBSET Fields]
    /\ CountersNeverNegative
    /\ StatusIsRecorded

Settled(id) == transfers[id] # None /\ transfers[id].status # "PENDING"

\* What a step of c leaves to the other calls: their locals, the rows they have seen, the
\* transfers they know of, and the ids that are theirs.
OthersKept(c) ==
    /\ \A d \in Calls \ {c} :
        /\ transfer'[d] = transfer[d] /\ source'[d] = source[d] /\ dest'[d] = dest[d]
        /\ \A n \in 1..MaxAttempts :
            /\ transfers[<<d, n>>] = None => transfers'[<<d, n>>] = None
            /\ <<d, n>> \notin ledger => <<d, n>> \notin ledger'
    /\ \A r \in RowIds : inventory[r] # None => inventory'[r] # None
    /\ \A id \in Ids : transfers[id] # None => transfers'[id] # None
    /\ \A id \in Ids : Settled(id) => Settled(id)'
    /\ ledger \subseteq ledger'

\* A body's step keeps Inv if it keeps the data and its own shape.
LEMMA BodyStepKeepsInv ==
    ASSUME Inv, NEW c \in Calls, GuardStep(c), DataOK', OthersKept(c), BodyShape(c)'
    PROVE  Inv'
  <1>1. TypeOK'
    BY DEF TypeOK, GuardStep, GuardOK, DataOK
  <1>2. ASSUME NEW d \in Calls \ {c} PROVE BodyShape(d)'
    <2>1. BodyShape(d)
      BY DEF Inv, Shape
    <2>2. /\ client'[d] = client[d] /\ answer'[d] = answer[d] /\ pc'[d] = pc[d]
          /\ attempt'[d] = attempt[d] /\ request'[d] = request[d]
          /\ transfer'[d] = transfer[d] /\ source'[d] = source[d] /\ dest'[d] = dest[d]
      BY DEF GuardStep, OthersKept
    <2>3. pc[d] # "off" => /\ request[d].op # "create" => request[d].id \in Ids
                           /\ pc[d] \in HasSource => source[d].id \in RowIds
      BY <2>1, RunningBody, RequestTypes DEF BodyShape, Sound, Object
    <2>4. answer[d] = "ok" => Durable(d)'
      <3> SUFFICES ASSUME answer[d] = "ok" PROVE Durable(d)'
        OBVIOUS
      <3>1. Durable(d) /\ client[d] # "idle" /\ request[d] \in Requests
        BY <2>1 DEF BodyShape
      <3>2. TransferId(d)' = TransferId(d)
        BY <2>2 DEF TransferId
      <3>3. TransferId(d) \in Ids
        <4>1. CASE request[d].op # "create"
          BY <3>1, <4>1, RequestTypes DEF TransferId
        <4>2. CASE request[d].op = "create"
          <5>1. attempt[d] \in 1..MaxAttempts /\ TransferId(d) = <<d, attempt[d]>>
            BY <2>1, <4>2 DEF BodyShape, TransferId
          <5>. QED
            BY <5>1 DEF FreshIds, Ids
        <4>. QED
          BY <4>1, <4>2
      <3>. QED
        BY <2>2, <3>1, <3>2, <3>3 DEF Durable, OthersKept, Settled
    <2>5. \A n \in 1..MaxAttempts :
            transfers'[<<d, n>>] # None => transfers[<<d, n>>] # None
      BY DEF OthersKept
    <2>. QED
      BY <2>1, <2>2, <2>3, <2>4, <2>5
         DEF BodyShape, Sound, OthersKept, AfterStart, HasSource, HasDest, DbSteps
  <1>3. Shape'
    BY <1>2 DEF Shape
  <1>. QED
    BY <1>1, <1>3 DEF Inv, DataOK

\* An attempt that throws and changes no data keeps Inv.
LEMMA RefuseInv ==
    ASSUME Inv, NEW c \in Calls, pc[c] # "off", Refuse(c)
    PROVE  Inv'
  <1>1. BodyThrows(c) /\ UNCHANGED <<request, tables, locals>>
    BY DEF Refuse
  <1>2. /\ GuardStep(c)
        /\ pc'[c] \in {"off", "backoff"} /\ answer'[c] # "ok"
        /\ pc'[c] = "backoff" => attempt[c] < MaxAttempts
    BY <1>1, BodyThrowsGuard
  <1>3. DataOK'
    <2>1. StatusIsRecorded'
      BY <1>1 DEF Inv, StatusIsRecorded, Recorded, tables
    <2>2. CountersNeverNegative'
      BY <1>1 DEF Inv, CountersNeverNegative, Stored, tables
    <2>. QED
      BY <1>1, <2>1, <2>2 DEF Inv, TypeOK, DataOK, tables, locals
  <1>4. OthersKept(c)
    BY <1>1 DEF OthersKept, Settled, tables, locals
  <1>5. BodyShape(c)'
    BY <1>1, <1>2, RunningBody
       DEF GuardStep, BodyShape, AfterStart, HasSource, HasDest, DbSteps, tables, locals
  <1>. QED
    BY <1>2, <1>3, <1>4, <1>5, BodyStepKeepsInv

\* The database refuses a statement: the attempt throws.
LEMMA DbFailsInv ==
    ASSUME Inv, NEW c \in Calls, DbFails(c)
    PROVE  Inv'
  <1>1. pc[c] # "off" /\ Refuse(c)
    BY DEF DbFails, DbRejects, DbSteps, Refuse
  <1>. QED
    BY <1>1, RefuseInv

\* What a body must have in hand at its next step.
Ready(c, step) ==
    /\ step \in AfterStart =>
        /\ transfer[c] \in Transfer
        /\ request[c].op # "create" => transfers[request[c].id] # None
    /\ step \in HasSource => Sound(source[c]) /\ inventory[source[c].id] # None
    /\ step \in {"readDest", "diffDest", "writeDest"} => request[c].op = "complete"
    /\ (step \in HasDest /\ request[c].op = "complete") => Sound(dest[c])
    /\ (step = "saveTransfer" /\ request[c].op \in {"start", "complete"}) =>
            <<c, attempt[c]>> \in ledger

\* A step that reads, and goes on with its own locals.
LEMMA ReadInv ==
    ASSUME Inv, NEW c \in Calls, NEW step \in AfterStart, pc[c] \in DbSteps,
           BodyContinues(c, step), UNCHANGED <<request, tables>>,
           transfer' \in [Calls -> Transfer \cup {None}],
           source' \in [Calls -> Object \cup {None}],
           dest' \in [Calls -> Object \cup {None}],
           dirty' \in [Calls -> SUBSET Fields],
           \A d \in Calls \ {c} :
                transfer'[d] = transfer[d] /\ source'[d] = source[d] /\ dest'[d] = dest[d],
           Ready(c, step)'
    PROVE  Inv'
  <1>0. pc[c] \notin {"off", "backoff"} /\ step \in DbSteps /\ step \notin {"off", "backoff"}
    BY DEF DbSteps, AfterStart
  <1>1. GuardStep(c) /\ pc'[c] = step /\ answer'[c] # "ok"
    BY <1>0, BodyContinuesGuard
  <1>2. StatusIsRecorded' /\ CountersNeverNegative'
    BY DEF Inv, StatusIsRecorded, Recorded, CountersNeverNegative, Stored, tables
  <1>3. DataOK'
    BY <1>2 DEF Inv, TypeOK, DataOK, tables
  <1>4. OthersKept(c)
    BY DEF OthersKept, Settled, tables
  <1>5. BodyShape(c)'
    <2>1. BodyShape(c) /\ request[c] \in Requests /\ attempt[c] \in 1..MaxAttempts
      BY <1>0, RunningBody
    <2>. QED
      BY <1>0, <1>1, <2>1 DEF GuardStep, Ready, BodyShape, tables
  <1>. QED
    BY <1>1, <1>3, <1>4, <1>5, BodyStepKeepsInv

LEMMA CheckCreateInv ==
    ASSUME Inv, NEW c \in Calls, CheckCreate(c)
    PROVE  Inv'
  <1>0. pc[c] = "start" /\ request[c].op = "create" /\ request[c] \in Requests
    BY RunningBody DEF CheckCreate
  <1>1. CASE Refuse(c)
    BY <1>0, <1>1, RefuseInv
  <1> DEFINE new == [from |-> request[c].from, to |-> request[c].to, qty |-> request[c].qty,
                     status |-> "PENDING"]
  <1>2. CASE /\ transfer' = [transfer EXCEPT ![c] = new]
             /\ BodyContinues(c, "readSource")
             /\ UNCHANGED <<request, tables, source, dest, dirty>>
    <2>1. new \in Transfer
      BY <1>0, RequestTypes DEF Transfer
    <2>2. transfer' \in [Calls -> Transfer \cup {None}] /\ transfer'[c] \in Transfer
      BY <1>2, <2>1 DEF Inv, TypeOK
    <2>3. \A d \in Calls \ {c} : transfer'[d] = transfer[d]
      BY <1>2 DEF Inv, TypeOK
    <2>4. "readSource" \in AfterStart /\ "readSource" \notin HasSource
      BY DEF AfterStart, DbSteps, HasSource
    <2>5. Ready(c, "readSource")'
      BY <1>0, <1>2, <2>2, <2>4 DEF Ready, HasDest
    <2>. QED
      BY <1>0, <1>2, <2>2, <2>3, <2>4, <2>5, ReadInv DEF Inv, TypeOK, DbSteps
  <1>. QED
    BY <1>1, <1>2 DEF CheckCreate

LEMMA FindTransferInv ==
    ASSUME Inv, NEW c \in Calls, FindTransfer(c)
    PROVE  Inv'
  <1>0. pc[c] = "start" /\ request[c].op # "create" /\ request[c] \in Requests /\ request[c].id \in Ids
    BY RunningBody, RequestTypes DEF FindTransfer
  <1>1. CASE Refuse(c)
    BY <1>0, <1>1, RefuseInv
  <1>2. CASE ~Refuse(c)
    <2>1. /\ transfers[request[c].id] # None
          /\ transfer' = [transfer EXCEPT ![c] = transfers[request[c].id]]
          /\ UNCHANGED <<request, tables, source, dest, dirty>>
      BY <1>2 DEF FindTransfer
    <2>2. PICK step \in {"saveTransfer", "readSource"} :
            /\ BodyContinues(c, step)
            /\ step = "saveTransfer" => request[c].op = "fail"
      BY <1>2 DEF FindTransfer
    <2>3. transfers[request[c].id] \in Transfer
      BY <1>0, <2>1 DEF Inv, TypeOK
    <2>4. transfer' \in [Calls -> Transfer \cup {None}] /\ transfer'[c] \in Transfer
      BY <2>1, <2>3 DEF Inv, TypeOK
    <2>5. \A d \in Calls \ {c} : transfer'[d] = transfer[d]
      BY <2>1 DEF Inv, TypeOK
    <2>6. step \in AfterStart /\ step \notin HasSource
      BY DEF AfterStart, DbSteps, HasSource
    <2>7. Ready(c, step)'
      BY <1>0, <2>1, <2>2, <2>4, <2>6 DEF Ready, HasDest, tables
    <2>. QED
      BY <1>0, <2>1, <2>2, <2>4, <2>5, <2>6, <2>7, ReadInv DEF Inv, TypeOK, DbSteps
  <1>. QED
    BY <1>1, <1>2

\* The row of a store that a body reads.
LEMMA RowTypes ==
    ASSUME Inv, NEW s, NEW r \in RowsOf(s)
    PROVE  /\ r \in RowIds /\ inventory[r] # None /\ inventory[r].item \in InventoryItem
           /\ CountersNonNegative(inventory[r].item)
  <1>1. r \in RowIds /\ inventory[r] # None
    BY DEF RowsOf
  <1>2. inventory[r] \in Row
    BY <1>1 DEF Inv, TypeOK
  <1>. QED
    BY <1>1, <1>2 DEF Row, Inv, CountersNeverNegative, Stored

LEMMA CheckSourceInv ==
    ASSUME Inv, NEW c \in Calls, CheckSource(c)
    PROVE  Inv'
  <1>0. pc[c] = "readSource" /\ request[c].op = "create"
    BY DEF CheckSource
  <1>1. CASE Refuse(c)
    BY <1>0, <1>1, RefuseInv
  <1>2. CASE BodyContinues(c, "saveTransfer") /\ UNCHANGED <<request, tables, locals>>
    <2>1. BodyShape(c)
      BY <1>0, RunningBody
    <2>2. "saveTransfer" \in AfterStart /\ "saveTransfer" \notin HasSource /\ "readSource" \in AfterStart
      BY DEF AfterStart, DbSteps, HasSource
    <2>3. Ready(c, "saveTransfer")'
      BY <1>0, <1>2, <2>1, <2>2 DEF Ready, BodyShape, HasDest, locals
    <2>. QED
      BY <1>0, <1>2, <2>2, <2>3, ReadInv DEF Inv, TypeOK, DbSteps, locals
  <1>. QED
    BY <1>1, <1>2 DEF CheckSource

\* The units of a transfer that a body holds.
LEMMA HeldTransfer ==
    ASSUME Inv, NEW c \in Calls, pc[c] \in AfterStart
    PROVE  /\ BodyShape(c) /\ transfer[c] \in Transfer
           /\ transfer[c].qty \in Int /\ transfer[c].qty > 0 /\ transfer[c].to \in Stores
           /\ request[c].op # "create" => transfers[request[c].id] # None
  <1>1. pc[c] # "off"
    BY DEF AfterStart, DbSteps
  <1>2. BodyShape(c)
    BY <1>1, RunningBody
  <1>3. transfer[c] \in Transfer
    BY <1>2 DEF BodyShape
  <1>. QED
    BY <1>2, <1>3 DEF Transfer, BodyShape

LEMMA ReserveSourceInv ==
    ASSUME Inv, NEW c \in Calls, ReserveSource(c)
    PROVE  Inv'
  <1>0. pc[c] = "readSource" /\ request[c].op = "start" /\ pc[c] \in AfterStart
    BY DEF ReserveSource, AfterStart, DbSteps
  <1>1. CASE Refuse(c)
    BY <1>0, <1>1, RefuseInv
  <1> DEFINE qty == transfer[c].qty
             object(r) == [id |-> r, item |-> ReserveStock(inventory[r].item, qty)]
  <1>2. CASE ~Refuse(c)
    <2>1. PICK r \in RowsOf(transfer[c].from) :
            /\ CanReserve(inventory[r].item, qty)
            /\ source' = [source EXCEPT ![c] = object(r)]
            /\ BodyContinues(c, "diffSource")
            /\ UNCHANGED <<request, tables, transfer, dest, dirty>>
      BY <1>2 DEF ReserveSource
    <2>2. /\ r \in RowIds /\ inventory[r] # None /\ inventory[r].item \in InventoryItem
          /\ CountersNonNegative(inventory[r].item)
      BY RowTypes
    <2>3. BodyShape(c) /\ qty \in Int /\ qty > 0
      BY <1>0, HeldTransfer
    <2>4. ReserveStock(inventory[r].item, qty) \in InventoryItem
          /\ CountersNonNegative(ReserveStock(inventory[r].item, qty))
      <3>1. Moved(inventory[r].item, ReserveStock(inventory[r].item, qty), 0, -qty, qty, 0, 0)
        BY <2>2, <2>3, ReserveStockMoves
      <3>2. inventory[r].item.available >= qty
        BY <2>1 DEF CanReserve
      <3> HIDE DEF qty
      <3>. QED
        BY <2>2, <2>3, <3>1, <3>2, ItemCounters DEF Moved, CountersNonNegative
    <2>5. object(r) \in Object /\ object(r).item = ReserveStock(inventory[r].item, qty) /\ object(r).id = r
      BY <2>2, <2>4 DEF Object
    <2>6. /\ source' \in [Calls -> Object \cup {None}] /\ source'[c] = object(r)
          /\ \A d \in Calls \ {c} : source'[d] = source[d]
      BY <2>1, <2>5 DEF Inv, TypeOK
    <2>7. "diffSource" \in AfterStart
      BY DEF AfterStart, DbSteps
    <2>8. Ready(c, "diffSource")'
      <3>1. Sound(source'[c]) /\ inventory[source'[c].id] # None
        BY <2>2, <2>4, <2>5, <2>6 DEF Sound
      <3>2. inventory' = inventory /\ transfers' = transfers /\ transfer' = transfer /\ request' = request
        BY <2>1 DEF tables
      <3>. QED
        BY <1>0, <2>3, <3>1, <3>2, HeldTransfer DEF Ready, Sound
    <2>. QED
      BY <1>0, <2>1, <2>6, <2>7, <2>8, ReadInv DEF Inv, TypeOK, DbSteps
  <1>. QED
    BY <1>1, <1>2

LEMMA ReleaseSourceInv ==
    ASSUME Inv, NEW c \in Calls, ReleaseSource(c)
    PROVE  Inv'
  <1>0. pc[c] = "readSource" /\ request[c].op = "fail" /\ pc[c] \in AfterStart
    BY DEF ReleaseSource, AfterStart, DbSteps
  <1>1. CASE Refuse(c)
    BY <1>0, <1>1, RefuseInv
  <1>2. CASE BodyContinues(c, "saveTransfer") /\ UNCHANGED <<request, tables, locals>>
    <2>1. "saveTransfer" \in AfterStart /\ "saveTransfer" \notin HasSource
      BY DEF AfterStart, DbSteps, HasSource
    <2>2. Ready(c, "saveTransfer")'
      BY <1>0, <1>2, <2>1, HeldTransfer DEF Ready, HasDest, locals, tables
    <2>. QED
      BY <1>0, <1>2, <2>1, <2>2, ReadInv DEF Inv, TypeOK, DbSteps, locals
  <1> DEFINE qty == transfer[c].qty
             object(r) == [id |-> r, item |-> ReleaseStock(inventory[r].item, qty)]
  <1>3. CASE \E r \in RowsOf(transfer[c].from) :
            /\ CanRelease(inventory[r].item, qty)
            /\ source' = [source EXCEPT ![c] = object(r)]
            /\ BodyContinues(c, "diffSource")
            /\ UNCHANGED <<request, tables, transfer, dest, dirty>>
    <2>1. PICK r \in RowsOf(transfer[c].from) :
            /\ CanRelease(inventory[r].item, qty)
            /\ source' = [source EXCEPT ![c] = object(r)]
            /\ BodyContinues(c, "diffSource")
            /\ UNCHANGED <<request, tables, transfer, dest, dirty>>
      BY <1>3
    <2>2. /\ r \in RowIds /\ inventory[r] # None /\ inventory[r].item \in InventoryItem
          /\ CountersNonNegative(inventory[r].item)
      BY RowTypes
    <2>3. qty \in Int /\ qty > 0
      BY <1>0, HeldTransfer
    <2>4. ReleaseStock(inventory[r].item, qty) \in InventoryItem
          /\ CountersNonNegative(ReleaseStock(inventory[r].item, qty))
      <3>1. Moved(inventory[r].item, ReleaseStock(inventory[r].item, qty), 0, qty, -qty, 0, 0)
        BY <2>2, <2>3, ReleaseStockMoves
      <3>2. inventory[r].item.reserved >= qty
        BY <2>1 DEF CanRelease
      <3> HIDE DEF qty
      <3>. QED
        BY <2>2, <2>3, <3>1, <3>2, ItemCounters DEF Moved, CountersNonNegative
    <2>5. object(r) \in Object /\ object(r).item = ReleaseStock(inventory[r].item, qty) /\ object(r).id = r
      BY <2>2, <2>4 DEF Object
    <2>6. /\ source' \in [Calls -> Object \cup {None}] /\ source'[c] = object(r)
          /\ \A d \in Calls \ {c} : source'[d] = source[d]
      BY <2>1, <2>5 DEF Inv, TypeOK
    <2>7. "diffSource" \in AfterStart
      BY DEF AfterStart, DbSteps
    <2>8. Ready(c, "diffSource")'
      <3>1. Sound(source'[c]) /\ inventory[source'[c].id] # None
        BY <2>2, <2>4, <2>5, <2>6 DEF Sound
      <3>2. inventory' = inventory /\ transfers' = transfers /\ transfer' = transfer /\ request' = request
        BY <2>1 DEF tables
      <3>. QED
        BY <1>0, <3>1, <3>2, HeldTransfer DEF Ready, Sound
    <2>. QED
      BY <1>0, <2>1, <2>6, <2>7, <2>8, ReadInv DEF Inv, TypeOK, DbSteps
  <1>. QED
    BY <1>1, <1>2, <1>3 DEF ReleaseSource

LEMMA LoadSourceInv ==
    ASSUME Inv, NEW c \in Calls, LoadSource(c)
    PROVE  Inv'
  <1>0. pc[c] = "readSource" /\ request[c].op = "complete" /\ pc[c] \in AfterStart
    BY DEF LoadSource, AfterStart, DbSteps
  <1>1. CASE Refuse(c)
    BY <1>0, <1>1, RefuseInv
  <1> DEFINE object(r) == [id |-> r, item |-> inventory[r].item]
  <1>2. CASE ~Refuse(c)
    <2>1. PICK r \in RowsOf(transfer[c].from) :
            /\ source' = [source EXCEPT ![c] = object(r)]
            /\ BodyContinues(c, "readDest")
            /\ UNCHANGED <<request, tables, transfer, dest, dirty>>
      BY <1>2 DEF LoadSource
    <2>2. /\ r \in RowIds /\ inventory[r] # None /\ inventory[r].item \in InventoryItem
          /\ CountersNonNegative(inventory[r].item)
      BY RowTypes
    <2>3. object(r) \in Object /\ object(r).item = inventory[r].item /\ object(r).id = r
      BY <2>2 DEF Object
    <2>4. /\ source' \in [Calls -> Object \cup {None}] /\ source'[c] = object(r)
          /\ \A d \in Calls \ {c} : source'[d] = source[d]
      BY <2>1, <2>3 DEF Inv, TypeOK
    <2>5. "readDest" \in AfterStart /\ "readDest" \notin HasDest
      BY DEF AfterStart, DbSteps, HasDest
    <2>6. Ready(c, "readDest")'
      <3>1. Sound(source'[c]) /\ inventory[source'[c].id] # None
        BY <2>2, <2>3, <2>4 DEF Sound
      <3>2. inventory' = inventory /\ transfers' = transfers /\ transfer' = transfer /\ request' = request
        BY <2>1 DEF tables
      <3>. QED
        BY <1>0, <2>5, <3>1, <3>2, HeldTransfer DEF Ready, Sound
    <2>. QED
      BY <1>0, <2>1, <2>4, <2>5, <2>6, ReadInv DEF Inv, TypeOK, DbSteps
  <1>. QED
    BY <1>1, <1>2

\* A new row starts at zero.
LEMMA DestTypes ==
    ASSUME Inv, NEW c \in Calls, pc[c] # "off", NEW d \in DestObjects(c)
    PROVE  Sound(d)
  <1>1. EmptyItem \in InventoryItem /\ CountersNonNegative(EmptyItem)
    BY DEF EmptyItem, InventoryItem, CountersNonNegative
  <1>2. CASE d = [id |-> <<c, attempt[c]>>, item |-> EmptyItem]
    BY <1>1, <1>2, RunningBody DEF Sound, Object
  <1>3. CASE \E r \in RowsOf(transfer[c].to) : d = [id |-> r, item |-> inventory[r].item]
    <2>1. PICK r \in RowsOf(transfer[c].to) : d = [id |-> r, item |-> inventory[r].item]
      BY <1>3
    <2>. QED
      BY <2>1, RowTypes DEF Sound, Object
  <1>. QED
    BY <1>2, <1>3 DEF DestObjects

LEMMA MoveToDestInv ==
    ASSUME Inv, NEW c \in Calls, MoveToDest(c)
    PROVE  Inv'
  <1>0. pc[c] = "readDest" /\ pc[c] \in AfterStart /\ pc[c] # "off"
    BY DEF MoveToDest, AfterStart, DbSteps
  <1>1. CASE Refuse(c)
    BY <1>0, <1>1, RefuseInv
  <1> DEFINE qty == transfer[c].qty
             sold == [source[c] EXCEPT !.item = ConfirmSale(@, qty)]
             grown(d) == [d EXCEPT !.item = AddStock(@, qty)]
  <1>2. CASE ~Refuse(c)
    <2>1. PICK d \in DestObjects(c) :
            /\ CanConfirm(source[c].item, qty)
            /\ source' = [source EXCEPT ![c].item = ConfirmSale(@, qty)]
            /\ dest' = [dest EXCEPT ![c] = grown(d)]
            /\ BodyContinues(c, "diffSource")
            /\ UNCHANGED <<request, tables, transfer, dirty>>
      BY <1>2 DEF MoveToDest
    <2>2. BodyShape(c) /\ qty \in Int /\ qty > 0 /\ request[c].op = "complete"
      BY <1>0, HeldTransfer DEF BodyShape
    <2>3. Sound(source[c]) /\ inventory[source[c].id] # None
      BY <1>0, <2>2 DEF BodyShape, HasSource
    <2>4. Sound(d)
      BY <1>0, DestTypes
    <2>5. ConfirmSale(source[c].item, qty) \in InventoryItem
          /\ CountersNonNegative(ConfirmSale(source[c].item, qty))
      <3>1. source[c].item \in InventoryItem /\ CountersNonNegative(source[c].item)
        BY <2>3 DEF Sound, Object
      <3>2. Moved(source[c].item, ConfirmSale(source[c].item, qty), -qty, 0, -qty, qty, 0)
        BY <2>2, <3>1, ConfirmSaleMoves
      <3>3. source[c].item.reserved >= qty
        BY <2>1 DEF CanConfirm
      <3> HIDE DEF qty
      <3>. QED
        BY <2>2, <3>1, <3>2, <3>3, ItemCounters DEF Moved, CountersNonNegative
    <2>6. AddStock(d.item, qty) \in InventoryItem /\ CountersNonNegative(AddStock(d.item, qty))
      <3>1. d.item \in InventoryItem /\ CountersNonNegative(d.item)
        BY <2>4 DEF Sound, Object
      <3>2. Moved(d.item, AddStock(d.item, qty), qty, qty, 0, 0, 0)
        BY <2>2, <3>1, AddStockMoves
      <3> HIDE DEF qty
      <3>. QED
        BY <2>2, <3>1, <3>2, ItemCounters DEF Moved, CountersNonNegative
    <2>7. Sound(sold) /\ sold.id = source[c].id
      <3> HIDE DEF qty
      <3>. QED
        BY <2>3, <2>5 DEF Sound, Object
    <2>8. Sound(grown(d))
      <3> HIDE DEF qty
      <3>. QED
        BY <2>4, <2>6 DEF Sound, Object
    <2>9. source' = [source EXCEPT ![c] = sold]
      <3> HIDE DEF qty
      <3>. QED
        BY <2>1
    <2>10. /\ source' \in [Calls -> Object \cup {None}] /\ source'[c] = sold
           /\ \A e \in Calls \ {c} : source'[e] = source[e]
      <3> HIDE DEF sold
      <3>. QED
        BY <2>7, <2>9 DEF Inv, TypeOK, Sound
    <2>11. /\ dest' \in [Calls -> Object \cup {None}] /\ dest'[c] = grown(d)
           /\ \A e \in Calls \ {c} : dest'[e] = dest[e]
      <3>1. dest' = [dest EXCEPT ![c] = grown(d)] /\ grown(d) \in Object
        BY <2>1, <2>8 DEF Sound
      <3> HIDE DEF grown
      <3>. QED
        BY <3>1 DEF Inv, TypeOK
    <2>12. "diffSource" \in AfterStart
      BY DEF AfterStart, DbSteps
    <2>13. Ready(c, "diffSource")'
      <3>1. Sound(source'[c]) /\ inventory[source'[c].id] # None /\ Sound(dest'[c])
        <4> HIDE DEF sold, grown
        <4>. QED
          BY <2>3, <2>7, <2>8, <2>10, <2>11
      <3>2. inventory' = inventory /\ transfers' = transfers /\ transfer' = transfer /\ request' = request
        BY <2>1 DEF tables
      <3>. QED
        BY <1>0, <2>2, <3>1, <3>2, HeldTransfer DEF Ready, Sound
    <2>. QED
      BY <1>0, <2>1, <2>10, <2>11, <2>12, <2>13, ReadInv DEF Inv, TypeOK, DbSteps
  <1>. QED
    BY <1>1, <1>2

LEMMA DiffSourceInv ==
    ASSUME Inv, NEW c \in Calls, DiffSource(c)
    PROVE  Inv'
  <1>0. pc[c] = "diffSource" /\ pc[c] \in AfterStart /\ pc[c] \in HasDest /\ pc[c] \in HasSource
    BY DEF DiffSource, AfterStart, DbSteps, HasSource, HasDest
  <1>1. /\ BodyContinues(c, "writeSource") /\ UNCHANGED <<request, tables, transfer, source, dest>>
        /\ dirty' \in [Calls -> SUBSET Fields]
    BY DEF DiffSource, Differing, Inv, TypeOK
  <1>2. "writeSource" \in AfterStart
    BY DEF AfterStart, DbSteps
  <1>3. Ready(c, "writeSource")'
    BY <1>0, <1>1, HeldTransfer DEF Ready, BodyShape, Sound, tables
  <1>. QED
    BY <1>0, <1>1, <1>2, <1>3, ReadInv DEF Inv, TypeOK, DbSteps

LEMMA DiffDestInv ==
    ASSUME Inv, NEW c \in Calls, DiffDest(c)
    PROVE  Inv'
  <1>0. pc[c] = "diffDest" /\ pc[c] \in AfterStart /\ pc[c] \in HasDest /\ pc[c] \in HasSource
    BY DEF DiffDest, AfterStart, DbSteps, HasSource, HasDest
  <1>1. /\ BodyContinues(c, "writeDest") /\ UNCHANGED <<request, tables, transfer, source, dest>>
        /\ dirty' \in [Calls -> SUBSET Fields]
    BY DEF DiffDest, Differing, Inv, TypeOK
  <1>2. "writeDest" \in AfterStart
    BY DEF AfterStart, DbSteps
  <1>3. Ready(c, "writeDest")'
    BY <1>0, <1>1, HeldTransfer DEF Ready, BodyShape, Sound, tables
  <1>. QED
    BY <1>0, <1>1, <1>2, <1>3, ReadInv DEF Inv, TypeOK, DbSteps

\* A write to the inventory or the ledger; its reply may be lost.
LEMMA WriteInv ==
    ASSUME Inv, NEW c \in Calls, NEW step \in AfterStart, pc[c] \in DbSteps,
           ReplyOrLost(c, step), UNCHANGED <<request, transfers, locals>>,
           inventory' \in [RowIds -> Row \cup {None}], ledger' \subseteq FreshIds,
           CountersNeverNegative',
           \A r \in RowIds : inventory[r] # None => inventory'[r] # None,
           ledger \subseteq ledger',
           \A d \in Calls \ {c} : \A n \in 1..MaxAttempts :
                <<d, n>> \notin ledger => <<d, n>> \notin ledger',
           Ready(c, step)'
    PROVE  Inv'
  <1>0. pc[c] \notin {"off", "backoff"} /\ step \in DbSteps /\ step \notin {"off", "backoff"}
    BY DEF DbSteps, AfterStart
  <1>1. /\ GuardStep(c)
        /\ pc'[c] \in {"off", "backoff", step} /\ answer'[c] # "ok"
        /\ pc'[c] = "backoff" => attempt[c] < MaxAttempts
    BY <1>0, ReplyOrLostGuard
  <1>2. StatusIsRecorded'
    <2>1. \A id \in Ids : \A op \in {"start", "complete"} : Recorded(id, op) => Recorded(id, op)'
      BY DEF Recorded
    <2>. QED
      BY <2>1 DEF Inv, StatusIsRecorded, Reached
  <1>3. DataOK'
    BY <1>2 DEF Inv, TypeOK, DataOK, locals
  <1>4. OthersKept(c)
    BY DEF OthersKept, Settled, locals
  <1>5. BodyShape(c)'
    <2>1. BodyShape(c) /\ request[c] \in Requests /\ attempt[c] \in 1..MaxAttempts
      BY <1>0, RunningBody
    <2>2. CASE pc'[c] = step
      BY <1>0, <1>1, <2>1, <2>2 DEF GuardStep, Ready, BodyShape
    <2>3. CASE pc'[c] \in {"off", "backoff"}
      BY <1>0, <1>1, <2>1, <2>3
         DEF GuardStep, BodyShape, AfterStart, HasSource, HasDest, DbSteps
    <2>. QED
      BY <1>1, <2>2, <2>3
  <1>. QED
    BY <1>1, <1>3, <1>4, <1>5, BodyStepKeepsInv

LEMMA WriteSourceInv ==
    ASSUME Inv, NEW c \in Calls, WriteSource(c)
    PROVE  Inv'
  <1> DEFINE id == source[c].id
             row == inventory[id]
             new == Merge(row.item, source[c].item, dirty[c])
  <1>0. /\ pc[c] = "writeSource" /\ pc[c] \in AfterStart /\ pc[c] \in HasDest
        /\ pc[c] \in HasSource /\ pc[c] \in DbSteps
    BY DEF WriteSource, AfterStart, DbSteps, HasSource, HasDest
  <1>1. BodyShape(c) /\ Sound(source[c]) /\ row # None
    BY <1>0, HeldTransfer DEF BodyShape
  <1>2. id \in RowIds /\ source[c].item \in InventoryItem /\ CountersNonNegative(source[c].item)
    BY <1>1 DEF Sound, Object
  <1>3. row \in Row /\ row.item \in InventoryItem /\ CountersNonNegative(row.item)
    BY <1>1, <1>2 DEF Inv, TypeOK, Row, CountersNeverNegative, Stored
  <1>4. new \in InventoryItem /\ CountersNonNegative(new)
    BY <1>2, <1>3, MergeCounters
  <1>5. /\ inventory' = [inventory EXCEPT ![id] = [row EXCEPT !.item = new]]
        /\ ReplyOrLost(c, AfterSource(request[c].op))
        /\ UNCHANGED <<request, transfers, ledger, locals>>
    BY DEF WriteSource
  <1>6. [row EXCEPT !.item = new] \in Row /\ [row EXCEPT !.item = new].item = new
    <2> HIDE DEF new
    <2>. QED
      BY <1>3, <1>4 DEF Row
  <1>7. inventory' \in [RowIds -> Row \cup {None}]
    BY <1>5, <1>6 DEF Inv, TypeOK
  <1>8. \A r \in RowIds : inventory[r] # None => inventory'[r] # None
    BY <1>5, <1>6, TransferNoneAssumption DEF Inv, TypeOK
  <1>9. CountersNeverNegative'
    <2> SUFFICES ASSUME NEW r \in RowIds, inventory'[r] # None
                 PROVE  CountersNonNegative(inventory'[r].item)
      BY DEF CountersNeverNegative, Stored
    <2>1. CASE r = id
      <3>1. inventory'[r].item = new
        BY <1>2, <1>5, <1>6, <2>1 DEF Inv, TypeOK
      <3>. QED
        BY <1>4, <3>1
    <2>2. CASE r # id
      <3>1. inventory'[r] = inventory[r]
        BY <1>5, <2>2 DEF Inv, TypeOK
      <3>. QED
        BY <3>1 DEF Inv, CountersNeverNegative, Stored
    <2>. QED
      BY <2>1, <2>2
  <1>10. AfterSource(request[c].op) \in {"diffDest", "saveTransaction"}
         /\ (AfterSource(request[c].op) = "diffDest" => request[c].op = "complete")
    BY DEF AfterSource
  <1>11. Ready(c, AfterSource(request[c].op))'
    <2>1. CASE AfterSource(request[c].op) = "diffDest"
      BY <1>0, <1>1, <1>2, <1>5, <1>8, <1>10, <2>1, HeldTransfer DEF Ready, BodyShape, Sound, locals
    <2>2. CASE AfterSource(request[c].op) = "saveTransaction"
      BY <1>0, <1>5, <2>2, HeldTransfer DEF Ready, HasSource, HasDest, locals
    <2>. QED
      BY <1>10, <2>1, <2>2
  <1>12. AfterSource(request[c].op) \in AfterStart /\ ledger' \subseteq FreshIds
    BY <1>5, <1>10 DEF AfterStart, DbSteps, Inv, TypeOK
  <1>. QED
    BY <1>0, <1>5, <1>7, <1>8, <1>9, <1>11, <1>12, WriteInv

LEMMA WriteDestInv ==
    ASSUME Inv, NEW c \in Calls, WriteDest(c)
    PROVE  Inv'
  <1> DEFINE id == dest[c].id
             row == inventory[id]
             merged == Merge(row.item, dest[c].item, dirty[c])
             new == IF row = None THEN [store |-> transfer[c].to, item |-> dest[c].item]
                    ELSE [store |-> row.store, item |-> merged]
  <1>0. /\ pc[c] = "writeDest" /\ pc[c] \in AfterStart /\ pc[c] \in HasDest
        /\ pc[c] \in HasSource /\ pc[c] \in DbSteps
    BY DEF WriteDest, AfterStart, DbSteps, HasSource, HasDest
  <1>1. BodyShape(c) /\ Sound(dest[c]) /\ transfer[c].to \in Stores
    BY <1>0, HeldTransfer DEF BodyShape
  <1>2. id \in RowIds /\ dest[c].item \in InventoryItem /\ CountersNonNegative(dest[c].item)
    BY <1>1 DEF Sound, Object
  <1>3. new \in Row /\ CountersNonNegative(new.item)
    <2>1. CASE row = None
      BY <1>1, <1>2, <2>1 DEF Row
    <2>2. CASE row # None
      <3>1. row \in Row /\ row.item \in InventoryItem /\ CountersNonNegative(row.item)
        BY <1>2, <2>2 DEF Inv, TypeOK, Row, CountersNeverNegative, Stored
      <3>2. merged \in InventoryItem /\ CountersNonNegative(merged)
        BY <1>2, <3>1, MergeCounters
      <3> HIDE DEF merged
      <3>. QED
        BY <2>2, <3>1, <3>2 DEF Row
    <2>. QED
      BY <2>1, <2>2
  <1>4. /\ inventory' = [inventory EXCEPT ![id] = new]
        /\ ReplyOrLost(c, "saveTransaction")
        /\ UNCHANGED <<request, transfers, ledger, locals>>
    <2>1. inventory' = [inventory EXCEPT ![id] = new]
      BY Zenon DEF WriteDest
    <2>2. ReplyOrLost(c, "saveTransaction") /\ UNCHANGED <<request, transfers, ledger, locals>>
      BY DEF WriteDest
    <2>. QED
      BY <2>1, <2>2
  <1> HIDE DEF new
  <1>5. inventory' \in [RowIds -> Row \cup {None}]
    BY <1>3, <1>4 DEF Inv, TypeOK
  <1>6. \A r \in RowIds : inventory[r] # None => inventory'[r] # None
    BY <1>3, <1>4, TransferNoneAssumption DEF Inv, TypeOK
  <1>7. CountersNeverNegative'
    <2> SUFFICES ASSUME NEW r \in RowIds, inventory'[r] # None
                 PROVE  CountersNonNegative(inventory'[r].item)
      BY DEF CountersNeverNegative, Stored
    <2>1. CASE r = id
      BY <1>2, <1>3, <1>4, <2>1 DEF Inv, TypeOK
    <2>2. CASE r # id
      <3>1. inventory'[r] = inventory[r]
        BY <1>4, <2>2 DEF Inv, TypeOK
      <3>. QED
        BY <3>1 DEF Inv, CountersNeverNegative, Stored
    <2>. QED
      BY <2>1, <2>2
  <1>8. Ready(c, "saveTransaction")'
    BY <1>0, <1>4, HeldTransfer DEF Ready, HasSource, HasDest, locals
  <1>9. "saveTransaction" \in AfterStart /\ ledger' \subseteq FreshIds
    BY <1>4 DEF AfterStart, DbSteps, Inv, TypeOK
  <1>. QED
    BY <1>0, <1>4, <1>5, <1>6, <1>7, <1>8, <1>9, WriteInv

LEMMA SaveTransactionInv ==
    ASSUME Inv, NEW c \in Calls, SaveTransaction(c)
    PROVE  Inv'
  <1>0. pc[c] = "saveTransaction" /\ pc[c] \in AfterStart /\ pc[c] \in DbSteps /\ pc[c] # "off"
    BY DEF SaveTransaction, AfterStart, DbSteps
  <1>1. /\ ledger' = ledger \cup {<<c, attempt[c]>>}
        /\ ReplyOrLost(c, "saveTransfer")
        /\ UNCHANGED <<request, inventory, transfers, locals>>
    BY DEF SaveTransaction
  <1>2. <<c, attempt[c]>> \in FreshIds
    BY <1>0, RunningBody
  <1>3. attempt' = attempt
    BY <1>1 DEF ReplyOrLost, BodyContinues, BodyThrows
  <1>4. Ready(c, "saveTransfer")'
    BY <1>0, <1>1, <1>3, HeldTransfer DEF Ready, HasSource, HasDest, locals
  <1>5. CountersNeverNegative' /\ ledger' \subseteq FreshIds
    BY <1>1, <1>2 DEF Inv, TypeOK, CountersNeverNegative, Stored
  <1>6. \A d \in Calls \ {c} : \A n \in 1..MaxAttempts : <<d, n>> \notin ledger => <<d, n>> \notin ledger'
    BY <1>1
  <1>7. inventory' \in [RowIds -> Row \cup {None}] /\ "saveTransfer" \in AfterStart
    BY <1>1 DEF Inv, TypeOK, AfterStart, DbSteps
  <1>. QED
    BY <1>0, <1>1, <1>4, <1>5, <1>6, <1>7, WriteInv
\* The last statement of a body, after which it returns: the one write to the transfers.
LEMMA SaveTransferInv ==
    ASSUME Inv, NEW c \in Calls, SaveTransfer(c)
    PROVE  Inv' /\ OthersKept(c)
  <1> DEFINE id == TransferId(c)
             new == [transfer[c] EXCEPT !.status = NewStatus(request[c].op)]
  <1>0. /\ pc[c] = "saveTransfer" /\ pc[c] \in AfterStart /\ pc[c] \notin {"off", "backoff"}
        /\ UNCHANGED <<request, inventory, ledger, locals>>
    BY DEF SaveTransfer, AfterStart, DbSteps
  <1>1. /\ BodyShape(c) /\ request[c] \in Requests /\ attempt[c] \in 1..MaxAttempts
        /\ client[c] \notin {"idle", "waiting"} /\ <<c, attempt[c]>> \in Ids /\ id \in Ids
    BY <1>0, RunningBody
  <1>2. request[c].op \in {"create", "start", "complete", "fail"}
    BY <1>1, RequestTypes
  <1>3. new \in Transfer /\ new # None /\ new.status = NewStatus(request[c].op)
    <2>1. transfer[c] \in Transfer
      BY <1>0, HeldTransfer
    <2>2. NewStatus(request[c].op) \in {"PENDING", "IN_TRANSIT", "COMPLETED", "FAILED"}
      BY <1>2 DEF NewStatus
    <2>. QED
      BY <2>1, <2>2, TransferNoneAssumption DEF Transfer
  <1>4. transfers' = [transfers EXCEPT ![id] = new]
    BY DEF SaveTransfer
  <1> HIDE DEF new
  <1>5. /\ transfers' \in [Ids -> Transfer \cup {None}]
        /\ transfers'[id] = new
        /\ \A i \in Ids \ {id} : transfers'[i] = transfers[i]
    BY <1>1, <1>3, <1>4 DEF Inv, TypeOK
  <1>6. request[c].op = "create" => id = <<c, attempt[c]>> /\ transfers[id] = None
    BY <1>0, <1>1 DEF TransferId, BodyShape
  <1>7. request[c].op # "create" => id = request[c].id /\ new.status # "PENDING"
    BY <1>2, <1>3 DEF TransferId, NewStatus
  <1>8. request[c].op \in {"start", "complete"} => <<c, attempt[c]>> \in ledger
    BY <1>0, <1>1 DEF BodyShape
  <1>9. StatusIsRecorded'
    <2>1. ASSUME NEW i \in Ids, NEW op \in {"start", "complete"}, Recorded(i, op)
          PROVE  Recorded(i, op)'
      BY <1>0, <2>1 DEF Recorded
    <2>2. ASSUME NEW i \in Ids, i = id, NEW op \in {"start", "complete"}, new.status = Reached(op)
          PROVE  Recorded(i, op)'
      <3>1. request[c].op = op
        BY <1>2, <1>3, <2>2 DEF NewStatus, Reached
      <3>2. request[c] = [op |-> op, id |-> i]
        <4>1. request[c] \in HandleRequest
          BY <1>1, <3>1, TransferRequestsAssumption DEF CreateRequest
        <4>. QED
          BY <1>7, <2>2, <3>1, <4>1 DEF HandleRequest
      <3>3. <<c, attempt[c]>> \in ledger' /\ request'[c] = [op |-> op, id |-> i]
        BY <1>0, <1>8, <3>1, <3>2
      <3>. QED
        BY <1>1, <3>3 DEF Recorded
    <2> SUFFICES ASSUME NEW i \in Ids, NEW op \in {"start", "complete"},
                        transfers'[i] # None, transfers'[i].status = Reached(op),
                        i \in DOMAIN Prior => Prior[i].status # Reached(op)
                 PROVE  Recorded(i, op)'
      BY DEF StatusIsRecorded, Reached
    <2>3. CASE i = id
      BY <1>5, <2>2, <2>3
    <2>4. CASE i # id
      BY <1>5, <2>1, <2>4 DEF Inv, StatusIsRecorded
    <2>. QED
      BY <2>3, <2>4
  <1>10. CountersNeverNegative'
    BY <1>0 DEF Inv, CountersNeverNegative, Stored
  <1>11. DataOK'
    BY <1>0, <1>5, <1>9, <1>10 DEF Inv, TypeOK, DataOK, locals
  <1>12. OthersKept(c)
    <2>1. \A i \in Ids : transfers[i] # None => transfers'[i] # None
      BY <1>3, <1>5
    <2>2. \A i \in Ids : Settled(i) => Settled(i)'
      BY <1>3, <1>5, <1>6, <1>7 DEF Settled
    <2>3. ASSUME NEW d \in Calls \ {c}, NEW n \in 1..MaxAttempts, transfers[<<d, n>>] = None
          PROVE  transfers'[<<d, n>>] = None
      <3>1. <<d, n>> \in Ids
        BY DEF Ids, FreshIds
      <3>2. <<d, n>> # id
        <4>1. CASE request[c].op = "create"
          BY <1>6, <4>1
        <4>2. CASE request[c].op # "create"
          <5>1. transfers[request[c].id] # None
            BY <1>0, <4>2, HeldTransfer
          <5>. QED
            BY <1>7, <2>3, <4>2, <5>1
        <4>. QED
          BY <4>1, <4>2
      <3>. QED
        BY <1>5, <2>3, <3>1, <3>2
    <2>. QED
      BY <1>0, <2>1, <2>2, <2>3 DEF OthersKept, locals
  <1>13. /\ GuardStep(c) /\ pc'[c] \in {"off", "backoff"}
         /\ pc'[c] = "backoff" => attempt[c] < MaxAttempts /\ answer'[c] # "ok"
    <2>1. CASE BodyReturns(c)
      BY <1>0, <2>1, BodyReturnsGuard
    <2>2. CASE BodyThrows(c)
      BY <1>0, <2>2, BodyThrowsGuard
    <2>. QED
      BY <2>1, <2>2 DEF SaveTransfer
  <1>14. Durable(c)'
    <2>1. TransferId(c)' = id
      BY <1>0, <1>13 DEF TransferId, GuardStep
    <2>. QED
      BY <1>0, <1>3, <1>5, <1>7, <1>8, <1>13, <2>1 DEF Durable, GuardStep
  <1>15. \A n \in 1..MaxAttempts : transfers'[<<c, n>>] # None =>
            n < attempt[c] \/ n = attempt[c]
    <2> SUFFICES ASSUME NEW n \in 1..MaxAttempts, transfers'[<<c, n>>] # None
                 PROVE  n < attempt[c] \/ n = attempt[c]
      OBVIOUS
    <2>1. <<c, n>> \in Ids
      BY DEF Ids, FreshIds
    <2>2. CASE transfers[<<c, n>>] # None
      BY <1>1, <2>2 DEF BodyShape
    <2>3. CASE transfers[<<c, n>>] = None
      <3>1. <<c, n>> = id
        BY <1>5, <2>1, <2>3
      <3>2. request[c].op = "create"
        BY <1>0, <1>7, <2>3, <3>1, HeldTransfer
      <3>. QED
        BY <1>6, <3>1, <3>2
    <2>. QED
      BY <2>2, <2>3
  <1>16. BodyShape(c)'
    BY <1>0, <1>1, <1>13, <1>14, <1>15
       DEF GuardStep, BodyShape, AfterStart, HasSource, HasDest, DbSteps
  <1>. QED
    BY <1>11, <1>12, <1>13, <1>16, BodyStepKeepsInv

-----------------------------------------------------------------------------
(* Every step, and what follows.                                           *)

LEMMA NextInv == Inv /\ [Next]_vars => Inv'
  <1> SUFFICES ASSUME Inv, [Next]_vars PROVE Inv'
    OBVIOUS
  <1>1. ASSUME NEW c \in Calls, Call(c) PROVE Inv'
    BY <1>1, CallInv
  <1>2. ASSUME NEW c \in Calls, Guard(c) PROVE Inv'
    BY <1>2, GuardInv
  <1>3. ASSUME NEW c \in Calls, RetryBody(c) PROVE Inv'
    BY <1>3, RetryInv
  <1>4. ASSUME NEW c \in Calls, BodyStep(c) PROVE Inv'
    BY <1>4, CheckCreateInv, FindTransferInv, CheckSourceInv, ReserveSourceInv, ReleaseSourceInv,
       LoadSourceInv, MoveToDestInv, DiffSourceInv, WriteSourceInv, DiffDestInv, WriteDestInv,
       SaveTransactionInv, SaveTransferInv DEF BodyStep
  <1>5. ASSUME NEW c \in Calls, DbFails(c) PROVE Inv'
    BY <1>5, DbFailsInv
  <1>6. ASSUME NEW k \in Keys, Expire(k) PROVE Inv'
    BY <1>6, ExpireInv
  <1>7. CASE UNCHANGED vars
    <2>1. UNCHANGED <<client, answer, lock, pc, attempt, Data>>
      BY <1>7 DEF vars, guardVars, Data, tables, locals
    <2>2. TypeOK'
      BY <2>1 DEF Inv, TypeOK, Data, tables, locals
    <2>3. Shape'
      BY <2>1 DEF Inv, Shape, BodyShape, Durable, TransferId, Data, tables, locals
    <2>4. CountersNeverNegative' /\ StatusIsRecorded'
      BY <2>1 DEF Inv, CountersNeverNegative, Stored, StatusIsRecorded, Recorded, Data, tables, locals
    <2>. QED
      BY <2>2, <2>3, <2>4 DEF Inv
  <1>. QED
    BY <1>1, <1>2, <1>3, <1>4, <1>5, <1>6, <1>7 DEF Next, Finished

LEMMA InvHolds == Spec => []Inv
  <1>1. Init => Inv
    BY InitInv
  <1>2. Inv /\ [Next]_vars => Inv'
    BY NextInv
  <1>. QED
    BY <1>1, <1>2, PTL DEF Spec

\* Tables, objects and decorators hold what the code says they hold.
THEOREM TypesCorrect == Spec => []TypeOK
  <1>1. Inv => TypeOK
    BY DEF Inv
  <1>. QED
    BY <1>1, InvHolds, PTL

\* No interleaving of transfers, and no fault, drives a counter of a row below zero,
\* whatever the two locks that name different operations let run at the same time.
THEOREM CountersCorrect == Spec => []CountersNeverNegative
  <1>1. Inv => CountersNeverNegative
    BY DEF Inv
  <1>. QED
    BY <1>1, InvHolds, PTL

\* A transfer that is in transit or completed has the transaction that took it there.
THEOREM StatusCorrect == Spec => []StatusIsRecorded
  <1>1. Inv => StatusIsRecorded
    BY DEF Inv
  <1>. QED
    BY <1>1, InvHolds, PTL

\* A caller who was told ok finds the transfer moved on and the transaction recorded.
THEOREM DurableCorrect == Spec => []AcknowledgedIsDurable
  <1>1. Inv => AcknowledgedIsDurable
    BY DEF Inv, Shape, BodyShape, Durable, AcknowledgedIsDurable
  <1>. QED
    BY <1>1, InvHolds, PTL

\* Only the last statement of a body writes a transfer: it inserts a new one as pending,
\* and gives any other a status past it.
THEOREM NeverPendingCorrect == Spec => NeverPendingAgain
  <1> DEFINE Kept == \A id \in Ids :
                (transfers[id] # None /\ transfers[id].status # "PENDING") =>
                    transfers'[id].status # "PENDING"
  <1>1. ASSUME Inv, [Next]_vars PROVE [Kept]_vars
    <2>1. CASE transfers' = transfers
      BY <2>1
    <2>2. ASSUME NEW c \in Calls, SaveTransfer(c) PROVE Kept
      <3>1. OthersKept(c)
        BY <1>1, <2>2, SaveTransferInv
      <3>. QED
        BY <3>1 DEF OthersKept, Settled
    <2>3. transfers' = transfers \/ \E c \in Calls : SaveTransfer(c)
      BY <1>1
         DEF Next, Finished, Call, Guard, RetryBody, BodyStep, DbFails, DbRejects, Expire, Refuse,
             CheckCreate, FindTransfer, CheckSource, ReserveSource, ReleaseSource, LoadSource,
             MoveToDest, DiffSource, WriteSource, DiffDest, WriteDest, SaveTransaction,
             vars, tables
    <2>. QED
      BY <2>1, <2>2, <2>3
  <1>2. Spec => []Inv /\ [][Next]_vars
    BY InvHolds DEF Spec
  <1>. QED
    BY <1>1, <1>2, PTL DEF NeverPendingAgain

-----------------------------------------------------------------------------
(* One transfer is handled and no body outlives its call: the locks then   *)
(* do what they are there for.  Two bodies that move stock are of the same *)
(* transfer; of the same operation they would hold the same lock, and of   *)
(* different ones they would have found it in different states.  So a body *)
(* that moves stock finds every row as it left it (OneMover), and the      *)
(* columns it writes are those it means to change.                         *)

\* The requests that createTransfer's checks let pass.
Accepted(r) == r.from # r.to /\ {r.from, r.to} \subseteq KnownStores

\* The ids under which there can be a transfer.
CanExist ==
    DOMAIN Prior \cup {id \in FreshIds : \E r \in Requests \cap CreateRequest : Accepted(r)}

\* Nobody fails a transfer, and those who start and complete one mean the same.
OneTransfer ==
    /\ \A r \in Requests : r.op # "fail"
    /\ \A r, s \in Requests \cap HandleRequest :
            r.id \in CanExist /\ s.id \in CanExist => r.id = s.id

\* The body may change stock.
Mover(c) == pc[c] \in AfterStart /\ request[c].op # "create"

LockShape(c) ==
    /\ pc[c] # "off" => client[c] = "fired"
    /\ client[c] = "fired" => lock[Key(c)] = c

Locks == \A c \in Calls : LockShape(c)

\* A row's id is a body's own until the body has inserted it.
UnusedRows(c) ==
    \A n \in 1..MaxAttempts : inventory[<<c, n>>] # None =>
        \/ n < attempt[c]
        \/ n = attempt[c] /\ pc[c] \in {"off", "backoff", "saveTransaction", "saveTransfer"}

CreateShape(c) ==
    (pc[c] \in AfterStart /\ request[c].op = "create") =>
        /\ Accepted(request[c])
        /\ transfer[c] = [from |-> request[c].from, to |-> request[c].to,
                          qty |-> request[c].qty, status |-> "PENDING"]
        /\ pc[c] \in {"readSource", "saveTransfer"}
        /\ pc[c] = "saveTransfer" => RowsOf(transfer[c].from) # {}

\* The source's object is the row and what the body does to it.
SourceSeen(c) ==
    LET row == inventory[source[c].id]
        qty == transfer[c].qty
    IN  /\ source[c].id \in RowsOf(transfer[c].from)
        /\ pc[c] = "readDest" => source[c].item = row.item
        /\ (pc[c] # "readDest" /\ request[c].op = "start") =>
                CanReserve(row.item, qty) /\ source[c].item = ReserveStock(row.item, qty)
        /\ (pc[c] # "readDest" /\ request[c].op = "complete") =>
                source[c].item = ConfirmSale(row.item, qty)
        /\ pc[c] = "writeSource" => dirty[c] = Differing(source[c].item, row.item)

\* And the destination's, which may have no row yet.
DestSeen(c) ==
    LET row == inventory[dest[c].id]
        qty == transfer[c].qty
    IN  \/ /\ dest[c].id \in RowsOf(transfer[c].to)
           /\ dest[c].item = AddStock(row.item, qty)
           /\ pc[c] = "writeDest" => dirty[c] = Differing(dest[c].item, row.item)
        \/ /\ RowsOf(transfer[c].to) = {}
           /\ dest[c].id = <<c, attempt[c]>>
           /\ dest[c].item = AddStock(EmptyItem, qty)

MoverShape(c) ==
    Mover(c) =>
        /\ transfer[c] = transfers[request[c].id]
        /\ CanHandle(request[c].op, transfer[c].status)
        /\ pc[c] \in {"readDest", "diffSource", "writeSource"} => SourceSeen(c)
        /\ (pc[c] \in HasDest /\ request[c].op = "complete") => DestSeen(c)

View(c) == UnusedRows(c) /\ CreateShape(c) /\ MoverShape(c)

TransfersProper ==
    \A id \in Ids : transfers[id] # None =>
        id \in CanExist /\ transfers[id].from # transfers[id].to

Tidy == (\A c \in Calls : View(c)) /\ TransfersProper /\ OneRowPerStore

Orderly == Locks /\ Tidy

\* At the start no body runs, and a row has the name of its store.
LEMMA InitOrderly == Init => Orderly
  <1> SUFFICES ASSUME Init PROVE Orderly
    OBVIOUS
  <1>1. ASSUME NEW c \in Calls PROVE LockShape(c) /\ CreateShape(c) /\ MoverShape(c)
    BY DEF Init, GuardInit, LockShape, CreateShape, MoverShape, Mover, AfterStart, DbSteps
  <1>2. ASSUME NEW c \in Calls, NEW n \in 1..MaxAttempts PROVE inventory[<<c, n>>] = None
    <2>1. <<c, n>> \in FreshIds
      BY DEF FreshIds
    <2>. QED
      BY <2>1, TransferNoneAssumption DEF Init, InitialRow, RowIds
  <1>3. TransfersProper
    BY TransferPriorAssumption DEF Init, TransfersProper, CanExist
  <1>4. OneRowPerStore
    <2>1. \A s \in Stores : \A r \in RowsOf(s) : r = s
      BY DEF Init, RowsOf, InitialRow
    <2>. QED
      BY <2>1 DEF OneRowPerStore
  <1>. QED
    BY <1>1, <1>2, <1>3, <1>4 DEF Orderly, Locks, Tidy, View, UnusedRows

\* How a step of a body ends.
LEMMA BodyEnds ==
    ASSUME NEW c \in Calls, BodyStep(c) \/ DbFails(c)
    PROVE  /\ pc[c] \in DbSteps /\ request' = request
           /\ \/ BodyThrows(c)
              \/ BodyReturns(c)
              \/ \E step \in AfterStart : BodyContinues(c, step)
  BY DEF BodyStep, DbFails, DbRejects, Refuse, CheckCreate, FindTransfer, CheckSource,
         ReserveSource, ReleaseSource, LoadSource, MoveToDest, DiffSource, WriteSource,
         DiffDest, WriteDest, SaveTransaction, SaveTransfer, ReplyOrLost, AfterSource,
         AfterStart, DbSteps

\* The lock of a call that was fired is taken from it by nobody.
LEMMA LocksKept ==
    ASSUME Inv, Locks, [Next]_vars, "timeout" \notin Faults
    PROVE  Locks'
  <1>1. ASSUME NEW c \in Calls, Call(c) PROVE Locks'
    <2>1. /\ client[c] = "idle" /\ client'[c] = "waiting" /\ pc[c] = "off"
          /\ UNCHANGED <<pc, lock>>
          /\ \A d \in Calls \ {c} : client'[d] = client[d] /\ request'[d] = request[d]
      BY <1>1 DEF Call, Invoke, Inv, TypeOK, Shape, BodyShape
    <2>. QED
      BY <2>1 DEF Locks, LockShape, Key
  <1>2. ASSUME NEW c \in Calls, Guard(c) PROVE Locks'
    <2> DEFINE k == Key(c)
    <2>1. GuardKept(c) /\ request' = request
      BY <1>2, GuardTypes DEF GuardKept, Data
    <2>2. k \in Keys /\ client[c] # "idle"
      BY <1>2, KeyIsAKey
         DEF Guard, Enter, AcquireAndFire, AcquireAndReject, NotLocked, WaitTimeout,
             AcquireFails, Timeout, Release, ReleaseFails, Crash
    <2>3. \/ lock' = lock
          \/ lock[k] = None /\ lock' = [lock EXCEPT ![k] = c]
          \/ client[c] = "releasing" /\ lock' = [lock EXCEPT ![k] = IF @ = c THEN None ELSE @]
      BY <1>2 DEF Guard, Enter, AcquireAndFire, AcquireAndReject, NotLocked, WaitTimeout,
             AcquireFails, Timeout, Release, ReleaseFails, Crash
    <2>4. ASSUME NEW d \in Calls \ {c}, client[d] = "fired" PROVE lock'[Key(d)] = d
      <3>1. lock[Key(d)] = d /\ d # None
        BY <2>4, NoneAssumption DEF Locks, LockShape
      <3>2. Key(d) \in Keys
        BY <2>4, KeyIsAKey
      <3>. QED
        BY <2>2, <2>3, <3>1, <3>2 DEF Inv, TypeOK
    <2>5. \A d \in Calls : Key(d)' = Key(d)
      BY <2>1 DEF Key
    <2>6. LockShape(c)'
      <3>1. LockShape(c) /\ BodyShape(c)
        BY DEF Locks, Inv, Shape
      <3>2. CASE AcquireAndFire(c, k)
        BY <2>2, <2>5, <3>2 DEF AcquireAndFire, Inv, TypeOK, LockShape
      <3>3. CASE ~AcquireAndFire(c, k)
        <4>1. client'[c] # "fired" /\ client[c] # "idle" /\ pc'[c] \in {pc[c], "off"}
              /\ (pc'[c] # "off" => client[c] \in {"waiting", "releasing"})
          BY <1>2, <3>3 DEF Inv, TypeOK, Guard, Enter, AcquireAndReject, NotLocked,
             WaitTimeout, AcquireFails, Timeout, Release, ReleaseFails, Crash
        <4>. QED
          BY <3>1, <4>1 DEF LockShape
      <3>. QED
        BY <3>2, <3>3
    <2>. QED
      BY <2>1, <2>4, <2>5, <2>6 DEF GuardKept, Locks, LockShape
  <1>3. ASSUME NEW c \in Calls, RetryBody(c) PROVE Locks'
    BY <1>3 DEF RetryBody, Retry, Goto, Inv, TypeOK, Locks, LockShape, Key
  <1>4. ASSUME NEW c \in Calls, BodyStep(c) \/ DbFails(c) PROVE Locks'
    <2>1. /\ lock' = lock /\ request' = request
          /\ pc[c] # "off"
          /\ \A d \in Calls \ {c} : client'[d] = client[d] /\ pc'[d] = pc[d]
          /\ client'[c] = client[c] \/ (client'[c] = "releasing" /\ pc'[c] = "off")
      BY <1>4, BodyEnds
         DEF BodyThrows, BodyReturns, BodyContinues, Goto, Settle, DbSteps, Inv, TypeOK
    <2>. QED
      BY <2>1 DEF Locks, LockShape, Key
  <1>5. ASSUME NEW k \in Keys, Expire(k) PROVE Locks'
    <2>1. /\ UNCHANGED <<client, pc, request>> /\ client[lock[k]] # "fired"
          /\ \A i \in Keys \ {k} : lock'[i] = lock[i]
      BY <1>5 DEF Expire, LeaseExpires, Inv, TypeOK
    <2>2. ASSUME NEW d \in Calls, client[d] = "fired" PROVE lock'[Key(d)] = d
      BY <2>1, <2>2, KeyIsAKey DEF Locks, LockShape
    <2>. QED
      BY <2>1, <2>2 DEF Locks, LockShape, Key
  <1>6. CASE UNCHANGED vars
    BY <1>6 DEF vars, guardVars, Locks, LockShape, Key
  <1>. QED
    BY <1>1, <1>2, <1>3, <1>4, <1>5, <1>6 DEF Next, Finished

\* Two bodies that move stock are one.
LEMMA OneMover ==
    ASSUME Inv, Orderly, OneTransfer, NEW c \in Calls, Mover(c), NEW d \in Calls, Mover(d)
    PROVE  c = d
  <1> DEFINE r(e) == request[e]
  <1>1. ASSUME NEW e \in Calls, Mover(e)
        PROVE  /\ r(e) \in Requests /\ r(e) \in HandleRequest /\ r(e).id \in CanExist
               /\ \/ r(e).op = "start" /\ transfers[r(e).id].status = "PENDING"
                  \/ r(e).op = "complete" /\ transfers[r(e).id].status = "IN_TRANSIT"
               /\ lock[<<r(e).op, r(e).id>>] = e
    <2>1. pc[e] \in AfterStart /\ pc[e] # "off" /\ r(e).op # "create"
      BY <1>1 DEF Mover, AfterStart, DbSteps
    <2>2. r(e) \in Requests
      BY <2>1, RunningBody
    <2>3. r(e) \in HandleRequest /\ r(e).op # "fail"
      BY <2>1, <2>2, TransferRequestsAssumption DEF CreateRequest, OneTransfer
    <2>4. r(e).op \in {"start", "complete"} /\ r(e).id \in Ids
      BY <2>3 DEF HandleRequest
    <2>5. transfers[r(e).id] # None
      BY <2>1, HeldTransfer
    <2>6. /\ transfer[e] = transfers[r(e).id]
          /\ CanHandle(r(e).op, transfer[e].status)
      BY <1>1 DEF Orderly, Tidy, View, MoverShape
    <2>7. CASE r(e).op = "start"
      <3>1. transfers[r(e).id].status = "PENDING"
        BY <2>6, <2>7 DEF CanHandle
      <3>. QED
        BY <2>1, <2>2, <2>3, <2>4, <2>5, <2>7, <3>1
           DEF Orderly, Tidy, TransfersProper, Locks, LockShape, Key, LockKey
    <2>8. CASE r(e).op = "complete"
      <3>1. transfers[r(e).id].status = "IN_TRANSIT"
        BY <2>6, <2>8 DEF CanHandle
      <3>. QED
        BY <2>1, <2>2, <2>3, <2>4, <2>5, <2>8, <3>1
           DEF Orderly, Tidy, TransfersProper, Locks, LockShape, Key, LockKey
    <2>. QED
      BY <2>4, <2>7, <2>8
  <1>2. /\ r(c) \in Requests \cap HandleRequest /\ r(c).id \in CanExist
        /\ r(d) \in Requests \cap HandleRequest /\ r(d).id \in CanExist
    BY <1>1
  <1>3. r(c).id = r(d).id
    BY <1>2 DEF OneTransfer
  <1> DEFINE found(e) == \/ r(e).op = "start" /\ transfers[r(e).id].status = "PENDING"
                         \/ r(e).op = "complete" /\ transfers[r(e).id].status = "IN_TRANSIT"
             held(e) == lock[<<r(e).op, r(e).id>>] = e
  <1>4. found(c) /\ found(d) /\ held(c) /\ held(d)
    BY <1>1
  <1>. QED
    BY <1>3, <1>4

\* What a body sees does not change while its locals, the rows and its transfer stay.
LEMMA ViewKept ==
    ASSUME NEW d \in Calls, View(d), inventory' = inventory,
           pc'[d] = pc[d], attempt'[d] = attempt[d], request'[d] = request[d],
           transfer'[d] = transfer[d], source'[d] = source[d], dest'[d] = dest[d],
           dirty'[d] = dirty[d],
           Mover(d) => transfers'[request[d].id] = transfers[request[d].id]
    PROVE  View(d)'
  <1>1. \A s : RowsOf(s)' = RowsOf(s)
    BY DEF RowsOf
  <1>2. UnusedRows(d)'
    BY DEF View, UnusedRows
  <1>3. CreateShape(d)'
    BY <1>1 DEF View, CreateShape
  <1>4. SourceSeen(d)' <=> SourceSeen(d)
    BY <1>1 DEF SourceSeen
  <1>5. DestSeen(d)' <=> DestSeen(d)
    BY <1>1 DEF DestSeen
  <1>6. MoverShape(d)'
    BY <1>4, <1>5 DEF View, MoverShape, Mover
  <1>. QED
    BY <1>2, <1>3, <1>6 DEF View

\* A step that writes neither rows nor transfers.
Quiet(c) ==
    /\ UNCHANGED <<inventory, transfers>>
    /\ \A d \in Calls \ {c} :
        /\ pc'[d] = pc[d] /\ attempt'[d] = attempt[d]
        /\ transfer'[d] = transfer[d] /\ source'[d] = source[d] /\ dest'[d] = dest[d]
        /\ dirty'[d] = dirty[d]
        /\ request'[d] = request[d]

LEMMA QuietKeeps ==
    ASSUME Tidy, NEW c \in Calls, Quiet(c), View(c)'
    PROVE  Tidy'
  <1>1. \A d \in Calls \ {c} : View(d)'
    BY ViewKept DEF Tidy, Quiet
  <1>2. TransfersProper'
    BY DEF Tidy, TransfersProper, Quiet
  <1>3. OneRowPerStore'
    BY DEF Tidy, OneRowPerStore, RowsOf, Quiet
  <1>. QED
    BY <1>1, <1>2, <1>3 DEF Tidy

\* A body that has thrown, or not begun, sees nothing.
LEMMA AtRest ==
    ASSUME NEW c \in Calls, View(c), inventory' = inventory,
           pc'[c] \in {"off", "backoff"}, attempt'[c] = attempt[c]
    PROVE  View(c)'
  <1>1. pc'[c] \notin AfterStart
    BY DEF AfterStart, DbSteps
  <1>. QED
    BY <1>1 DEF View, UnusedRows, CreateShape, MoverShape, Mover

LEMMA Starting ==
    ASSUME NEW c \in Calls, inventory' = inventory, pc'[c] = "start",
           \A n \in 1..MaxAttempts : inventory[<<c, n>>] # None => n < attempt'[c]
    PROVE  View(c)'
  BY DEF View, UnusedRows, CreateShape, MoverShape, Mover, AfterStart, DbSteps

\* The decorators.
LEMMA GuardTidy ==
    ASSUME Inv, Tidy, NEW c \in Calls, Call(c) \/ Guard(c) \/ RetryBody(c)
    PROVE  Tidy'
  <1> USE DEF Call, Guard, RetryBody, Invoke, Enter, AcquireAndFire, AcquireAndReject, NotLocked,
              WaitTimeout, AcquireFails, Timeout, Release, ReleaseFails, Crash, Retry, Goto
  <1>1. Quiet(c)
    BY DEF Inv, TypeOK, Quiet, tables, locals
  <1>2. BodyShape(c) /\ View(c) /\ attempt[c] \in Int
    BY DEF Inv, TypeOK, Shape, Tidy
  <1>3. \/ pc'[c] = "off" /\ attempt'[c] = attempt[c]
        \/ /\ client[c] = "waiting" /\ pc'[c] = "start" /\ attempt'[c] = 1
        \/ /\ pc'[c] = pc[c] /\ attempt'[c] = attempt[c] /\ request'[c] = request[c]
        \/ pc[c] = "backoff" /\ pc'[c] = "start" /\ attempt'[c] = attempt[c] + 1
    BY <1>2 DEF Inv, TypeOK, BodyShape
  <1>4. inventory' = inventory /\ transfers' = transfers /\ locals' = locals
    BY DEF tables
  <1>5. View(c)'
    <2>1. CASE pc'[c] = "off" /\ attempt'[c] = attempt[c]
      BY <1>2, <1>4, <2>1, AtRest
    <2>2. CASE client[c] = "waiting" /\ pc'[c] = "start" /\ attempt'[c] = 1
      BY <1>2, <1>4, <2>2, Starting DEF BodyShape, View, UnusedRows
    <2>3. CASE pc'[c] = pc[c] /\ attempt'[c] = attempt[c] /\ request'[c] = request[c]
      BY <1>2, <1>4, <2>3, ViewKept DEF locals
    <2>4. CASE pc[c] = "backoff" /\ pc'[c] = "start" /\ attempt'[c] = attempt[c] + 1
      BY <1>2, <1>4, <2>4, Starting DEF View, UnusedRows
    <2>. QED
      BY <1>3, <2>1, <2>2, <2>3, <2>4
  <1>. QED
    BY <1>1, <1>5, QuietKeeps

\* A step of a body that throws and changes no data.
LEMMA RefuseTidy ==
    ASSUME Inv, Tidy, NEW c \in Calls, pc[c] # "off", Refuse(c)
    PROVE  Tidy'
  <1>1. GuardStep(c) /\ pc'[c] \in {"off", "backoff"}
    BY BodyThrowsGuard DEF Refuse
  <1>2. Quiet(c)
    BY <1>1 DEF GuardStep, Quiet, Refuse, tables, locals
  <1>3. View(c)'
    BY <1>1, AtRest DEF Tidy, GuardStep, Refuse, tables
  <1>. QED
    BY <1>2, <1>3, QuietKeeps

\* A body that goes on keeps Tidy if what it now knows is so.
LEMMA GoOn ==
    ASSUME Inv, Tidy, NEW c \in Calls, NEW step \in AfterStart,
           pc[c] \in DbSteps \ {"saveTransfer"},
           pc[c] = "saveTransaction" => step = "saveTransfer",
           BodyContinues(c, step), UNCHANGED <<request, inventory, transfers>>,
           \A d \in Calls \ {c} :
                /\ transfer'[d] = transfer[d] /\ source'[d] = source[d] /\ dest'[d] = dest[d]
                /\ dirty'[d] = dirty[d],
           (pc'[c] = step /\ attempt'[c] = attempt[c]) => (CreateShape(c) /\ MoverShape(c))'
    PROVE  Tidy'
  <1>1. /\ pc'[c] = step /\ attempt' = attempt
        /\ \A d \in Calls \ {c} : pc'[d] = pc[d]
    BY DEF BodyContinues, Goto, Inv, TypeOK
  <1>2. UnusedRows(c)'
    <2>1. pc[c] \notin {"off", "backoff", "saveTransfer"}
      BY DEF DbSteps
    <2>. QED
      BY <1>1, <2>1 DEF Tidy, View, UnusedRows
  <1>3. View(c)'
    BY <1>1, <1>2 DEF View
  <1>. QED
    BY <1>1, <1>3, QuietKeeps DEF Quiet

LEMMA CheckCreateTidy ==
    ASSUME Inv, Tidy, NEW c \in Calls, CheckCreate(c)
    PROVE  Tidy'
  <1>0. pc[c] = "start" /\ request[c].op = "create"
    BY DEF CheckCreate
  <1>1. CASE Refuse(c)
    BY <1>0, <1>1, RefuseTidy
  <1>2. CASE ~Refuse(c)
    <2>1. /\ Accepted(request[c])
          /\ transfer' = [transfer EXCEPT ![c] =
                [from |-> request[c].from, to |-> request[c].to, qty |-> request[c].qty,
                 status |-> "PENDING"]]
          /\ BodyContinues(c, "readSource")
          /\ UNCHANGED <<request, tables, source, dest, dirty>>
      BY <1>2 DEF CheckCreate, Accepted
    <2>2. pc'[c] = "readSource" => (CreateShape(c) /\ MoverShape(c))'
      BY <1>0, <2>1 DEF Inv, TypeOK, CreateShape, MoverShape, Mover, Accepted
    <2>. QED
      BY <1>0, <2>1, <2>2, GoOn DEF Inv, TypeOK, tables, AfterStart, DbSteps
  <1>. QED
    BY <1>1, <1>2

LEMMA FindTransferTidy ==
    ASSUME Inv, Tidy, OneTransfer, NEW c \in Calls, FindTransfer(c)
    PROVE  Tidy'
  <1>0. /\ pc[c] = "start" /\ request[c].op # "create" /\ request[c] \in Requests
        /\ request[c].op # "fail"
    BY RunningBody DEF FindTransfer, OneTransfer
  <1>1. CASE Refuse(c)
    BY <1>0, <1>1, RefuseTidy
  <1>2. CASE ~Refuse(c)
    <2>1. /\ CanHandle(request[c].op, transfers[request[c].id].status)
          /\ transfer' = [transfer EXCEPT ![c] = transfers[request[c].id]]
          /\ BodyContinues(c, "readSource")
          /\ UNCHANGED <<request, tables, source, dest, dirty>>
      BY <1>0, <1>2 DEF FindTransfer
    <2>2. transfer'[c] = transfers[request[c].id]
          /\ \A d \in Calls \ {c} : transfer'[d] = transfer[d]
      BY <2>1 DEF Inv, TypeOK
    <2>3. pc'[c] = "readSource" => (CreateShape(c) /\ MoverShape(c))'
      BY <1>0, <2>1, <2>2 DEF tables, CreateShape, MoverShape, HasDest, HasSource
    <2>. QED
      BY <1>0, <2>1, <2>2, <2>3, GoOn DEF tables, AfterStart, DbSteps
  <1>. QED
    BY <1>1, <1>2

LEMMA CheckSourceTidy ==
    ASSUME Inv, Tidy, NEW c \in Calls, CheckSource(c)
    PROVE  Tidy'
  <1>0. pc[c] = "readSource" /\ request[c].op = "create" /\ pc[c] \in AfterStart
    BY DEF CheckSource, AfterStart, DbSteps
  <1>1. CASE Refuse(c)
    BY <1>0, <1>1, RefuseTidy
  <1>2. CASE ~Refuse(c)
    <2>1. /\ RowsOf(transfer[c].from) # {}
          /\ BodyContinues(c, "saveTransfer")
          /\ UNCHANGED <<request, tables, locals>>
      BY <1>2 DEF CheckSource
    <2>2. CreateShape(c)
      BY DEF Tidy, View
    <2>3. RowsOf(transfer[c].from)' = RowsOf(transfer[c].from)
      BY <2>1 DEF RowsOf, tables, locals
    <2>4. pc'[c] = "saveTransfer" => (CreateShape(c) /\ MoverShape(c))'
      BY <1>0, <2>1, <2>2, <2>3 DEF CreateShape, MoverShape, Mover, locals
    <2>. QED
      BY <1>0, <2>1, <2>4, GoOn DEF tables, locals, AfterStart, DbSteps
  <1>. QED
    BY <1>1, <1>2

\* What a body that moves stock knows of its transfer stays with it.
LEMMA MoverGoesOn ==
    ASSUME Tidy, NEW c \in Calls, Mover(c), NEW step \in AfterStart,
           pc'[c] = step, UNCHANGED <<request, transfers, transfer>>,
           step \in {"readDest", "diffSource", "writeSource"} => SourceSeen(c)',
           (step \in HasDest /\ request[c].op = "complete") => DestSeen(c)'
    PROVE  (CreateShape(c) /\ MoverShape(c))'
  BY DEF Tidy, View, CreateShape, MoverShape, Mover

LEMMA ReserveSourceTidy ==
    ASSUME Inv, Tidy, NEW c \in Calls, ReserveSource(c)
    PROVE  Tidy'
  <1>0. pc[c] = "readSource" /\ request[c].op = "start" /\ Mover(c)
    BY DEF ReserveSource, Mover, AfterStart, DbSteps
  <1>1. CASE Refuse(c)
    BY <1>0, <1>1, RefuseTidy
  <1> DEFINE qty == transfer[c].qty
             object(r) == [id |-> r, item |-> ReserveStock(inventory[r].item, qty)]
  <1>2. CASE ~Refuse(c)
    <2>1. PICK r \in RowsOf(transfer[c].from) :
            /\ CanReserve(inventory[r].item, qty)
            /\ source' = [source EXCEPT ![c] = object(r)]
            /\ BodyContinues(c, "diffSource")
            /\ UNCHANGED <<request, tables, transfer, dest, dirty>>
      BY <1>2 DEF ReserveSource
    <2>2. /\ source'[c].id = r /\ source'[c].item = ReserveStock(inventory[r].item, qty)
          /\ \A d \in Calls \ {c} : source'[d] = source[d]
      BY <2>1 DEF Inv, TypeOK
    <2>3. \A s : RowsOf(s)' = RowsOf(s)
      BY <2>1 DEF RowsOf, tables
    <2>4. pc'[c] = "diffSource" => SourceSeen(c)'
      BY <1>0, <2>1, <2>2, <2>3 DEF SourceSeen, tables
    <2>5. pc'[c] = "diffSource" => (CreateShape(c) /\ MoverShape(c))'
      BY <1>0, <2>1, <2>4, MoverGoesOn DEF tables, AfterStart, DbSteps
    <2>. QED
      BY <1>0, <2>1, <2>2, <2>5, GoOn DEF tables, AfterStart, DbSteps
  <1>. QED
    BY <1>1, <1>2

LEMMA LoadSourceTidy ==
    ASSUME Inv, Tidy, NEW c \in Calls, LoadSource(c)
    PROVE  Tidy'
  <1>0. pc[c] = "readSource" /\ request[c].op = "complete" /\ Mover(c)
    BY DEF LoadSource, Mover, AfterStart, DbSteps
  <1>1. CASE Refuse(c)
    BY <1>0, <1>1, RefuseTidy
  <1>2. CASE ~Refuse(c)
    <2>1. PICK r \in RowsOf(transfer[c].from) :
            /\ source' = [source EXCEPT ![c] = [id |-> r, item |-> inventory[r].item]]
            /\ BodyContinues(c, "readDest")
            /\ UNCHANGED <<request, tables, transfer, dest, dirty>>
      BY <1>2 DEF LoadSource
    <2>2. /\ source'[c].id = r /\ source'[c].item = inventory[r].item
          /\ \A d \in Calls \ {c} : source'[d] = source[d]
      BY <2>1 DEF Inv, TypeOK
    <2>3. \A s : RowsOf(s)' = RowsOf(s)
      BY <2>1 DEF RowsOf, tables
    <2>4. pc'[c] = "readDest" => SourceSeen(c)'
      BY <1>0, <2>1, <2>2, <2>3 DEF SourceSeen, tables
    <2>5. pc'[c] = "readDest" => (CreateShape(c) /\ MoverShape(c))'
      BY <1>0, <2>1, <2>4, MoverGoesOn DEF tables, AfterStart, DbSteps, HasDest
    <2>. QED
      BY <1>0, <2>1, <2>2, <2>5, GoOn DEF tables, AfterStart, DbSteps
  <1>. QED
    BY <1>1, <1>2

LEMMA MoveToDestTidy ==
    ASSUME Inv, Tidy, NEW c \in Calls, MoveToDest(c)
    PROVE  Tidy'
  <1>0. /\ pc[c] = "readDest" /\ pc[c] \in AfterStart /\ pc[c] # "off"
    BY DEF MoveToDest, AfterStart, DbSteps
  <1>1. BodyShape(c) /\ request[c].op = "complete" /\ Mover(c) /\ source[c] \in Object
    BY <1>0, RunningBody DEF BodyShape, Mover, HasSource, Sound
  <1>2. CASE Refuse(c)
    BY <1>0, <1>2, RefuseTidy
  <1> DEFINE qty == transfer[c].qty
             sold == [source[c] EXCEPT !.item = ConfirmSale(@, qty)]
             grown(d) == [d EXCEPT !.item = AddStock(@, qty)]
  <1>3. CASE ~Refuse(c)
    <2>1. PICK d \in DestObjects(c) :
            /\ source' = [source EXCEPT ![c].item = ConfirmSale(@, qty)]
            /\ dest' = [dest EXCEPT ![c] = grown(d)]
            /\ BodyContinues(c, "diffSource")
            /\ UNCHANGED <<request, tables, transfer, dirty>>
      BY <1>3 DEF MoveToDest
    <2>2. d \in Object
      BY <1>0, DestTypes DEF Sound
    <2>3. source' = [source EXCEPT ![c] = sold]
      <3> HIDE DEF qty
      <3>. QED
        BY <2>1
    <2>4. sold.id = source[c].id /\ sold.item = ConfirmSale(source[c].item, qty)
      <3> HIDE DEF qty
      <3>. QED
        BY <1>1 DEF Object
    <2>5. grown(d).id = d.id /\ grown(d).item = AddStock(d.item, qty)
      <3> HIDE DEF qty
      <3>. QED
        BY <2>2 DEF Object
    <2> HIDE DEF sold, grown
    <2>6. /\ source'[c] = sold /\ dest'[c] = grown(d)
          /\ \A e \in Calls \ {c} : source'[e] = source[e] /\ dest'[e] = dest[e]
      BY <2>1, <2>3 DEF Inv, TypeOK
    <2>7. \A s : RowsOf(s)' = RowsOf(s)
      BY <2>1 DEF RowsOf, tables
    <2>8. SourceSeen(c)
      BY <1>0, <1>1 DEF Tidy, View, MoverShape
    <2>9. /\ inventory' = inventory /\ transfer' = transfer /\ request' = request
          /\ attempt' = attempt
      BY <2>1 DEF tables, BodyContinues
    <2>10. pc'[c] = "diffSource" => SourceSeen(c)'
      <3>1. source[c].id \in RowsOf(transfer[c].from) /\ source[c].item = inventory[source[c].id].item
        BY <1>0, <2>8 DEF SourceSeen
      <3> HIDE DEF qty
      <3>. QED
        BY <1>1, <2>4, <2>6, <2>7, <2>9, <3>1 DEF SourceSeen, qty
    <2>11. pc'[c] = "diffSource" => DestSeen(c)'
      <3>1. CASE RowsOf(transfer[c].to) = {}
        <4>1. d = [id |-> <<c, attempt[c]>>, item |-> EmptyItem]
          BY <3>1 DEF DestObjects
        <4>2. dest'[c].id = <<c, attempt[c]>> /\ dest'[c].item = AddStock(EmptyItem, qty)
          BY <2>5, <2>6, <4>1
        <4>. QED
          BY <2>7, <2>9, <3>1, <4>2 DEF DestSeen
      <3>2. CASE RowsOf(transfer[c].to) # {}
        <4>1. PICK r \in RowsOf(transfer[c].to) : d = [id |-> r, item |-> inventory[r].item]
          BY <3>2 DEF DestObjects
        <4>2. dest'[c].id = r /\ dest'[c].item = AddStock(inventory[r].item, qty)
          BY <2>5, <2>6, <4>1
        <4>. QED
          BY <2>7, <2>9, <4>2 DEF DestSeen
      <3>. QED
        BY <3>1, <3>2
    <2>12. pc'[c] = "diffSource" => (CreateShape(c) /\ MoverShape(c))'
      BY <1>1, <2>1, <2>10, <2>11, MoverGoesOn DEF tables, AfterStart, DbSteps
    <2>. QED
      BY <1>0, <2>1, <2>6, <2>12, GoOn DEF tables, AfterStart, DbSteps
  <1>. QED
    BY <1>2, <1>3

\* The SELECT of a save finds the row as the body has seen it.
LEMMA DiffTidy ==
    ASSUME Inv, Tidy, OneTransfer, NEW c \in Calls, DiffSource(c) \/ DiffDest(c)
    PROVE  Tidy'
  <1>0. /\ pc[c] \in {"diffSource", "diffDest"} /\ pc[c] \in AfterStart /\ pc[c] # "off"
        /\ pc[c] \in HasDest
    BY DEF DiffSource, DiffDest, AfterStart, DbSteps, HasSource, HasDest
  <1>1. BodyShape(c) /\ request[c] \in Requests /\ request[c].op # "fail"
    BY <1>0, RunningBody DEF OneTransfer
  <1>2. Mover(c)
    <2>1. CreateShape(c)
      BY DEF Tidy, View
    <2>. QED
      BY <1>0, <2>1 DEF CreateShape, Mover
  <1>3. MoverShape(c)
    BY DEF Tidy, View
  <1>4. request' = request /\ inventory' = inventory /\ transfers' = transfers
        /\ transfer' = transfer /\ source' = source /\ dest' = dest /\ attempt' = attempt
    BY DEF DiffSource, DiffDest, tables, BodyContinues
  <1>5. \A s : RowsOf(s)' = RowsOf(s)
    BY <1>4 DEF RowsOf
  <1>6. CASE DiffSource(c)
    <2>1. /\ pc[c] = "diffSource" /\ BodyContinues(c, "writeSource")
          /\ dirty' = [dirty EXCEPT ![c] =
                Differing(source[c].item, inventory[source[c].id].item)]
      BY <1>6 DEF DiffSource
    <2>2. /\ dirty'[c] = Differing(source[c].item, inventory[source[c].id].item)
          /\ \A d \in Calls \ {c} : dirty'[d] = dirty[d]
      BY <2>1 DEF Inv, TypeOK
    <2>3. pc'[c] = "writeSource" => SourceSeen(c)'
      BY <1>2, <1>3, <1>4, <1>5, <2>1, <2>2 DEF MoverShape, SourceSeen
    <2>4. (pc'[c] = "writeSource" /\ request[c].op = "complete") => DestSeen(c)'
      BY <1>0, <1>2, <1>3, <1>4, <1>5, <2>1 DEF MoverShape, DestSeen
    <2>5. pc'[c] = "writeSource" => (CreateShape(c) /\ MoverShape(c))'
      BY <1>2, <1>4, <2>3, <2>4, MoverGoesOn DEF AfterStart, DbSteps
    <2>. QED
      BY <1>4, <2>1, <2>2, <2>5, GoOn DEF AfterStart, DbSteps
  <1>7. CASE DiffDest(c)
    <2> DEFINE row == inventory[dest[c].id]
    <2>1. /\ pc[c] = "diffDest" /\ BodyContinues(c, "writeDest")
          /\ dirty' = [dirty EXCEPT ![c] =
                IF row = None THEN Fields ELSE Differing(dest[c].item, row.item)]
      BY <1>7 DEF DiffDest
    <2>2. /\ row # None => dirty'[c] = Differing(dest[c].item, row.item)
          /\ \A d \in Calls \ {c} : dirty'[d] = dirty[d]
      BY <2>1 DEF Inv, TypeOK
    <2>3. request[c].op = "complete"
      BY <1>1, <2>1 DEF BodyShape
    <2>4. DestSeen(c)
      BY <1>0, <1>2, <1>3, <2>3 DEF MoverShape
    <2>5. dest[c].id \in RowsOf(transfer[c].to) => row # None
      BY DEF RowsOf
    <2>6. DestSeen(c)'
      BY <1>4, <1>5, <2>2, <2>4, <2>5 DEF DestSeen
    <2>7. pc'[c] = "writeDest" => (CreateShape(c) /\ MoverShape(c))'
      BY <1>2, <1>4, <2>6, MoverGoesOn DEF AfterStart, DbSteps
    <2>. QED
      BY <1>4, <2>1, <2>2, <2>7, GoOn DEF AfterStart, DbSteps
  <1>. QED
    BY <1>6, <1>7

\* A body that moves stock: its transfer, and the row it takes the units from.
LEMMA MoverFacts ==
    ASSUME Inv, Tidy, OneTransfer, NEW c \in Calls, pc[c] \in HasSource
    PROVE  /\ Mover(c) /\ pc[c] \in AfterStart /\ pc[c] \notin {"off", "backoff"}
           /\ request[c].op \in {"start", "complete"}
           /\ transfer[c] \in Transfer /\ transfer[c].from # transfer[c].to
           /\ transfer[c] = transfers[request[c].id] /\ request[c].id \in Ids
           /\ source[c] \in Object
           /\ request[c].op = "complete" /\ pc[c] # "readDest" => dest[c] \in Object
  <1>1. pc[c] \in AfterStart /\ pc[c] \notin {"off", "backoff", "readSource", "saveTransfer"}
    BY DEF HasSource, AfterStart, DbSteps
  <1>2. BodyShape(c) /\ request[c] \in Requests /\ request[c].op # "fail" /\ View(c)
    BY <1>1, RunningBody DEF OneTransfer, Tidy
  <1>3. request[c].op # "create"
    BY <1>1, <1>2 DEF View, CreateShape
  <1>4. request[c].op \in {"start", "complete"} /\ request[c].id \in Ids
    BY <1>2, <1>3, RequestTypes
  <1>5. /\ transfer[c] \in Transfer /\ transfers[request[c].id] # None
        /\ transfer[c] = transfers[request[c].id]
    BY <1>1, <1>2, <1>3 DEF BodyShape, View, MoverShape, Mover
  <1>6. transfer[c].from # transfer[c].to
    BY <1>4, <1>5 DEF Tidy, TransfersProper
  <1>7. source[c] \in Object /\ (request[c].op = "complete" /\ pc[c] # "readDest" => dest[c] \in Object)
    BY <1>2 DEF BodyShape, Sound, HasDest
  <1>. QED
    BY <1>1, <1>3, <1>4, <1>5, <1>6, <1>7 DEF Mover

\* The UPDATE of the source's row makes it the body's object.
LEMMA WriteSourceDoes ==
    ASSUME Inv, Tidy, OneTransfer, NEW c \in Calls, WriteSource(c)
    PROVE  /\ source[c].id \in RowsOf(transfer[c].from)
           /\ inventory'[source[c].id] = [store |-> transfer[c].from, item |-> source[c].item]
           /\ \A r \in RowIds \ {source[c].id} : inventory'[r] = inventory[r]
           /\ \A s : RowsOf(s)' = RowsOf(s)
           /\ request[c].op = "start" =>
                /\ CanReserve(inventory[source[c].id].item, transfer[c].qty)
                /\ source[c].item = ReserveStock(inventory[source[c].id].item, transfer[c].qty)
           /\ request[c].op = "complete" =>
                source[c].item = ConfirmSale(inventory[source[c].id].item, transfer[c].qty)
  <1> DEFINE id == source[c].id
             row == inventory[id]
             new == Merge(row.item, source[c].item, dirty[c])
  <1>0. pc[c] = "writeSource" /\ pc[c] \in HasSource
    BY DEF WriteSource, HasSource
  <1>1. Mover(c) /\ source[c] \in Object
    BY <1>0, MoverFacts
  <1>2. SourceSeen(c)
    BY <1>0, <1>1 DEF Tidy, View, MoverShape
  <1>3. id \in RowsOf(transfer[c].from) /\ dirty[c] = Differing(source[c].item, row.item)
    BY <1>0, <1>2 DEF SourceSeen
  <1>4. id \in RowIds /\ row \in Row /\ row.store = transfer[c].from /\ row.item \in InventoryItem
    BY <1>3 DEF RowsOf, Inv, TypeOK, Row
  <1>5. source[c].item \in InventoryItem
    BY <1>1 DEF Object
  <1>6. new = source[c].item
    BY <1>3, <1>4, <1>5, MergeOfDifferences
  <1>7. inventory' = [inventory EXCEPT ![id] = [row EXCEPT !.item = new]]
    BY DEF WriteSource
  <1> HIDE DEF new
  <1>8. /\ inventory'[id] = [store |-> transfer[c].from, item |-> source[c].item]
        /\ \A r \in RowIds \ {id} : inventory'[r] = inventory[r]
    BY <1>4, <1>6, <1>7 DEF Inv, TypeOK, Row
  <1>9. row # None /\ inventory'[id] # None
    BY <1>3, <1>4, <1>5, <1>8, TransferNoneAssumption DEF RowsOf, Row
  <1>10. \A s : RowsOf(s)' = RowsOf(s)
    BY <1>4, <1>8, <1>9 DEF RowsOf
  <1>. QED
    BY <1>0, <1>2, <1>3, <1>8, <1>10 DEF SourceSeen

\* So does the INSERT or UPDATE of the destination's.
LEMMA WriteDestDoes ==
    ASSUME Inv, Tidy, OneTransfer, NEW c \in Calls, WriteDest(c)
    PROVE  /\ request[c].op = "complete" /\ dest[c] \in Object
           /\ inventory'[dest[c].id] = [store |-> transfer[c].to, item |-> dest[c].item]
           /\ \A r \in RowIds \ {dest[c].id} : inventory'[r] = inventory[r]
           /\ \A s : RowsOf(s)' = IF s = transfer[c].to THEN RowsOf(s) \cup {dest[c].id}
                                                        ELSE RowsOf(s)
           /\ \/ /\ dest[c].id \in RowsOf(transfer[c].to)
                 /\ dest[c].item = AddStock(inventory[dest[c].id].item, transfer[c].qty)
              \/ /\ RowsOf(transfer[c].to) = {} /\ inventory[dest[c].id] = None
                 /\ dest[c].id = <<c, attempt[c]>>
                 /\ dest[c].item = AddStock(EmptyItem, transfer[c].qty)
  <1> DEFINE id == dest[c].id
             row == inventory[id]
             to == transfer[c].to
  <1>0. pc[c] = "writeDest" /\ pc[c] \in HasSource /\ pc[c] \in HasDest
    BY DEF WriteDest, HasSource, HasDest
  <1>1. request[c].op = "complete"
    BY <1>0 DEF Inv, Shape, BodyShape
  <1>2. Mover(c) /\ dest[c] \in Object /\ to \in Stores
    BY <1>0, <1>1, MoverFacts DEF Transfer
  <1>3. DestSeen(c)
    BY <1>0, <1>1, <1>2 DEF Tidy, View, MoverShape
  <1>4. id \in RowIds /\ dest[c].item \in InventoryItem
    BY <1>2 DEF Object
  <1>5. RowsOf(to) = {} /\ id = <<c, attempt[c]>> => row = None
    <2>1. attempt[c] \in 1..MaxAttempts
      BY <1>0, <1>2, MoverFacts, RunningBody
    <2>2. UnusedRows(c)
      BY DEF Tidy, View
    <2>. QED
      BY <1>0, <2>1, <2>2 DEF UnusedRows
  <1>6. \/ id \in RowsOf(to) /\ dirty[c] = Differing(dest[c].item, row.item)
        \/ row = None
    BY <1>0, <1>3, <1>5 DEF DestSeen
  <1>7. inventory' = [inventory EXCEPT ![id] = [store |-> to, item |-> dest[c].item]]
    <2>1. inventory' = [inventory EXCEPT ![id] =
                            IF row = None THEN [store |-> to, item |-> dest[c].item]
                            ELSE [store |-> row.store,
                                  item |-> Merge(row.item, dest[c].item, dirty[c])]]
      BY Zenon DEF WriteDest
    <2>2. CASE row = None
      BY <2>1, <2>2
    <2>3. CASE row # None
      <3>1. id \in RowsOf(to) /\ dirty[c] = Differing(dest[c].item, row.item)
        BY <1>6, <2>3
      <3>2. row.store = to /\ row.item \in InventoryItem
        BY <3>1, RowTypes DEF RowsOf
      <3>3. Merge(row.item, dest[c].item, dirty[c]) = dest[c].item
        BY <1>4, <3>1, <3>2, MergeOfDifferences
      <3>. QED
        BY <2>1, <2>3, <3>2, <3>3
    <2>. QED
      BY <2>2, <2>3
  <1>8. /\ inventory'[id] = [store |-> to, item |-> dest[c].item]
        /\ \A r \in RowIds \ {id} : inventory'[r] = inventory[r]
    BY <1>4, <1>7 DEF Inv, TypeOK
  <1>9. inventory'[id] # None /\ inventory'[id].store = to
    BY <1>2, <1>4, <1>8, TransferNoneAssumption DEF Row
  <1>10. ASSUME NEW s PROVE RowsOf(s)' = IF s = to THEN RowsOf(s) \cup {id} ELSE RowsOf(s)
    <2>1. row = None \/ row.store = to
      BY <1>6 DEF RowsOf
    <2>. QED
      BY <1>4, <1>8, <1>9, <2>1 DEF RowsOf
  <1>. QED
    BY <1>1, <1>2, <1>3, <1>5, <1>8, <1>10 DEF DestSeen

\* A write of c leaves those alone who move no stock.
LEMMA BystanderView ==
    ASSUME NEW d \in Calls, View(d), ~Mover(d),
           pc'[d] = pc[d], attempt'[d] = attempt[d], request'[d] = request[d],
           transfer'[d] = transfer[d],
           \A n \in 1..MaxAttempts : inventory'[<<d, n>>] # None => inventory[<<d, n>>] # None,
           \A s : RowsOf(s) \subseteq RowsOf(s)'
    PROVE  View(d)'
  BY DEF View, UnusedRows, CreateShape, MoverShape, Mover

LEMMA WriteSourceTidy ==
    ASSUME Inv, Orderly, OneTransfer, NEW c \in Calls, WriteSource(c)
    PROVE  Tidy'
  <1> DEFINE id == source[c].id
  <1>0. pc[c] = "writeSource" /\ pc[c] \in HasSource /\ pc[c] \in HasDest /\ pc[c] # "off"
    BY DEF WriteSource, HasSource, HasDest
  <1>1. Tidy
    BY DEF Orderly
  <1>2. /\ Mover(c) /\ request[c].op \in {"start", "complete"}
        /\ transfer[c].from # transfer[c].to
    BY <1>0, <1>1, MoverFacts
  <1>3. /\ id \in RowsOf(transfer[c].from)
        /\ inventory'[id] = [store |-> transfer[c].from, item |-> source[c].item]
        /\ \A r \in RowIds \ {id} : inventory'[r] = inventory[r]
        /\ \A s : RowsOf(s)' = RowsOf(s)
    BY <1>1, WriteSourceDoes
  <1>4. /\ UNCHANGED <<request, transfers, locals>>
        /\ ReplyOrLost(c, AfterSource(request[c].op))
    BY DEF WriteSource
  <1>5. GuardStep(c) /\ pc'[c] \in {"off", "backoff", AfterSource(request[c].op)}
    BY <1>0, <1>4, ReplyOrLostGuard DEF AfterSource, DbSteps
  <1>6. \A r \in RowIds : inventory'[r] # None => inventory[r] # None
    BY <1>3 DEF RowsOf
  <1>7. \A d \in Calls, n \in 1..MaxAttempts : <<d, n>> \in RowIds
    BY DEF RowIds, FreshIds
  <1>8. ASSUME NEW d \in Calls \ {c} PROVE View(d)'
    <2>1. ~Mover(d)
      BY <1>2, OneMover
    <2>. QED
      BY <1>1, <1>3, <1>4, <1>5, <1>6, <1>7, <2>1, BystanderView DEF Tidy, GuardStep, locals
  <1>9. View(c)'
    <2>1. UnusedRows(c) /\ MoverShape(c)
      BY <1>1 DEF Tidy, View
    <2>2. UnusedRows(c)'
      BY <1>0, <1>5, <1>6, <1>7, <2>1 DEF UnusedRows, GuardStep
    <2>3. pc'[c] = "diffDest" => request[c].op = "complete" /\ DestSeen(c)'
      <3> SUFFICES ASSUME pc'[c] = "diffDest" PROVE request[c].op = "complete" /\ DestSeen(c)'
        OBVIOUS
      <3>1. request[c].op = "complete"
        BY <1>2, <1>5 DEF AfterSource
      <3>2. DestSeen(c)
        BY <1>0, <1>2, <2>1, <3>1 DEF MoverShape
      <3>3. dest[c].id \in RowsOf(transfer[c].to) => inventory'[dest[c].id] = inventory[dest[c].id]
        BY <1>2, <1>3 DEF RowsOf
      <3>4. dest' = dest /\ transfer' = transfer /\ attempt' = attempt /\ pc'[c] # "writeDest"
        BY <1>4, <1>5 DEF locals, GuardStep
      <3>. QED
        BY <1>3, <3>1, <3>2, <3>3, <3>4 DEF DestSeen
    <2>4. CreateShape(c)' /\ MoverShape(c)'
      BY <1>2, <1>4, <1>5, <2>1, <2>3
         DEF CreateShape, MoverShape, Mover, AfterSource, AfterStart, DbSteps, HasSource, HasDest,
             locals
    <2>. QED
      BY <2>2, <2>4 DEF View
  <1>10. TransfersProper' /\ OneRowPerStore'
    BY <1>1, <1>3, <1>4 DEF Tidy, TransfersProper, OneRowPerStore
  <1>. QED
    BY <1>8, <1>9, <1>10 DEF Tidy

LEMMA WriteDestTidy ==
    ASSUME Inv, Orderly, OneTransfer, NEW c \in Calls, WriteDest(c)
    PROVE  Tidy'
  <1> DEFINE id == dest[c].id
             to == transfer[c].to
  <1>0. pc[c] = "writeDest" /\ pc[c] \in HasSource /\ pc[c] # "off"
    BY DEF WriteDest, HasSource
  <1>1. Tidy
    BY DEF Orderly
  <1>2. Mover(c)
    BY <1>0, <1>1, MoverFacts
  <1>3. /\ \A r \in RowIds \ {id} : inventory'[r] = inventory[r]
        /\ \A s : RowsOf(s)' = IF s = to THEN RowsOf(s) \cup {id} ELSE RowsOf(s)
        /\ id \in RowsOf(to) \/ (RowsOf(to) = {} /\ id = <<c, attempt[c]>>)
    BY <1>1, WriteDestDoes
  <1>4. UNCHANGED <<request, transfers, locals>> /\ ReplyOrLost(c, "saveTransaction")
    BY DEF WriteDest
  <1>5. GuardStep(c) /\ pc'[c] \in {"off", "backoff", "saveTransaction"}
    BY <1>0, <1>4, ReplyOrLostGuard DEF DbSteps
  <1>6. \A d \in Calls, n \in 1..MaxAttempts :
            <<d, n>> \in RowIds /\ (<<d, n>> = id => inventory[id] # None \/ <<d, n>> = <<c, attempt[c]>>)
    BY <1>3 DEF RowIds, FreshIds, RowsOf
  <1>7. ASSUME NEW d \in Calls \ {c} PROVE View(d)'
    <2>1. ~Mover(d)
      BY <1>2, OneMover DEF Orderly
    <2>2. \A n \in 1..MaxAttempts : inventory'[<<d, n>>] # None => inventory[<<d, n>>] # None
      BY <1>3, <1>6
    <2>3. \A s : RowsOf(s) \subseteq RowsOf(s)'
      BY <1>3
    <2>. QED
      BY <1>1, <1>4, <1>5, <2>1, <2>2, <2>3, BystanderView DEF Tidy, GuardStep, locals
  <1>8. View(c)'
    <2>1. UnusedRows(c) /\ MoverShape(c)
      BY <1>1 DEF Tidy, View
    <2>2. UnusedRows(c)'
      BY <1>0, <1>3, <1>5, <1>6, <2>1 DEF UnusedRows, GuardStep
    <2>3. CreateShape(c)' /\ MoverShape(c)'
      BY <1>2, <1>4, <1>5, <2>1
         DEF CreateShape, MoverShape, Mover, AfterStart, DbSteps, HasSource, HasDest, locals
    <2>. QED
      BY <2>2, <2>3 DEF View
  <1>9. TransfersProper' /\ OneRowPerStore'
    BY <1>1, <1>3, <1>4 DEF Tidy, TransfersProper, OneRowPerStore
  <1>. QED
    BY <1>7, <1>8, <1>9 DEF Tidy

LEMMA SaveTransactionTidy ==
    ASSUME Inv, Tidy, OneTransfer, NEW c \in Calls, SaveTransaction(c)
    PROVE  Tidy'
  <1>0. /\ pc[c] = "saveTransaction" /\ pc[c] \in AfterStart /\ pc[c] \in DbSteps /\ pc[c] # "off"
        /\ UNCHANGED <<request, inventory, transfers, locals>>
    BY DEF SaveTransaction, AfterStart, DbSteps
  <1>1. View(c)
    BY DEF Tidy
  <1>2. CASE BodyContinues(c, "saveTransfer")
    <2>1. Mover(c)
      BY <1>0, <1>1 DEF View, CreateShape, Mover
    <2>2. pc'[c] = "saveTransfer" => (CreateShape(c) /\ MoverShape(c))'
      BY <1>0, <2>1, MoverGoesOn DEF locals, AfterStart, DbSteps, HasDest, HasSource
    <2>. QED
      BY <1>0, <1>2, <2>2, GoOn DEF locals, AfterStart, DbSteps
  <1>3. CASE BodyThrows(c)
    <2>1. GuardStep(c) /\ pc'[c] \in {"off", "backoff"}
      BY <1>0, <1>3, BodyThrowsGuard
    <2>2. Quiet(c)
      BY <1>0, <2>1 DEF GuardStep, Quiet, locals
    <2>3. View(c)'
      BY <1>0, <1>1, <2>1, AtRest DEF GuardStep
    <2>. QED
      BY <2>2, <2>3, QuietKeeps
  <1>. QED
    BY <1>2, <1>3 DEF SaveTransaction, ReplyOrLost

\* The transfer a body saves is a new one or the one it has found.
LEMMA SaveTransferDoes ==
    ASSUME Inv, Tidy, OneTransfer, NEW c \in Calls, SaveTransfer(c)
    PROVE  /\ TransferId(c) \in Ids /\ TransferId(c) \in CanExist
           /\ transfer[c] \in Transfer /\ transfer[c].from # transfer[c].to
           /\ \A id \in Ids \ {TransferId(c)} : transfers'[id] = transfers[id]
           /\ transfers'[TransferId(c)] = [transfer[c] EXCEPT !.status = NewStatus(request[c].op)]
           /\ IF request[c].op = "create"
              THEN /\ transfers[TransferId(c)] = None /\ request[c] \in Requests \cap CreateRequest
                   /\ transfer[c].qty = request[c].qty /\ transfer[c].status = "PENDING"
                   /\ RowsOf(transfer[c].from) # {}
              ELSE /\ Mover(c) /\ TransferId(c) = request[c].id
                   /\ transfer[c] = transfers[request[c].id] /\ transfers[request[c].id] # None
  <1>0. pc[c] = "saveTransfer" /\ pc[c] \in AfterStart /\ pc[c] \notin {"off", "backoff"}
    BY DEF SaveTransfer, AfterStart, DbSteps
  <1>1. /\ BodyShape(c) /\ request[c] \in Requests /\ attempt[c] \in 1..MaxAttempts
        /\ TransferId(c) \in Ids /\ View(c) /\ <<c, attempt[c]>> \in FreshIds
    BY <1>0, RunningBody DEF Tidy
  <1>2. transfer[c] \in Transfer
    BY <1>0, <1>1 DEF BodyShape
  <1>3. /\ \A id \in Ids \ {TransferId(c)} : transfers'[id] = transfers[id]
        /\ transfers'[TransferId(c)] = [transfer[c] EXCEPT !.status = NewStatus(request[c].op)]
    BY <1>1 DEF SaveTransfer, Inv, TypeOK
  <1>4. CASE request[c].op = "create"
    <2>1. TransferId(c) = <<c, attempt[c]>> /\ request[c] \in CreateRequest
      BY <1>1, <1>4, TransferRequestsAssumption DEF TransferId, HandleRequest
    <2>2. transfers[<<c, attempt[c]>>] = None
      BY <1>0, <1>1 DEF BodyShape
    <2>3. /\ Accepted(request[c]) /\ RowsOf(transfer[c].from) # {}
          /\ transfer[c] = [from |-> request[c].from, to |-> request[c].to,
                            qty |-> request[c].qty, status |-> "PENDING"]
      BY <1>0, <1>1, <1>4 DEF View, CreateShape
    <2>4. transfer[c].from # transfer[c].to /\ TransferId(c) \in CanExist
      BY <1>1, <2>1, <2>3 DEF Accepted, CanExist
    <2>. QED
      BY <1>1, <1>2, <1>3, <1>4, <2>1, <2>2, <2>3, <2>4
  <1>5. CASE request[c].op # "create"
    <2>1. Mover(c) /\ TransferId(c) = request[c].id /\ transfers[request[c].id] # None
      BY <1>0, <1>1, <1>5 DEF Mover, TransferId, BodyShape
    <2>2. transfer[c] = transfers[request[c].id]
      BY <1>1, <2>1 DEF View, MoverShape
    <2>3. transfer[c].from # transfer[c].to /\ TransferId(c) \in CanExist
      BY <1>1, <2>1, <2>2 DEF Tidy, TransfersProper
    <2>. QED
      BY <1>1, <1>2, <1>3, <1>5, <2>1, <2>2, <2>3
  <1>. QED
    BY <1>4, <1>5

LEMMA SaveTransferTidy ==
    ASSUME Inv, Orderly, OneTransfer, NEW c \in Calls, SaveTransfer(c)
    PROVE  Tidy'
  <1> DEFINE id == TransferId(c)
             new == [transfer[c] EXCEPT !.status = NewStatus(request[c].op)]
  <1>0. /\ pc[c] = "saveTransfer" /\ pc[c] # "off"
        /\ UNCHANGED <<request, inventory, ledger, locals>>
        /\ BodyReturns(c) \/ BodyThrows(c)
    BY DEF SaveTransfer
  <1>1. Tidy
    BY DEF Orderly
  <1>2. GuardStep(c) /\ pc'[c] \in {"off", "backoff"}
    BY <1>0, BodyReturnsGuard, BodyThrowsGuard
  <1>3. /\ id \in CanExist /\ transfers'[id] = new
        /\ \A i \in Ids \ {id} : transfers'[i] = transfers[i]
        /\ transfer[c] \in Transfer /\ transfer[c].from # transfer[c].to
        /\ Mover(c) \/ transfers[id] = None
    BY <1>1, SaveTransferDoes
  <1>4. ASSUME NEW d \in Calls \ {c} PROVE View(d)'
    <2>1. ASSUME Mover(d) PROVE transfers'[request[d].id] = transfers[request[d].id]
      <3>1. /\ pc[d] \in AfterStart /\ pc[d] # "off" /\ request[d].op # "create"
        BY <2>1 DEF Mover, AfterStart, DbSteps
      <3>2. request[d].id \in Ids /\ transfers[request[d].id] # None
        BY <3>1, RunningBody, RequestTypes, HeldTransfer
      <3>3. ~Mover(c)
        BY <2>1, OneMover
      <3>. QED
        BY <1>3, <3>2, <3>3
    <2>. QED
      BY <1>0, <1>1, <1>2, <2>1, ViewKept DEF Tidy, GuardStep, locals
  <1>5. View(c)'
    BY <1>0, <1>1, <1>2, AtRest DEF Tidy, GuardStep
  <1>6. TransfersProper'
    <2>1. new.from = transfer[c].from /\ new.to = transfer[c].to
      BY <1>3 DEF Transfer
    <2> HIDE DEF new
    <2>. QED
      BY <1>1, <1>3, <2>1 DEF Tidy, TransfersProper
  <1>7. OneRowPerStore'
    BY <1>0, <1>1 DEF Tidy, OneRowPerStore, RowsOf
  <1>. QED
    BY <1>4, <1>5, <1>6, <1>7 DEF Tidy

\* Every step keeps the order.
LEMMA NextOrderly ==
    ASSUME Inv, Orderly, [Next]_vars, OneTransfer, "timeout" \notin Faults
    PROVE  Orderly'
  <1>0. Tidy /\ Locks
    BY DEF Orderly
  <1>1. ASSUME NEW c \in Calls, BodyStep(c) PROVE Tidy'
    <2>1. ~ReleaseSource(c)
      BY RunningBody DEF ReleaseSource, OneTransfer
    <2>. QED
      BY <1>0, <1>1, <2>1, CheckCreateTidy, FindTransferTidy, CheckSourceTidy, ReserveSourceTidy,
         LoadSourceTidy, MoveToDestTidy, DiffTidy, WriteSourceTidy, WriteDestTidy,
         SaveTransactionTidy, SaveTransferTidy DEF BodyStep
  <1>2. ASSUME NEW c \in Calls, DbFails(c) PROVE Tidy'
    <2>1. pc[c] # "off" /\ Refuse(c)
      BY <1>2 DEF DbFails, DbRejects, DbSteps, Refuse
    <2>. QED
      BY <1>0, <2>1, RefuseTidy
  <1>3. ASSUME NEW c \in Calls, Call(c) \/ Guard(c) \/ RetryBody(c) PROVE Tidy'
    BY <1>0, <1>3, GuardTidy
  <1>4. ASSUME UNCHANGED <<inventory, transfers, pc, attempt, request, locals>> PROVE Tidy'
    <2>1. \A d \in Calls : View(d)'
      BY <1>0, <1>4, ViewKept DEF Tidy, locals
    <2>2. TransfersProper' /\ OneRowPerStore'
      BY <1>0, <1>4 DEF Tidy, TransfersProper, OneRowPerStore, RowsOf
    <2>. QED
      BY <2>1, <2>2 DEF Tidy
  <1>5. ASSUME NEW k \in Keys, Expire(k) PROVE Tidy'
    BY <1>4, <1>5 DEF Expire, LeaseExpires, tables
  <1>6. ASSUME UNCHANGED vars PROVE Tidy'
    BY <1>4, <1>6 DEF vars, guardVars, tables
  <1>7. Tidy'
    BY <1>1, <1>2, <1>3, <1>5, <1>6 DEF Next, Finished
  <1>. QED
    BY <1>0, <1>7, LocksKept DEF Orderly

\* Where no body outlives its call and one transfer is handled, a store has one row: the
\* INSERT that is retried because its reply was lost finds the row it made.
THEOREM OneRowCorrect ==
    ASSUME OneTransfer, "timeout" \notin Faults
    PROVE  Spec => []OneRowPerStore
  <1>1. Init => Inv /\ Orderly
    BY InitInv, InitOrderly
  <1>2. Inv /\ Orderly /\ [Next]_vars => (Inv /\ Orderly)'
    BY NextInv, NextOrderly
  <1>3. Inv /\ Orderly => OneRowPerStore
    BY DEF Orderly, Tidy
  <1>. QED
    BY <1>1, <1>2, <1>3, PTL DEF Spec

-----------------------------------------------------------------------------
(* The units.  A completion takes them off the source's row, and until it  *)
(* writes the destination's they are in flight.  A fault in between loses  *)
(* them; nothing puts more on a row than was taken off another before.     *)

InFlight == {c \in Calls : pc[c] \in {"diffDest", "writeDest"}}

NoneInvented ==
    /\ IsFiniteSet(Stored)
    /\ NothingInvented
    /\ \A c \in InFlight : OnHand(Stored) + transfer[c].qty <= InitialOnHand

NoneLost ==
    /\ IsFiniteSet(Stored)
    /\ InFlight = {} => OnHand(Stored) = InitialOnHand
    /\ \A c \in InFlight : OnHand(Stored) + transfer[c].qty = InitialOnHand

\* The sums are numbers.
LEMMA OnHandTypes ==
    ASSUME Inv, IsFiniteSet(Stored)
    PROVE  OnHand(Stored) \in Int /\ InitialOnHand \in Int
  <1> DEFINE first == {t \in Stores : InitialStock[t] # None}
             now == [r \in Stored |-> inventory[r].item.onHand]
             then == [s \in first |-> InitialStock[s].onHand]
  <1>1. \A r \in Stored : now[r] \in Int
    BY ItemCounters DEF Inv, TypeOK, Stored, Row
  <1>2. \A s \in first : then[s] \in Int
    BY TransferStockAssumption, ItemCounters
  <1>3. IsFiniteSet(first)
    BY StoresAssumption, FS_Subset
  <1>4. DOMAIN now = Stored /\ DOMAIN then = first
    OBVIOUS
  <1>5. OnHand(Stored) = SumFunction(now) /\ InitialOnHand = SumFunction(then)
    BY DEF OnHand, InitialOnHand
  <1> HIDE DEF now, then, first
  <1>. QED
    BY <1>1, <1>2, <1>3, <1>4, <1>5, SumFunctionType

\* At the start the rows are those of InitialStock.
LEMMA InitOnHand == Init => NoneInvented /\ NoneLost
  <1> SUFFICES ASSUME Init PROVE NoneInvented /\ NoneLost
    OBVIOUS
  <1>1. Stored = {t \in Stores : InitialStock[t] # None}
    BY TransferStockAssumption, TransferNoneAssumption
       DEF Init, Stored, InitialRow, RowIds, Row
  <1>2. IsFiniteSet(Stored)
    BY <1>1, StoresAssumption, FS_Subset
  <1>3. [r \in Stored |-> inventory[r].item.onHand] =
            [s \in {t \in Stores : InitialStock[t] # None} |-> InitialStock[s].onHand]
    BY <1>1 DEF Init, InitialRow, RowIds
  <1>4. OnHand(Stored) = InitialOnHand
    BY <1>3 DEF OnHand, InitialOnHand
  <1>5. OnHand(Stored) \in Int /\ InitialOnHand \in Int
    BY <1>2, InitInv, OnHandTypes
  <1>6. InFlight = {}
    BY DEF Init, GuardInit, InFlight
  <1>. QED
    BY <1>2, <1>4, <1>5, <1>6 DEF NoneInvented, NoneLost, NothingInvented

\* A row that is written changes the sum by what it changes itself.
LEMMA OnHandChanges ==
    ASSUME Inv, Inv', IsFiniteSet(Stored), NEW id \in RowIds, inventory'[id] # None,
           \A r \in RowIds \ {id} : inventory'[r] = inventory[r],
           NEW old \in Int, old = IF inventory[id] = None THEN 0 ELSE inventory[id].item.onHand
    PROVE  /\ IsFiniteSet(Stored')
           /\ OnHand(Stored)' = OnHand(Stored) - old + inventory'[id].item.onHand
  <1> DEFINE f == [r \in Stored |-> inventory[r].item.onHand]
             g == [r \in Stored' |-> inventory'[r].item.onHand]
  <1>1. Stored' = Stored \cup {id} /\ Stored \subseteq RowIds
    BY DEF Stored
  <1>2. IsFiniteSet(Stored')
    BY <1>1, FS_AddElement
  <1>3. /\ \A r \in Stored : f[r] \in Int
        /\ g[id] \in Int /\ g[id] = inventory'[id].item.onHand
        /\ \A r \in Stored \ {id} : f[r] = g[r]
    BY <1>1, ItemCounters DEF Inv, TypeOK, Stored, Row
  <1>4. DOMAIN f = Stored /\ DOMAIN g = Stored \cup {id}
    BY <1>1
  <1>5. OnHand(Stored) = SumFunction(f) /\ OnHand(Stored)' = SumFunction(g)
    BY DEF OnHand
  <1>6. SumFunction(f) \in Int
    <2> HIDE DEF f, g
    <2>. QED
      BY <1>3, <1>4, SumFunctionType
  <1>7. CASE id \in Stored
    <2>1. f[id] = old
      BY <1>7 DEF Stored
    <2> HIDE DEF f, g
    <2>2. DOMAIN g = DOMAIN f
      BY <1>4, <1>7
    <2>3. SumFunction(g) = SumFunction(f) - f[id] + g[id]
      BY <1>3, <1>4, <1>7, <2>2, SumChanges
    <2>. QED
      BY <1>2, <1>3, <1>5, <2>1, <2>3
  <1>8. CASE id \notin Stored
    <2>1. old = 0
      BY <1>8 DEF Stored
    <2> HIDE DEF f, g
    <2>2. SumFunction(g) = SumFunction(f) + g[id]
      BY <1>3, <1>4, <1>8, SumGrows
    <2>. QED
      BY <1>2, <1>3, <1>5, <1>6, <2>1, <2>2
  <1>. QED
    BY <1>7, <1>8

\* Only the two writes change rows, and only the first puts units in flight.
LEMMA FlightKept ==
    ASSUME Inv, [Next]_vars
    PROVE  \/ \E c \in Calls : WriteSource(c) \/ WriteDest(c)
           \/ /\ inventory' = inventory
              /\ \A c \in InFlight' : c \in InFlight /\ transfer'[c] = transfer[c]
  <1> DEFINE Kept == /\ inventory' = inventory
                     /\ \A c \in InFlight' : c \in InFlight /\ transfer'[c] = transfer[c]
  <1>1. ASSUME NEW c \in Calls, Call(c) \/ Guard(c) \/ RetryBody(c) PROVE Kept
    BY <1>1 DEF Call, Guard, RetryBody, Invoke, Enter, AcquireAndFire, AcquireAndReject, NotLocked,
                WaitTimeout, AcquireFails, Timeout, Release, ReleaseFails, Crash, Retry, Goto,
                tables, locals, Inv, TypeOK, InFlight
  <1>2. ASSUME NEW c \in Calls, BodyStep(c) \/ DbFails(c), ~WriteSource(c), ~WriteDest(c)
        PROVE  Kept
    <2>1. /\ inventory' = inventory
          /\ pc[c] # "off" /\ request' = request
          /\ \/ BodyThrows(c) \/ BodyReturns(c)
             \/ \E step \in AfterStart \ {"diffDest", "writeDest"} : BodyContinues(c, step)
             \/ pc[c] = "diffDest" /\ BodyContinues(c, "writeDest") /\ transfer' = transfer
          /\ \A d \in Calls \ {c} : transfer'[d] = transfer[d]
      BY <1>2 DEF BodyStep, DbFails, DbRejects, Refuse, CheckCreate, FindTransfer, CheckSource,
         ReserveSource, ReleaseSource, LoadSource, MoveToDest, DiffSource, DiffDest,
         SaveTransaction, SaveTransfer, ReplyOrLost, AfterStart, DbSteps, tables, locals, Inv,
         TypeOK
    <2>2. /\ \A d \in Calls \ {c} : pc'[d] = pc[d]
          /\ pc'[c] \in {"diffDest", "writeDest"} => pc[c] = "diffDest" /\ transfer' = transfer
      BY <2>1 DEF BodyThrows, BodyReturns, BodyContinues, Goto, Inv, TypeOK
    <2>. QED
      BY <2>1, <2>2 DEF InFlight
  <1>3. ASSUME (\E k \in Keys : Expire(k)) \/ UNCHANGED vars PROVE Kept
    BY <1>3 DEF Expire, LeaseExpires, tables, locals, vars, guardVars, InFlight
  <1>. QED
    BY <1>1, <1>2, <1>3 DEF Next, Finished

\* A start changes no onHand; a completion takes its units off the source's row, and they
\* are in flight if it goes on.
LEMMA WriteSourceUnits ==
    ASSUME Inv, Inv', Tidy, OneTransfer, IsFiniteSet(Stored), NEW c \in Calls, WriteSource(c)
    PROVE  /\ IsFiniteSet(Stored')
           /\ transfer[c].qty \in Nat /\ transfer' = transfer
           /\ request[c].op = "start" =>
                OnHand(Stored)' = OnHand(Stored) /\ pc'[c] \notin {"diffDest", "writeDest"}
           /\ request[c].op = "complete" =>
                OnHand(Stored)' = OnHand(Stored) - transfer[c].qty /\ pc'[c] # "writeDest"
  <1> DEFINE id == source[c].id
             old == inventory[id].item
             qty == transfer[c].qty
  <1>0. pc[c] = "writeSource" /\ pc[c] \in HasSource /\ pc[c] # "off"
    BY DEF WriteSource, HasSource
  <1>1. /\ transfer[c] \in Transfer /\ qty \in Nat /\ source[c] \in Object
        /\ request[c].op \in {"start", "complete"}
    BY <1>0, MoverFacts DEF Transfer
  <1>2. /\ id \in RowsOf(transfer[c].from)
        /\ inventory'[id] = [store |-> transfer[c].from, item |-> source[c].item]
        /\ \A r \in RowIds \ {id} : inventory'[r] = inventory[r]
        /\ request[c].op = "start" => source[c].item = ReserveStock(old, qty)
        /\ request[c].op = "complete" => source[c].item = ConfirmSale(old, qty)
    BY WriteSourceDoes
  <1> HIDE DEF id
  <1>3. id \in RowIds /\ old \in InventoryItem /\ inventory[id] # None /\ inventory'[id] # None
    <2>1. id \in RowIds /\ old \in InventoryItem /\ inventory[id] # None
      BY <1>2, RowTypes
    <2>2. [store |-> transfer[c].from, item |-> source[c].item] \in Row
      BY <1>1 DEF Row, Transfer, Object
    <2>. QED
      BY <1>2, <2>1, <2>2, TransferNoneAssumption
  <1>4. old.onHand \in Int
    BY <1>3, ItemCounters
  <1> HIDE DEF old, qty
  <1>5. IsFiniteSet(Stored') /\ OnHand(Stored)' = OnHand(Stored) - old.onHand + source[c].item.onHand
    BY <1>2, <1>3, <1>4, OnHandChanges DEF old
  <1>6. /\ Moved(old, ReserveStock(old, qty), 0, -qty, qty, 0, 0)
        /\ Moved(old, ConfirmSale(old, qty), -qty, 0, -qty, qty, 0)
    BY <1>1, <1>3, ReserveStockMoves, ConfirmSaleMoves
  <1>7. request[c].op = "start" => source[c].item.onHand = old.onHand
    <2>1. ReserveStock(old, qty).onHand = old.onHand
      BY <1>6, <1>4 DEF Moved
    <2>. QED
      BY <1>2, <2>1
  <1>8. request[c].op = "complete" => source[c].item.onHand = old.onHand - qty
    <2>1. ConfirmSale(old, qty).onHand = old.onHand - qty
      BY <1>6, <1>1, <1>4 DEF Moved
    <2>. QED
      BY <1>2, <2>1
  <1>9. /\ transfer' = transfer /\ request' = request
        /\ ReplyOrLost(c, AfterSource(request[c].op))
    BY DEF WriteSource, locals
  <1>10. pc'[c] \in {"off", "backoff", AfterSource(request[c].op)}
    BY <1>0, <1>9, ReplyOrLostGuard DEF AfterSource, DbSteps
  <1>11. OnHand(Stored) \in Int
    BY OnHandTypes
  <1>. QED
    BY <1>1, <1>4, <1>5, <1>7, <1>8, <1>9, <1>10, <1>11 DEF AfterSource, qty

\* The units in flight arrive.
LEMMA WriteDestUnits ==
    ASSUME Inv, Inv', Tidy, OneTransfer, IsFiniteSet(Stored), NEW c \in Calls, WriteDest(c)
    PROVE  /\ IsFiniteSet(Stored') /\ c \in InFlight
           /\ transfer[c].qty \in Nat /\ transfer' = transfer
           /\ OnHand(Stored)' = OnHand(Stored) + transfer[c].qty
           /\ pc'[c] \notin {"diffDest", "writeDest"}
  <1> DEFINE id == dest[c].id
             qty == transfer[c].qty
             first == inventory[id] = None
             old == IF first THEN EmptyItem ELSE inventory[id].item
  <1>0. pc[c] = "writeDest" /\ pc[c] \in HasSource /\ pc[c] # "off"
    BY DEF WriteDest, HasSource
  <1>1. qty \in Nat /\ dest[c] \in Object
    BY <1>0, MoverFacts, WriteDestDoes DEF Transfer
  <1>2. /\ inventory'[id] = [store |-> transfer[c].to, item |-> dest[c].item]
        /\ \A r \in RowIds \ {id} : inventory'[r] = inventory[r]
        /\ \/ id \in RowsOf(transfer[c].to) /\ dest[c].item = AddStock(inventory[id].item, qty)
           \/ first /\ dest[c].item = AddStock(EmptyItem, qty)
    BY WriteDestDoes
  <1> HIDE DEF id
  <1>3. id \in RowIds /\ old \in InventoryItem
    <2>1. EmptyItem \in InventoryItem
      BY DEF EmptyItem, InventoryItem
    <2>. QED
      BY <1>1, <2>1 DEF Object, Inv, TypeOK, Row, id
  <1>4. inventory'[id] # None /\ dest[c].item = AddStock(old, qty)
    <2>1. [store |-> transfer[c].to, item |-> dest[c].item] \in Row
      BY <1>0, <1>1, MoverFacts DEF Row, Transfer, Object
    <2>. QED
      BY <1>2, <2>1, TransferNoneAssumption DEF RowsOf
  <1>5. old.onHand \in Int /\ old.onHand = IF first THEN 0 ELSE inventory[id].item.onHand
    BY <1>3, ItemCounters DEF EmptyItem
  <1> HIDE DEF old, qty
  <1>6. IsFiniteSet(Stored') /\ OnHand(Stored)' = OnHand(Stored) - old.onHand + dest[c].item.onHand
    BY <1>2, <1>3, <1>4, <1>5, OnHandChanges
  <1>7. dest[c].item.onHand = old.onHand + qty
    BY <1>1, <1>3, <1>4, <1>5, AddStockMoves DEF Moved
  <1>8. transfer' = transfer /\ request' = request /\ ReplyOrLost(c, "saveTransaction")
    BY DEF WriteDest, locals
  <1>9. pc'[c] \in {"off", "backoff", "saveTransaction"}
    BY <1>0, <1>8, ReplyOrLostGuard DEF DbSteps
  <1>10. OnHand(Stored) \in Int
    BY OnHandTypes
  <1>. QED
    BY <1>0, <1>1, <1>5, <1>6, <1>7, <1>8, <1>9, <1>10 DEF InFlight, qty

\* While c writes, nobody else has units in flight.
LEMMA AloneInFlight ==
    ASSUME Inv, Orderly, OneTransfer, NEW c \in Calls, WriteSource(c) \/ WriteDest(c)
    PROVE  /\ InFlight \subseteq {c} /\ InFlight' \subseteq {c}
           /\ WriteSource(c) => InFlight = {}
           /\ request[c].op \in {"start", "complete"}
  <1>1. pc[c] \in {"writeSource", "writeDest"} /\ pc[c] \in HasSource /\ pc[c] # "off"
    BY DEF WriteSource, WriteDest, HasSource
  <1>2. Mover(c) /\ request[c].op \in {"start", "complete"} /\ Tidy
    BY <1>1, MoverFacts DEF Orderly
  <1>3. ASSUME NEW d \in InFlight PROVE d = c
    <2>1. Mover(d)
      BY <1>2, MoverFacts DEF InFlight, HasSource
    <2>. QED
      BY <1>2, <2>1, OneMover DEF InFlight
  <1>4. \A d \in Calls \ {c} : pc'[d] = pc[d]
    BY DEF WriteSource, WriteDest, ReplyOrLost, BodyContinues, BodyThrows, Goto, Inv, TypeOK
  <1>. QED
    BY <1>1, <1>2, <1>3, <1>4 DEF InFlight, WriteSource

LEMMA NextNoneInvented ==
    ASSUME Inv, Inv', Orderly, NoneInvented, [Next]_vars, OneTransfer
    PROVE  NoneInvented'
  <1>1. /\ IsFiniteSet(Stored) /\ OnHand(Stored) <= InitialOnHand
        /\ \A c \in InFlight : OnHand(Stored) + transfer[c].qty <= InitialOnHand
        /\ OnHand(Stored) \in Int /\ InitialOnHand \in Int /\ Tidy
    BY OnHandTypes DEF NoneInvented, NothingInvented, Orderly
  <1>2. InitialOnHand' = InitialOnHand
    BY DEF InitialOnHand
  <1>3. ASSUME NEW c \in Calls, WriteSource(c) PROVE NoneInvented'
    <2>1. InFlight' \subseteq {c} /\ request[c].op \in {"start", "complete"}
      BY <1>3, AloneInFlight
    <2>2. /\ IsFiniteSet(Stored') /\ transfer[c].qty \in Nat /\ transfer' = transfer
          /\ request[c].op = "start" =>
                OnHand(Stored)' = OnHand(Stored) /\ pc'[c] \notin {"diffDest", "writeDest"}
          /\ request[c].op = "complete" => OnHand(Stored)' = OnHand(Stored) - transfer[c].qty
      BY <1>1, <1>3, WriteSourceUnits
    <2>3. OnHand(Stored)' <= InitialOnHand
      BY <1>1, <2>1, <2>2
    <2>4. \A d \in InFlight' : OnHand(Stored)' + transfer'[d].qty <= InitialOnHand
      BY <1>1, <2>1, <2>2 DEF InFlight
    <2>. QED
      BY <1>2, <2>2, <2>3, <2>4 DEF NoneInvented, NothingInvented
  <1>4. ASSUME NEW c \in Calls, WriteDest(c) PROVE NoneInvented'
    <2>1. InFlight' \subseteq {c}
      BY <1>4, AloneInFlight
    <2>2. /\ IsFiniteSet(Stored') /\ c \in InFlight
          /\ OnHand(Stored)' = OnHand(Stored) + transfer[c].qty
          /\ pc'[c] \notin {"diffDest", "writeDest"}
      BY <1>1, <1>4, WriteDestUnits
    <2>3. OnHand(Stored)' <= InitialOnHand /\ InFlight' = {}
      BY <1>1, <2>1, <2>2 DEF InFlight
    <2>. QED
      BY <1>2, <2>2, <2>3 DEF NoneInvented, NothingInvented
  <1>5. CASE /\ inventory' = inventory
             /\ \A c \in InFlight' : c \in InFlight /\ transfer'[c] = transfer[c]
    <2>1. Stored' = Stored /\ OnHand(Stored)' = OnHand(Stored)
      BY <1>5 DEF Stored, OnHand
    <2>. QED
      BY <1>1, <1>2, <1>5, <2>1 DEF NoneInvented, NothingInvented
  <1>. QED
    BY <1>3, <1>4, <1>5, FlightKept

\* Where no body outlives its call and one transfer is handled, the stores together never
\* have more units than at the start, whatever fails, is retried or dies half-way.
THEOREM NothingInventedCorrect ==
    ASSUME OneTransfer, "timeout" \notin Faults
    PROVE  Spec => []NothingInvented
  <1>1. Init => Inv /\ Orderly /\ NoneInvented
    BY InitInv, InitOrderly, InitOnHand
  <1>2. Inv /\ Orderly /\ NoneInvented /\ [Next]_vars => (Inv /\ Orderly /\ NoneInvented)'
    BY NextInv, NextOrderly, NextNoneInvented
  <1>3. NoneInvented => NothingInvented
    BY DEF NoneInvented
  <1>. QED
    BY <1>1, <1>2, <1>3, PTL DEF Spec

-----------------------------------------------------------------------------
(* With a database that answers nothing is lost on the road either, and    *)
(* the steps of the bodies are those of TransferLedger.                    *)

\* Redis may fail; what the database commits, the body learns of.
Answering == Faults \subseteq {"redis"}

\* The bodies that have moved stock and not yet saved their transfer.
Settling ==
    {c \in Calls :
        /\ pc[c] \in {"diffDest", "writeDest", "saveTransaction", "saveTransfer"}
        /\ request[c].op # "create"}

\* A step that the ledger does not see.
Unmoved ==
    /\ UNCHANGED <<inventory, transfers, InFlight, Settling>>
    /\ \A c \in InFlight : transfer'[c] = transfer[c] /\ dest'[c] = dest[c]
    /\ \A c \in Settling : request'[c] = request[c]

\* No body stops between the first row it writes and the transfer it saves, and only those
\* writes move units or transfers.
LEMMA OnlyWritesMove ==
    ASSUME Inv, OneTransfer, Answering, [Next]_vars
    PROVE  \/ \E c \in Calls : WriteSource(c) \/ WriteDest(c) \/ SaveTransfer(c)
           \/ Unmoved
  <1> DEFINE late == {"diffDest", "writeDest", "saveTransaction", "saveTransfer"}
  <1>1. ASSUME NEW c \in Calls, Call(c) \/ Guard(c) \/ RetryBody(c) PROVE Unmoved
    <2>1. BodyShape(c)
      BY DEF Inv, Shape
    <2>2. /\ UNCHANGED <<tables, locals>>
          /\ \A d \in Calls \ {c} : pc'[d] = pc[d] /\ request'[d] = request[d]
          /\ \/ pc'[c] = pc[c] /\ request'[c] = request[c]
             \/ pc[c] \notin late /\ pc'[c] \notin late
      BY <1>1, <2>1
         DEF Answering, BodyShape, Call, Guard, RetryBody, Invoke, Enter, AcquireAndFire,
             AcquireAndReject, NotLocked, WaitTimeout, AcquireFails, Timeout, Release,
             ReleaseFails, Crash, Retry, Goto, Inv, TypeOK
    <2>. QED
      BY <2>2 DEF Unmoved, InFlight, Settling, tables, locals
  <1>2. ASSUME NEW c \in Calls, BodyStep(c) \/ DbFails(c),
               ~WriteSource(c), ~WriteDest(c), ~SaveTransfer(c)
        PROVE  Unmoved
    <2>1. pc[c] # "off" => request[c].op # "fail"
      BY RunningBody DEF OneTransfer
    <2>2. /\ UNCHANGED <<inventory, transfers, request>>
          /\ \A d \in Calls \ {c} : transfer'[d] = transfer[d] /\ dest'[d] = dest[d]
          /\ \/ BodyThrows(c) /\ pc[c] \notin late
             \/ \E step \in AfterStart \ late : BodyContinues(c, step) /\ pc[c] \notin late
             \/ request[c].op = "create" /\ pc[c] \notin late /\ BodyContinues(c, "saveTransfer")
             \/ /\ pc[c] = "diffDest" /\ BodyContinues(c, "writeDest")
                /\ UNCHANGED <<transfer, dest>>
             \/ pc[c] = "saveTransaction" /\ BodyContinues(c, "saveTransfer")
      BY <1>2, <2>1
         DEF Answering, BodyStep, DbFails, DbRejects, Refuse, CheckCreate, FindTransfer,
             CheckSource, ReserveSource, ReleaseSource, LoadSource, MoveToDest, DiffSource,
             DiffDest, SaveTransaction, ReplyOrLost, AfterStart, DbSteps, tables, locals, Inv,
             TypeOK
    <2>3. /\ \A d \in Calls \ {c} : pc'[d] = pc[d]
          /\ \/ pc[c] \notin late /\ pc'[c] \notin late
             \/ request[c].op = "create" /\ pc[c] \notin late /\ pc'[c] = "saveTransfer"
             \/ pc[c] = "diffDest" /\ pc'[c] = "writeDest" /\ UNCHANGED <<transfer, dest>>
             \/ pc[c] = "saveTransaction" /\ pc'[c] = "saveTransfer"
      BY <2>2 DEF BodyThrows, BodyContinues, Settle, Goto, Inv, TypeOK
    <2>. QED
      BY <2>2, <2>3 DEF Unmoved, InFlight, Settling
  <1>3. ASSUME (\E k \in Keys : Expire(k)) \/ UNCHANGED vars PROVE Unmoved
    BY <1>3 DEF Unmoved, Expire, LeaseExpires, tables, locals, vars, guardVars, InFlight, Settling
  <1>. QED
    BY <1>1, <1>2, <1>3 DEF Next, Finished

\* The writes go on to their next step.
LEMMA WritesGoOn ==
    ASSUME Inv, Answering, NEW c \in Calls, WriteSource(c) \/ WriteDest(c) \/ SaveTransfer(c)
    PROVE  /\ \A d \in Calls \ {c} : pc'[d] = pc[d]
           /\ UNCHANGED <<request, transfer, source, dest>>
           /\ WriteSource(c) => pc'[c] = AfterSource(request[c].op) /\ transfers' = transfers
           /\ WriteDest(c) => pc'[c] = "saveTransaction" /\ transfers' = transfers
           /\ SaveTransfer(c) => pc'[c] = "off" /\ inventory' = inventory
  BY DEF Answering, WriteSource, WriteDest, SaveTransfer, ReplyOrLost, BodyContinues,
         BodyReturns, Goto, Inv, TypeOK, locals

LEMMA NextNoneLost ==
    ASSUME Inv, Inv', Orderly, NoneLost, [Next]_vars, OneTransfer, Answering
    PROVE  NoneLost'
  <1>1. /\ IsFiniteSet(Stored) /\ OnHand(Stored) \in Int /\ InitialOnHand \in Int /\ Tidy
        /\ InFlight = {} => OnHand(Stored) = InitialOnHand
        /\ \A c \in InFlight : OnHand(Stored) + transfer[c].qty = InitialOnHand
    BY OnHandTypes DEF NoneLost, Orderly
  <1>2. InitialOnHand' = InitialOnHand
    BY DEF InitialOnHand
  <1>3. ASSUME NEW c \in Calls, WriteSource(c) PROVE NoneLost'
    <2>1. /\ InFlight = {} /\ InFlight' \subseteq {c}
          /\ request[c].op \in {"start", "complete"}
      BY <1>3, AloneInFlight
    <2>2. /\ IsFiniteSet(Stored') /\ transfer[c].qty \in Nat /\ transfer' = transfer
          /\ request[c].op = "start" => OnHand(Stored)' = OnHand(Stored)
          /\ request[c].op = "complete" => OnHand(Stored)' = OnHand(Stored) - transfer[c].qty
      BY <1>1, <1>3, WriteSourceUnits
    <2>3. pc'[c] = AfterSource(request[c].op)
      BY <1>3, WritesGoOn
    <2>4. CASE request[c].op = "start"
      <3>1. InFlight' = {}
        BY <2>1, <2>3, <2>4 DEF InFlight, AfterSource
      <3>. QED
        BY <1>1, <1>2, <2>1, <2>2, <2>4, <3>1 DEF NoneLost
    <2>5. CASE request[c].op = "complete"
      <3>1. InFlight' = {c}
        BY <2>1, <2>3, <2>5 DEF InFlight, AfterSource
      <3>. QED
        BY <1>1, <1>2, <2>1, <2>2, <2>5, <3>1 DEF NoneLost
    <2>. QED
      BY <2>1, <2>4, <2>5
  <1>4. ASSUME NEW c \in Calls, WriteDest(c) PROVE NoneLost'
    <2>1. InFlight' \subseteq {c}
      BY <1>4, AloneInFlight
    <2>2. /\ IsFiniteSet(Stored') /\ c \in InFlight
          /\ OnHand(Stored)' = OnHand(Stored) + transfer[c].qty
          /\ pc'[c] \notin {"diffDest", "writeDest"}
      BY <1>1, <1>4, WriteDestUnits
    <2>3. OnHand(Stored)' = InitialOnHand /\ InFlight' = {}
      BY <1>1, <2>1, <2>2 DEF InFlight
    <2>. QED
      BY <1>2, <2>2, <2>3 DEF NoneLost
  <1>5. ASSUME inventory' = inventory, InFlight' = InFlight,
               \A c \in InFlight : transfer'[c] = transfer[c]
        PROVE  NoneLost'
    <2>1. Stored' = Stored /\ OnHand(Stored)' = OnHand(Stored)
      BY <1>5 DEF Stored, OnHand
    <2>. QED
      BY <1>1, <1>2, <1>5, <2>1 DEF NoneLost
  <1>6. ASSUME NEW c \in Calls, SaveTransfer(c) PROVE NoneLost'
    <2>1. pc[c] = "saveTransfer"
      BY <1>6 DEF SaveTransfer
    <2>. QED
      BY <1>5, <1>6, <2>1, WritesGoOn DEF InFlight
  <1>. QED
    BY <1>3, <1>4, <1>5, <1>6, OnlyWritesMove DEF Unmoved

\* Where, besides, the database answers, the stores together have exactly the units of the
\* start whenever no body is between its saves.
THEOREM UnitsCorrect ==
    ASSUME OneTransfer, Faults \subseteq {"redis"}
    PROVE  Spec => []UnitsConserved
  <1>0. Answering /\ "timeout" \notin Faults
    BY DEF Answering
  <1>1. Init => Inv /\ Orderly /\ NoneLost
    BY InitInv, InitOrderly, InitOnHand
  <1>2. Inv /\ Orderly /\ NoneLost /\ [Next]_vars => (Inv /\ Orderly /\ NoneLost)'
    BY <1>0, NextInv, NextOrderly, NextNoneLost
  <1>3. Inv /\ Orderly /\ NoneLost => UnitsConserved
    <2>1. ASSUME Inv, Orderly, NEW c \in InFlight PROVE \E id \in Ids : c \in Moving(id)
      <3>1. c \in Calls /\ pc[c] \in {"diffDest", "writeDest"} /\ pc[c] \in HasSource
        BY DEF InFlight, HasSource
      <3>2. request[c].op # "create" /\ request[c].id \in Ids
        BY <2>1, <3>1, MoverFacts DEF Orderly, Mover
      <3>. QED
        BY <3>1, <3>2 DEF Moving, TransferId
    <2>. QED
      BY <2>1 DEF UnitsConserved, NoneLost
  <1>. QED
    BY <1>1, <1>2, <1>3, PTL DEF Spec

\* What the ledger shows while at most one body moves stock: of a shelf the object on its way
\* to it, or its row, or nothing; of a move what the stored transfer is about to become.
Shown ==
    /\ \A c, d \in Calls : Mover(c) /\ Mover(d) => c = d
    /\ \A c \in InFlight : Mover(c)
    /\ \A c \in InFlight : \A s \in Stores : transfer[c].to = s => ShelfOf(s) = dest[c].item
    /\ \A s \in Stores : (\A c \in InFlight : transfer[c].to # s) =>
        /\ \A r \in RowsOf(s) : ShelfOf(s) = inventory[r].item
        /\ RowsOf(s) = {} => ShelfOf(s) = None
    /\ \A c \in Settling : \A id \in Ids : request[c].id = id =>
            MoveOf(id) = [transfers[id] EXCEPT !.status = NewStatus(request[c].op)]
    /\ \A id \in Ids : (\A c \in Settling : request[c].id # id) => MoveOf(id) = transfers[id]

LEMMA OrderlyShows == Inv /\ Orderly /\ OneTransfer => Shown
  <1> SUFFICES ASSUME Inv, Orderly, OneTransfer PROVE Shown
    OBVIOUS
  <1>1. \A c, d \in Calls : Mover(c) /\ Mover(d) => c = d
    BY OneMover
  <1>2. ASSUME NEW c \in InFlight PROVE Mover(c) /\ c \in Calls /\ transfer[c].to \in Stores
    <2>1. c \in Calls /\ pc[c] \in HasSource
      BY DEF InFlight, HasSource
    <2>. QED
      BY <2>1, MoverFacts DEF Orderly, Transfer
  <1>3. ASSUME NEW c \in InFlight PROVE ShelfOf(transfer[c].to) = dest[c].item
    <2>1. Delivering(transfer[c].to) = {c}
      BY <1>1, <1>2 DEF Delivering, InFlight
    <2>. QED
      BY <2>1 DEF ShelfOf
  <1>4. ASSUME NEW s \in Stores, \A c \in InFlight : transfer[c].to # s
        PROVE  /\ \A r \in RowsOf(s) : ShelfOf(s) = inventory[r].item
               /\ RowsOf(s) = {} => ShelfOf(s) = None
    <2>1. Delivering(s) = {}
      BY <1>4 DEF Delivering, InFlight
    <2>2. \A a, b \in RowsOf(s) : a = b
      BY DEF Orderly, Tidy, OneRowPerStore
    <2>. QED
      BY <2>1, <2>2 DEF ShelfOf
  <1>5. ASSUME NEW id \in Ids PROVE Moving(id) = {c \in Settling : request[c].id = id}
    BY DEF Moving, Settling, TransferId
  <1>6. ASSUME NEW c \in Settling PROVE Mover(c) /\ c \in Calls /\ request[c].id \in Ids
    <2>1. c \in Calls /\ pc[c] \in AfterStart /\ pc[c] # "off" /\ request[c].op # "create"
      BY DEF Settling, AfterStart, DbSteps
    <2>2. request[c] \in Requests
      BY <2>1, RunningBody
    <2>. QED
      BY <2>1, <2>2, TransferRequestsAssumption DEF Mover, CreateRequest, HandleRequest
  <1>7. ASSUME NEW c \in Settling
        PROVE  MoveOf(request[c].id) =
                    [transfers[request[c].id] EXCEPT !.status = NewStatus(request[c].op)]
    <2>1. Moving(request[c].id) = {c}
      BY <1>1, <1>5, <1>6
    <2>. QED
      BY <2>1 DEF MoveOf
  <1>8. ASSUME NEW id \in Ids, \A c \in Settling : request[c].id # id
        PROVE  MoveOf(id) = transfers[id]
    <2>1. Moving(id) = {}
      BY <1>5, <1>8
    <2>. QED
      BY <2>1 DEF MoveOf
  <1>. QED
    BY <1>1, <1>2, <1>3, <1>4, <1>7, <1>8 DEF Shown

\* While c writes no other body has moved stock.
LEMMA AloneSettling ==
    ASSUME Shown, Shown', NEW c \in Calls, Mover(c), \A d \in Calls \ {c} : pc'[d] = pc[d],
           request' = request
    PROVE  /\ Settling \subseteq {c} /\ Settling' \subseteq {c}
           /\ InFlight \subseteq {c} /\ InFlight' \subseteq {c}
  <1>1. ASSUME NEW d \in Calls, d \in Settling \/ d \in InFlight PROVE d = c
    <2>1. Mover(d)
      BY <1>1 DEF Shown, Settling, Mover, AfterStart, DbSteps
    <2>. QED
      BY <2>1 DEF Shown
  <1>. QED
    BY <1>1 DEF Settling, InFlight

\* A shelf that is not written shows what it showed.
LEMMA ShelfStays ==
    ASSUME Shown, Shown', NEW s \in Stores,
           \A c \in InFlight : transfer[c].to # s,
           \A c \in InFlight' : transfer'[c].to # s,
           RowsOf(s)' = RowsOf(s), \A r \in RowsOf(s) : inventory'[r] = inventory[r]
    PROVE  ShelfOf(s)' = ShelfOf(s)
  <1>1. CASE RowsOf(s) = {}
    BY <1>1 DEF Shown
  <1>2. ASSUME NEW r \in RowsOf(s) PROVE ShelfOf(s)' = ShelfOf(s)
    BY <1>2 DEF Shown
  <1>. QED
    BY <1>1, <1>2

\* So does a transfer that a body goes on settling.
LEMMA MoveStays ==
    ASSUME Shown, Shown', NEW id \in Ids, NEW c \in Settling, c \in Settling',
           request[c].id = id, request'[c] = request[c], transfers'[id] = transfers[id]
    PROVE  MoveOf(id)' = MoveOf(id)
  <1>1. MoveOf(id) = [transfers[id] EXCEPT !.status = NewStatus(request[c].op)]
    BY DEF Shown
  <1>2. MoveOf(id)' = [transfers'[id] EXCEPT !.status = NewStatus(request'[c].op)]
    BY DEF Shown
  <1>. QED
    BY <1>1, <1>2

\* The first write of a body is where the ledger's move happens.
LEMMA WriteSourceShows ==
    ASSUME Inv, Inv', Orderly, Shown, Shown', OneTransfer, Answering,
           NEW c \in Calls, WriteSource(c),
           NEW t \in Transfer, t = transfer[c], NEW id \in Ids, id = request[c].id
    PROVE  /\ t.from # t.to /\ MoveOf(id) = t /\ request[c].op \in {"start", "complete"}
           /\ MoveOf(id)' = [t EXCEPT !.status = NewStatus(request[c].op)]
           /\ \A other \in Ids \ {id} : MoveOf(other)' = MoveOf(other)
           /\ ShelfOf(t.from) \in InventoryItem
           /\ ShelfOf(t.to) = None \/ ShelfOf(t.to) \in InventoryItem
           /\ \A s \in Stores \ {t.from, t.to} : ShelfOf(s)' = ShelfOf(s)
           /\ request[c].op = "start" =>
                /\ t.status = "PENDING" /\ CanReserve(ShelfOf(t.from), t.qty)
                /\ ShelfOf(t.from)' = ReserveStock(ShelfOf(t.from), t.qty)
                /\ ShelfOf(t.to)' = ShelfOf(t.to)
           /\ request[c].op = "complete" =>
                /\ t.status = "IN_TRANSIT"
                /\ ShelfOf(t.from)' = ConfirmSale(ShelfOf(t.from), t.qty)
                /\ ShelfOf(t.to)' = AddStock(IF ShelfOf(t.to) = None THEN EmptyItem
                                             ELSE ShelfOf(t.to), t.qty)
  <1>0. /\ pc[c] = "writeSource" /\ pc[c] \in HasSource /\ pc[c] \in HasDest
        /\ Tidy /\ t.from \in Stores /\ t.to \in Stores
    BY DEF WriteSource, HasSource, HasDest, Orderly, Transfer
  <1>1. /\ Mover(c) /\ request[c].op \in {"start", "complete"}
        /\ t.from # t.to /\ t = transfers[id]
    BY <1>0, MoverFacts
  <1>2. PICK r : r = source[c].id
    OBVIOUS
  <1>3. /\ r \in RowsOf(t.from) /\ \A s : RowsOf(s)' = RowsOf(s)
        /\ inventory'[r] = [store |-> t.from, item |-> source[c].item]
        /\ \A other \in RowIds \ {r} : inventory'[other] = inventory[other]
        /\ request[c].op = "start" =>
                /\ CanReserve(inventory[r].item, t.qty)
                /\ source[c].item = ReserveStock(inventory[r].item, t.qty)
        /\ request[c].op = "complete" => source[c].item = ConfirmSale(inventory[r].item, t.qty)
    BY <1>0, <1>2, WriteSourceDoes
  <1>4. /\ \A d \in Calls \ {c} : pc'[d] = pc[d]
        /\ UNCHANGED <<request, transfer, source, dest, transfers>>
        /\ pc'[c] = AfterSource(request[c].op)
    BY WritesGoOn
  <1>5. /\ Settling = {} /\ InFlight = {} /\ Settling' = {c}
        /\ request[c].op = "start" => InFlight' = {}
        /\ request[c].op = "complete" => InFlight' = {c}
    <2>1. /\ Settling \subseteq {c} /\ Settling' \subseteq {c}
          /\ InFlight \subseteq {c} /\ InFlight' \subseteq {c}
      BY <1>1, <1>4, AloneSettling
    <2>. QED
      BY <2>1, <1>0, <1>1, <1>4 DEF Settling, InFlight, AfterSource
  <1>6. /\ MoveOf(id) = t
        /\ MoveOf(id)' = [t EXCEPT !.status = NewStatus(request[c].op)]
        /\ \A other \in Ids \ {id} : MoveOf(other)' = MoveOf(other)
    <2>1. MoveOf(id) = t /\ \A other \in Ids : MoveOf(other) = transfers[other]
      BY <1>1, <1>5 DEF Shown
    <2>2. request'[c] = request[c] /\ transfers' = transfers /\ c \in Settling'
      BY <1>4, <1>5
    <2>3. MoveOf(id)' = [t EXCEPT !.status = NewStatus(request[c].op)]
      <3>1. MoveOf(id)' = [transfers'[id] EXCEPT !.status = NewStatus(request'[c].op)]
        BY <2>2 DEF Shown
      <3>. QED
        BY <1>1, <2>2, <3>1 DEF NewStatus
    <2>4. \A other \in Ids \ {id} : MoveOf(other)' = transfers[other]
      BY <1>5, <2>2 DEF Shown
    <2>. QED
      BY <2>1, <2>3, <2>4
  <1>7. ShelfOf(t.from) = inventory[r].item /\ inventory[r].item \in InventoryItem
    BY <1>0, <1>3, <1>5, RowTypes DEF Shown
  <1>8. ShelfOf(t.from)' = source[c].item
    <2>1. \A d \in InFlight' : transfer'[d].to # t.from
      <3>1. transfer'[c] = t /\ InFlight' \subseteq {c}
        BY <1>1, <1>4, <1>5
      <3>. QED
        BY <1>1, <3>1
    <2>2. r \in RowsOf(t.from)'
      BY <1>3
    <2>. QED
      BY <1>0, <1>3, <2>1, <2>2 DEF Shown
  <1>9. ASSUME NEW s \in Stores \ {t.from}, s = t.to => request[c].op = "start"
        PROVE  ShelfOf(s)' = ShelfOf(s)
    <2>1. \A other \in RowsOf(s) : inventory'[other] = inventory[other]
      BY <1>3, <1>9 DEF RowsOf
    <2>2. \A d \in InFlight' : transfer'[d].to # s
      BY <1>1, <1>4, <1>5, <1>9
    <2>. QED
      BY <1>3, <1>5, <2>1, <2>2, ShelfStays
  <1>10. ShelfOf(t.to) = None \/ ShelfOf(t.to) \in InventoryItem
    BY <1>0, <1>5, RowTypes DEF Shown
  <1>11. CASE request[c].op = "start"
    <2>1. t.status = "PENDING"
      BY <1>0, <1>1, <1>11 DEF Tidy, View, MoverShape, CanHandle
    <2>. QED
      BY <1>0, <1>1, <1>3, <1>6, <1>7, <1>8, <1>9, <1>10, <1>11, <2>1
  <1>12. CASE request[c].op = "complete"
    <2>1. t.status = "IN_TRANSIT" /\ DestSeen(c)
      BY <1>0, <1>1, <1>12 DEF Tidy, View, MoverShape, CanHandle
    <2>2. ShelfOf(t.to)' = dest[c].item
      <3>1. c \in InFlight' /\ transfer'[c] = t /\ dest'[c] = dest[c]
        BY <1>4, <1>5, <1>12
      <3>. QED
        BY <1>0, <3>1 DEF Shown
    <2>3. dest[c].item = AddStock(IF ShelfOf(t.to) = None THEN EmptyItem ELSE ShelfOf(t.to), t.qty)
      <3>1. CASE RowsOf(t.to) = {}
        <4>1. ShelfOf(t.to) = None
          BY <1>0, <1>5, <3>1 DEF Shown
        <4>. QED
          BY <2>1, <3>1, <4>1 DEF DestSeen
      <3>2. CASE RowsOf(t.to) # {}
        <4>1. /\ dest[c].id \in RowsOf(t.to)
              /\ dest[c].item = AddStock(inventory[dest[c].id].item, t.qty)
          BY <2>1, <3>2 DEF DestSeen
        <4>2. ShelfOf(t.to) = inventory[dest[c].id].item /\ ShelfOf(t.to) \in InventoryItem
          BY <1>0, <1>5, <4>1, RowTypes DEF Shown
        <4>. QED
          BY <4>1, <4>2, TransferNoneAssumption
      <3>. QED
        BY <3>1, <3>2
    <2>. QED
      BY <1>0, <1>1, <1>3, <1>6, <1>7, <1>8, <1>9, <1>10, <1>12, <2>1, <2>2, <2>3
  <1>. QED
    BY <1>1, <1>11, <1>12

LedgerShelf == [s \in Stores |-> ShelfOf(s)]
LedgerMoves == [id \in Ids |-> MoveOf(id)]

\* The ledger's own copies of the operations on an item are the same.
LEMMA LedgerItems ==
    ASSUME NEW item, NEW qty
    PROVE  /\ Ledger!CanReserve(item, qty) <=> CanReserve(item, qty)
           /\ Ledger!ReserveStock(item, qty) = ReserveStock(item, qty)
           /\ Ledger!ConfirmSale(item, qty) = ConfirmSale(item, qty)
           /\ Ledger!AddStock(item, qty) = AddStock(item, qty)
           /\ Ledger!EmptyItem = EmptyItem
  BY DEF Ledger!CanReserve, CanReserve, Ledger!ReserveStock, ReserveStock, Ledger!ConfirmSale,
         ConfirmSale, Ledger!AddStock, AddStock, Ledger!EmptyItem, EmptyItem

LEMMA WriteSourceMoves ==
    ASSUME Inv, Inv', Orderly, Shown, Shown', OneTransfer, Answering,
           NEW c \in Calls, WriteSource(c)
    PROVE  Ledger!LedgerNext
  <1>0. pc[c] = "writeSource" /\ pc[c] \in HasSource /\ Tidy
    BY DEF WriteSource, HasSource, Orderly
  <1>1. transfer[c] \in Transfer /\ request[c].id \in Ids
    BY <1>0, MoverFacts
  <1>2. PICK t \in Transfer : t = transfer[c]
    BY <1>1
  <1>3. PICK id \in Ids : id = request[c].id
    BY <1>1
  <1>4. t.from \in Stores /\ t.to \in Stores
    BY DEF Transfer
  <1>5. /\ t.from # t.to /\ LedgerMoves[id] = t /\ t # None
        /\ LedgerShelf[t.from] \in InventoryItem /\ LedgerShelf[t.from] # None
    BY <1>2, <1>3, <1>4, WriteSourceShows, TransferNoneAssumption DEF LedgerMoves, LedgerShelf
  <1>6. /\ MoveOf(id)' = [t EXCEPT !.status = NewStatus(request[c].op)]
        /\ \A other \in Ids \ {id} : MoveOf(other)' = MoveOf(other)
    BY <1>2, <1>3, WriteSourceShows
  <1>7. CASE request[c].op = "start"
    <2>1. /\ t.status = "PENDING" /\ CanReserve(ShelfOf(t.from), t.qty)
          /\ ShelfOf(t.from)' = ReserveStock(ShelfOf(t.from), t.qty)
          /\ \A s \in Stores \ {t.from} : ShelfOf(s)' = ShelfOf(s)
      BY <1>2, <1>3, <1>7, WriteSourceShows
    <2>2. LedgerMoves' = [LedgerMoves EXCEPT ![id] = [t EXCEPT !.status = "IN_TRANSIT"]]
      BY <1>7, <1>6 DEF LedgerMoves, NewStatus
    <2>3. /\ LedgerShelf' = [LedgerShelf EXCEPT ![t.from] = ReserveStock(@, t.qty)]
          /\ CanReserve(LedgerShelf[t.from], t.qty)
      BY <1>4, <2>1 DEF LedgerShelf
    <2>4. LedgerMoves' = [LedgerMoves EXCEPT ![id].status = "IN_TRANSIT"]
      BY <1>5, <2>2
    <2>5. Ledger!Depart(id)
      BY <1>5, <2>1, <2>4, <2>3, LedgerItems
         DEF Ledger!Depart, Ledger!Has, LedgerMoves, LedgerShelf
    <2>. QED
      BY <2>5 DEF Ledger!LedgerNext
  <1>8. CASE request[c].op = "complete"
    <2>1. t.status = "IN_TRANSIT"
      BY <1>2, <1>3, <1>8, WriteSourceShows
    <2>2. LedgerMoves' = [LedgerMoves EXCEPT ![id] = [t EXCEPT !.status = "COMPLETED"]]
      BY <1>8, <1>6 DEF LedgerMoves, NewStatus
    <2>3. LedgerShelf' = [LedgerShelf EXCEPT
              ![t.from] = ConfirmSale(@, t.qty),
              ![t.to] = AddStock(IF @ = None THEN EmptyItem ELSE @, t.qty)]
      BY <1>2, <1>3, <1>4, <1>5, <1>8, WriteSourceShows DEF LedgerShelf
    <2>4. LedgerMoves' = [LedgerMoves EXCEPT ![id].status = "COMPLETED"]
      BY <1>5, <2>2
    <2>5. LedgerShelf' = [LedgerShelf EXCEPT
              ![LedgerMoves[id].from] = ConfirmSale(@, LedgerMoves[id].qty),
              ![LedgerMoves[id].to] = AddStock(IF @ = None THEN EmptyItem ELSE @,
                                               LedgerMoves[id].qty)]
      BY <1>5, <2>3
    <2>6. Ledger!Has(id, "IN_TRANSIT")
      BY <1>5, <2>1 DEF Ledger!Has, LedgerMoves
    <2>7. Ledger!Deliver(id)
      BY <2>5, <2>6, <2>4, Zenon
         DEF Ledger!Deliver, LedgerMoves, LedgerShelf, Ledger!ConfirmSale, ConfirmSale,
             Ledger!AddStock, AddStock, Ledger!EmptyItem, EmptyItem
    <2>. QED
      BY <2>7 DEF Ledger!LedgerNext
  <1>. QED
    BY <1>2, <1>3, <1>7, <1>8, WriteSourceShows

\* The second write of a completion changes only where the units are kept.
LEMMA WriteDestStays ==
    ASSUME Inv, Inv', Orderly, Orderly', Shown, Shown', OneTransfer, Answering,
           NEW c \in Calls, WriteDest(c)
    PROVE  UNCHANGED <<LedgerShelf, LedgerMoves>>
  <1>0. /\ pc[c] = "writeDest" /\ pc[c] \in HasSource /\ Tidy /\ OneRowPerStore'
        /\ c \in InFlight
    BY DEF WriteDest, HasSource, Orderly, Tidy, InFlight
  <1>1. Mover(c) /\ transfer[c] \in Transfer /\ request[c].op # "create"
    BY <1>0, MoverFacts DEF Mover
  <1>2. PICK to \in Stores : to = transfer[c].to
    BY <1>1 DEF Transfer
  <1>3. PICK r : r = dest[c].id
    OBVIOUS
  <1>4. /\ dest[c] \in Object
        /\ inventory'[r] = [store |-> to, item |-> dest[c].item]
        /\ \A other \in RowIds \ {r} : inventory'[other] = inventory[other]
        /\ \A s : RowsOf(s)' = IF s = to THEN RowsOf(s) \cup {r} ELSE RowsOf(s)
        /\ r \in RowsOf(to) \/ inventory[r] = None
    BY <1>0, <1>2, <1>3, WriteDestDoes
  <1>5. /\ \A d \in Calls \ {c} : pc'[d] = pc[d]
        /\ UNCHANGED <<request, transfer, source, dest, transfers>>
        /\ pc'[c] = "saveTransaction"
    BY WritesGoOn
  <1>6. InFlight = {c} /\ InFlight' = {} /\ Settling = {c} /\ Settling' = {c}
    <2>1. /\ Settling \subseteq {c} /\ Settling' \subseteq {c}
          /\ InFlight \subseteq {c} /\ InFlight' \subseteq {c}
      BY <1>1, <1>5, AloneSettling
    <2>. QED
      BY <2>1, <1>0, <1>1, <1>5 DEF Settling, InFlight
  <1>7. ShelfOf(to)' = ShelfOf(to)
    <2>1. ShelfOf(to) = dest[c].item
      BY <1>2, <1>6 DEF Shown
    <2>2. r \in RowsOf(to)'
      BY <1>4
    <2>3. ShelfOf(to)' = inventory'[r].item
      BY <1>6, <2>2 DEF Shown
    <2>. QED
      BY <1>4, <2>1, <2>3
  <1>8. ASSUME NEW s \in Stores \ {to} PROVE ShelfOf(s)' = ShelfOf(s)
    <2>1. \A other \in RowsOf(s) : inventory'[other] = inventory[other]
      BY <1>4 DEF RowsOf
    <2>2. RowsOf(s)' = RowsOf(s)
      BY <1>4
    <2>. QED
      BY <1>2, <1>6, <2>1, <2>2, ShelfStays
  <1>9. ASSUME NEW id \in Ids PROVE MoveOf(id)' = MoveOf(id)
    <2>1. request'[c] = request[c] /\ transfers'[id] = transfers[id]
      BY <1>5
    <2>. QED
      BY <1>6, <2>1 DEF Shown
  <1>. QED
    BY <1>7, <1>8, <1>9 DEF LedgerShelf, LedgerMoves

\* createTransfer's save is the ledger's plan; the others' only write down what it shows.
LEMMA SaveTransferMoves ==
    ASSUME Inv, Inv', Orderly, Shown, Shown', OneTransfer, Answering,
           NEW c \in Calls, SaveTransfer(c)
    PROVE  Ledger!LedgerNext \/ UNCHANGED <<LedgerShelf, LedgerMoves>>
  <1>0. pc[c] = "saveTransfer" /\ pc[c] \in AfterStart /\ Tidy
    BY DEF SaveTransfer, AfterStart, DbSteps, Orderly
  <1>1. PICK id \in Ids : id = TransferId(c)
    BY <1>0, SaveTransferDoes
  <1>2. PICK t \in Transfer : t = transfer[c]
    BY <1>0, SaveTransferDoes
  <1>3. /\ t.from # t.to
        /\ \A other \in Ids \ {id} : transfers'[other] = transfers[other]
        /\ transfers'[id] = [t EXCEPT !.status = NewStatus(request[c].op)]
        /\ IF request[c].op = "create"
           THEN /\ transfers[id] = None /\ request[c] \in Requests \cap CreateRequest
                /\ t.qty = request[c].qty /\ t.status = "PENDING"
                /\ RowsOf(t.from) # {}
           ELSE Mover(c) /\ id = request[c].id /\ t = transfers[id]
    BY <1>0, <1>1, <1>2, SaveTransferDoes
  <1>4. /\ \A d \in Calls \ {c} : pc'[d] = pc[d]
        /\ UNCHANGED <<request, transfer, source, dest, inventory>>
        /\ pc'[c] = "off"
    BY WritesGoOn
  <1>5. InFlight' = InFlight /\ Settling' = Settling \ {c}
    BY <1>0, <1>4 DEF InFlight, Settling
  <1>6. ASSUME NEW s \in Stores PROVE ShelfOf(s)' = ShelfOf(s)
    <2>1. CASE \A d \in InFlight : transfer[d].to # s
      <3>1. RowsOf(s)' = RowsOf(s) /\ \A r \in RowsOf(s) : inventory'[r] = inventory[r]
        BY <1>4 DEF RowsOf
      <3>2. \A d \in InFlight' : transfer'[d].to # s
        BY <1>4, <1>5, <2>1
      <3>. QED
        BY <2>1, <3>1, <3>2, ShelfStays
    <2>2. ASSUME NEW d \in InFlight, transfer[d].to = s PROVE ShelfOf(s)' = ShelfOf(s)
      <3>1. d \in InFlight' /\ transfer'[d].to = s /\ dest'[d] = dest[d]
        BY <1>4, <1>5, <2>2
      <3>2. ShelfOf(s) = dest[d].item
        BY <2>2 DEF Shown
      <3>3. ShelfOf(s)' = dest'[d].item
        BY <3>1 DEF Shown
      <3>. QED
        BY <3>1, <3>2, <3>3
    <2>. QED
      BY <2>1, <2>2
  <1>7. LedgerShelf' = LedgerShelf
    BY <1>6 DEF LedgerShelf
  <1>8. CASE request[c].op = "create"
    <2>1. c \notin Settling /\ Settling' = Settling
      BY <1>5, <1>8 DEF Settling
    <2>2. ASSUME NEW d \in Settling PROVE request[d].id # id
      <3>1. d \in Calls /\ pc[d] \in AfterStart /\ request[d].op # "create"
        BY DEF Settling, AfterStart, DbSteps
      <3>. QED
        BY <1>3, <1>8, <3>1, HeldTransfer
    <2>3. MoveOf(id) = None
      BY <1>3, <1>8, <2>2 DEF Shown
    <2>4. MoveOf(id)' = t
      <3>1. \A d \in Settling' : request'[d].id # id
        BY <1>4, <2>1, <2>2
      <3>2. MoveOf(id)' = transfers'[id]
        BY <3>1 DEF Shown
      <3>3. t = [t EXCEPT !.status = "PENDING"]
        BY <1>3, <1>8 DEF Transfer
      <3>. QED
        BY <1>3, <1>8, <3>2, <3>3 DEF NewStatus
    <2>5. ASSUME NEW other \in Ids \ {id} PROVE MoveOf(other)' = MoveOf(other)
      <3>1. transfers'[other] = transfers[other] /\ \A d \in Settling : request'[d] = request[d]
        BY <1>3, <1>4
      <3>2. CASE \A d \in Settling : request[d].id # other
        BY <2>1, <3>1, <3>2 DEF Shown
      <3>3. ASSUME NEW d \in Settling, request[d].id = other PROVE MoveOf(other)' = MoveOf(other)
        BY <2>1, <3>1, <3>3, MoveStays
      <3>. QED
        BY <3>2, <3>3
    <2>6. LedgerMoves' = [LedgerMoves EXCEPT ![id] =
                [from |-> t.from, to |-> t.to, qty |-> t.qty, status |-> "PENDING"]]
      <3>1. t = [from |-> t.from, to |-> t.to, qty |-> t.qty, status |-> "PENDING"]
        BY <1>3, <1>8 DEF Transfer
      <3>2. LedgerMoves' = [LedgerMoves EXCEPT ![id] = t]
        BY <2>4, <2>5 DEF LedgerMoves
      <3>. QED
        BY <3>1, <3>2
    <2>7. t.from \in Stores /\ t.to \in Stores
      BY DEF Transfer
    <2>8. LedgerShelf[t.from] # None
      <3>1. CASE \A d \in InFlight : transfer[d].to # t.from
        <4>1. PICK r \in RowsOf(t.from) : TRUE
          BY <1>3, <1>8
        <4>2. ShelfOf(t.from) = inventory[r].item /\ inventory[r].item \in InventoryItem
          BY <2>7, <3>1, RowTypes DEF Shown
        <4>. QED
          BY <2>7, <4>2, TransferNoneAssumption DEF LedgerShelf
      <3>2. ASSUME NEW d \in InFlight, transfer[d].to = t.from PROVE LedgerShelf[t.from] # None
        <4>1. ShelfOf(t.from) = dest[d].item
          BY <2>7, <3>2 DEF Shown
        <4>2. /\ d \in Calls /\ pc[d] \in HasSource /\ pc[d] # "readDest"
              /\ pc[d] \in {"diffDest", "writeDest"} /\ pc[d] # "off"
          BY DEF InFlight, HasSource
        <4>3. request[d].op = "complete"
          BY <4>2, RunningBody DEF BodyShape
        <4>4. dest[d] \in Object
          BY <1>0, <4>2, <4>3, MoverFacts
        <4>. QED
          BY <2>7, <4>1, <4>4, TransferNoneAssumption DEF LedgerShelf, Object
      <3>. QED
        BY <3>1, <3>2
    <2>9. t.qty \in {r.qty : r \in Requests \cap CreateRequest}
                    \cup {Prior[p].qty : p \in DOMAIN Prior}
      BY <1>3, <1>8
    <2>10. Ledger!Plan(id, t.from, t.to, t.qty)
      BY <1>3, <1>7, <2>3, <2>6, <2>8 DEF Ledger!Plan, LedgerShelf, LedgerMoves
    <2>. QED
      BY <2>7, <2>9, <2>10 DEF Ledger!LedgerNext
  <1>9. CASE request[c].op # "create"
    <2>1. Settling = {c} /\ Settling' = {}
      <3>1. Settling \subseteq {c}
        BY <1>3, <1>4, <1>9, AloneSettling
      <3>. QED
        BY <1>0, <1>5, <1>9, <3>1 DEF Settling
    <2>2. MoveOf(id)' = MoveOf(id)
      BY <1>3, <1>9, <2>1 DEF Shown
    <2>3. ASSUME NEW other \in Ids \ {id} PROVE MoveOf(other)' = MoveOf(other)
      BY <1>3, <1>9, <2>1 DEF Shown
    <2>. QED
      BY <1>7, <2>2, <2>3 DEF LedgerMoves
  <1>. QED
    BY <1>8, <1>9

\* What the ledger does not see it does not see.
LEMMA UnmovedStays ==
    ASSUME Shown, Shown', Unmoved
    PROVE  UNCHANGED <<LedgerShelf, LedgerMoves>>
  <1>1. ASSUME NEW s \in Stores PROVE ShelfOf(s)' = ShelfOf(s)
    <2>1. CASE \A d \in InFlight : transfer[d].to # s
      <3>1. RowsOf(s)' = RowsOf(s) /\ \A r \in RowsOf(s) : inventory'[r] = inventory[r]
        BY DEF RowsOf, Unmoved
      <3>2. \A d \in InFlight' : transfer'[d].to # s
        BY <2>1 DEF Unmoved
      <3>. QED
        BY <2>1, <3>1, <3>2, ShelfStays
    <2>2. ASSUME NEW d \in InFlight, transfer[d].to = s PROVE ShelfOf(s)' = ShelfOf(s)
      <3>1. d \in InFlight' /\ transfer'[d].to = s /\ dest'[d] = dest[d]
        BY <2>2 DEF Unmoved
      <3>2. ShelfOf(s) = dest[d].item
        BY <2>2 DEF Shown
      <3>3. ShelfOf(s)' = dest'[d].item
        BY <3>1 DEF Shown
      <3>. QED
        BY <3>1, <3>2, <3>3
    <2>. QED
      BY <2>1, <2>2
  <1>2. ASSUME NEW id \in Ids PROVE MoveOf(id)' = MoveOf(id)
    <2>1. /\ transfers' = transfers /\ Settling' = Settling
          /\ \A d \in Settling : request'[d] = request[d]
      BY DEF Unmoved
    <2>2. CASE \A d \in Settling : request[d].id # id
      BY <2>1, <2>2 DEF Shown
    <2>3. ASSUME NEW d \in Settling, request[d].id = id PROVE MoveOf(id)' = MoveOf(id)
      BY <2>1, <2>3, MoveStays
    <2>. QED
      BY <2>2, <2>3
  <1>. QED
    BY <1>1, <1>2 DEF LedgerShelf, LedgerMoves

LEMMA InitLedger ==
    ASSUME Init, Shown
    PROVE  Ledger!LedgerInit
  <1>1. InFlight = {} /\ Settling = {}
    BY DEF Init, GuardInit, InFlight, Settling
  <1>2. ASSUME NEW s \in Stores PROVE ShelfOf(s) = InitialStock[s]
    <2>1. s \in RowIds /\ s \notin FreshIds
      BY TransferNoneAssumption DEF RowIds
    <2>2. inventory[s] = InitialRow(s) /\ \A r \in RowsOf(s) : r = s
      BY <2>1 DEF Init, RowsOf, InitialRow
    <2>3. CASE InitialStock[s] = None
      <3>1. RowsOf(s) = {}
        BY <2>2, <2>3 DEF RowsOf, InitialRow
      <3>. QED
        BY <1>1, <2>3, <3>1 DEF Shown
    <2>4. CASE InitialStock[s] # None
      <3>1. inventory[s] = [store |-> s, item |-> InitialStock[s]]
        BY <2>2, <2>4 DEF InitialRow
      <3>2. inventory[s] \in Row
        BY <2>4, <3>1, TransferStockAssumption DEF Row
      <3>3. s \in RowsOf(s)
        BY <2>1, <3>1, <3>2, TransferNoneAssumption DEF RowsOf
      <3>. QED
        BY <1>1, <3>1, <3>3 DEF Shown
    <2>. QED
      BY <2>3, <2>4
  <1>3. \A id \in Ids : MoveOf(id) = IF id \in DOMAIN Prior THEN Prior[id] ELSE None
    BY <1>1 DEF Shown, Init
  <1>4. [s \in Stores |-> ShelfOf(s)] = InitialStock
    BY <1>2, TransferStockAssumption
  <1>. QED
    BY <1>3, <1>4 DEF Ledger!LedgerInit

\* There, too, the service implements TransferLedger: however often the transfer is asked to
\* start or to complete, its units are reserved once and moved once, in steps nobody sees
\* half done.
THEOREM TransfersImplemented ==
    ASSUME OneTransfer, Faults \subseteq {"redis"}
    PROVE  Spec => ImplementsTransfers
  <1>0. Answering /\ "timeout" \notin Faults
    BY DEF Answering
  <1> DEFINE Good == Inv /\ Orderly /\ Shown
  <1>1. Init => Good /\ Ledger!LedgerInit
    BY InitInv, InitOrderly, OrderlyShows, InitLedger
  <1>2. Inv /\ Orderly /\ [Next]_vars => (Inv /\ Orderly)'
    BY <1>0, NextInv, NextOrderly
  <1>3. Inv /\ Orderly => Shown
    BY OrderlyShows
  <1>4. Good /\ Good' /\ [Next]_vars => [Ledger!LedgerNext]_(Ledger!ledgerVars)
    <2>1. SUFFICES ASSUME Good, Good', [Next]_vars
                   PROVE  Ledger!LedgerNext \/ UNCHANGED <<LedgerShelf, LedgerMoves>>
      BY DEF Ledger!ledgerVars, LedgerShelf, LedgerMoves
    <2>2. ASSUME NEW c \in Calls, WriteSource(c) PROVE Ledger!LedgerNext
      BY <1>0, <2>1, <2>2, WriteSourceMoves
    <2>3. ASSUME NEW c \in Calls, WriteDest(c) PROVE UNCHANGED <<LedgerShelf, LedgerMoves>>
      BY <1>0, <2>1, <2>3, WriteDestStays
    <2>4. ASSUME NEW c \in Calls, SaveTransfer(c)
          PROVE  Ledger!LedgerNext \/ UNCHANGED <<LedgerShelf, LedgerMoves>>
      BY <1>0, <2>1, <2>4, SaveTransferMoves
    <2>5. CASE Unmoved
      BY <2>1, <2>5, UnmovedStays
    <2>. QED
      BY <1>0, <2>1, <2>2, <2>3, <2>4, <2>5, OnlyWritesMove
  <1>. QED
    BY <1>1, <1>2, <1>3, <1>4, PTL DEF Spec, ImplementsTransfers, Ledger!LedgerSpec
=============================================================================
