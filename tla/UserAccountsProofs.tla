------------------------- MODULE UserAccountsProofs -------------------------
(***************************************************************************)
(* Proofs about UserAccounts and its history, for any users, requests and  *)
(* number of calls that overlap in any order: no two users share a name or *)
(* an email, tokens were deserved, and a save brings nothing back that was *)
(* over before its call began.                                             *)
(***************************************************************************)
EXTENDS AccountHistory, TLAPS

(* What a call holds at each of its steps.                                 *)

Carrying == {"select", "write", "insert", "delete", "reload"}

CallShape(c) ==
    /\ pc[c] = "idle" => answer[c] = "none" /\ request[c] = None
    /\ pc[c] # "idle" => request[c] \in Requests
    /\ pc[c] # "done" => answer[c] = "none"
    /\ (pc[c] \in Carrying \/ (pc[c] = "checkEmail" /\ request[c].op # "create")) =>
            object[c] \in [id : Ids, user : User]

TypeInv == TypeOK /\ \A c \in Calls : CallShape(c)

LEMMA RequestTypes ==
    ASSUME NEW r \in Requests
    PROVE  /\ r.op \in {"create", "updateProfile", "changePassword", "assignStore", "activate",
                        "deactivate", "delete", "refresh", "login"}
           /\ r.op = "create" => /\ r.username \in Usernames /\ r.email \in Emails
                                 /\ r.password \in Passwords /\ r.storeId \in Stores \cup {None}
           /\ r.op = "updateProfile" => /\ r.email \in Emails \cup {None}
                                        /\ r.storeId \in Stores \cup {None}
           /\ r.op = "changePassword" => r.newPassword \in Passwords
           /\ r.op = "assignStore" => r.storeId \in Stores
  BY RequestsAssumption DEF Request

LEMMA AppliedTypes ==
    ASSUME NEW r \in Requests, NEW user \in User
    PROVE  Applied(r, user) \in User
  <1>1. CASE r.op = "updateProfile"
    BY <1>1, RequestTypes DEF Applied, User
  <1>2. CASE r.op = "changePassword"
    BY <1>2, RequestTypes DEF Applied, User
  <1>3. CASE r.op = "assignStore"
    BY <1>3, RequestTypes DEF Applied, User
  <1>4. CASE r.op \in {"activate", "deactivate"}
    BY <1>4 DEF Applied, User
  <1>5. CASE r.op \in {"create", "delete", "refresh", "login"}
    BY <1>5 DEF Applied
  <1>. QED
    BY <1>1, <1>2, <1>3, <1>4, <1>5, RequestTypes

LEMMA NewUserTypes ==
    ASSUME NEW r \in Requests, r.op = "create"
    PROVE  NewUser(r) \in User
  BY RequestTypes DEF NewUser, User

LEMMA UpdatedTypes ==
    ASSUME NEW stored \in User, NEW new \in User, NEW columns
    PROVE  Updated(stored, new, columns) \in User
  BY DEF Updated, User

LEMMA ReplyTypes ==
    ASSUME TypeInv, NEW c \in Calls, NEW a \in {"ok", "error"}, Reply(c, a), pc[c] # "idle",
           request' = request, UNCHANGED locals,
           users' \in [Ids -> User \cup {None}], tokens' \subseteq Ids
    PROVE  TypeInv'
  <1>1. TypeOK'
    BY DEF TypeInv, TypeOK, Reply, locals
  <1>2. ASSUME NEW d \in Calls PROVE CallShape(d)'
    <2>1. CASE d = c
      BY <2>1 DEF TypeInv, TypeOK, CallShape, Carrying, Reply, locals
    <2>2. CASE d # c
      BY <2>2 DEF TypeInv, TypeOK, CallShape, Carrying, Reply, locals
    <2>. QED
      BY <2>1, <2>2
  <1>. QED
    BY <1>1, <1>2 DEF TypeInv

LEMMA RefuseTypes ==
    ASSUME TypeInv, NEW c \in Calls, Refuse(c), pc[c] # "idle"
    PROVE  TypeInv'
  BY ReplyTypes DEF Refuse, TypeInv, TypeOK

LEMMA KeepTypes ==
    ASSUME TypeInv, NEW c \in Calls, NEW id \in Ids, NEW user \in User,
           NEW step \in Carrying \cup {"checkEmail"},
           Keep(c, id, user, step), pc[c] \notin {"idle", "done"}
    PROVE  TypeInv'
  <1>1. TypeOK'
    BY DEF TypeInv, TypeOK, Keep, Goto, Carrying
  <1>2. ASSUME NEW d \in Calls PROVE CallShape(d)'
    <2>1. CASE d = c
      <3>1. /\ pc'[c] = step /\ object'[c] = [id |-> id, user |-> user]
            /\ request' = request /\ answer' = answer
        BY DEF TypeInv, TypeOK, Keep, Goto
      <3>. QED
        BY <2>1, <3>1 DEF TypeInv, CallShape, Carrying
    <2>2. CASE d # c
      BY <2>2 DEF TypeInv, TypeOK, CallShape, Carrying, Keep, Goto
    <2>. QED
      BY <2>1, <2>2
  <1>. QED
    BY <1>1, <1>2 DEF TypeInv

\* The call goes on with what it holds.
LEMMA GoesOnTypes ==
    ASSUME TypeInv, NEW c \in Calls, NEW step \in Carrying \cup {"checkEmail"}, Goto(c, step),
           pc[c] \notin {"idle", "done"}, request' = request, object' = object,
           \/ object[c] \in [id : Ids, user : User]
           \/ step = "checkEmail" /\ request[c].op = "create",
           users' \in [Ids -> User \cup {None}], tokens' = tokens,
           dirty' \in [Calls -> SUBSET Columns]
    PROVE  TypeInv'
  <1>1. TypeOK'
    BY DEF TypeInv, TypeOK, Goto, Carrying
  <1>2. ASSUME NEW d \in Calls PROVE CallShape(d)'
    <2>1. CASE d = c
      BY <2>1 DEF TypeInv, TypeOK, CallShape, Carrying, Goto
    <2>2. CASE d # c
      BY <2>2 DEF TypeInv, TypeOK, CallShape, Carrying, Goto
    <2>. QED
      BY <2>1, <2>2
  <1>. QED
    BY <1>1, <1>2 DEF TypeInv

LEMMA StoredTypes ==
    ASSUME TypeInv, NEW id \in Stored
    PROVE  id \in Ids /\ users[id] \in User
  BY DEF Stored, TypeInv, TypeOK

LEMMA ReadingTypes ==
    ASSUME TypeInv, NEW c \in Calls,
           Call(c) \/ Find(c) \/ Refresh(c) \/ FindUsername(c) \/ CheckEmail(c)
    PROVE  TypeInv'
  <1>1. CASE Call(c)
    <2>1. PICK r \in Requests : request' = [request EXCEPT ![c] = r]
      BY <1>1 DEF Call
    <2>2. TypeOK'
      BY <1>1, <2>1 DEF Call, Goto, locals, TypeInv, TypeOK
    <2>3. ASSUME NEW d \in Calls PROVE CallShape(d)'
      <3>1. CASE d = c
        BY <1>1, <2>1, <3>1 DEF Call, Goto, locals, TypeInv, TypeOK, CallShape, Carrying
      <3>2. CASE d # c
        BY <1>1, <2>1, <3>2 DEF Call, Goto, locals, TypeInv, TypeOK, CallShape, Carrying
      <3>. QED
        BY <3>1, <3>2
    <2>. QED
      BY <2>2, <2>3 DEF TypeInv
  <1>2. CASE Find(c)
    <2> DEFINE r == request[c]
    <2>1. pc[c] = "start" /\ r \in Requests
      BY <1>2 DEF Find, TypeInv, CallShape
    <2>2. CASE Refuse(c)
      BY <2>1, <2>2, RefuseTypes
    <2>3. CASE \E id \in Subject(r) :
                 \/ Keep(c, id, users[id], "delete")
                 \/ Keep(c, id, Applied(r, users[id]), "checkEmail")
                 \/ Keep(c, id, Applied(r, users[id]), "select")
      <3>1. PICK id \in Subject(r) :
                 \/ Keep(c, id, users[id], "delete")
                 \/ Keep(c, id, Applied(r, users[id]), "checkEmail")
                 \/ Keep(c, id, Applied(r, users[id]), "select")
        BY <2>3
      <3>2. id \in Stored
        BY DEF Subject
      <3>3. id \in Ids /\ users[id] \in User
        BY <3>2, StoredTypes
      <3>4. Applied(r, users[id]) \in User
        BY <2>1, <3>3, AppliedTypes
      <3>5. {"delete", "select", "checkEmail"} \subseteq Carrying \cup {"checkEmail"}
        BY DEF Carrying
      <3>. QED
        BY <2>1, <3>1, <3>3, <3>4, <3>5, KeepTypes
    <2>. QED
      BY <1>2, <2>2, <2>3 DEF Find
  <1>3. CASE Refresh(c)
    <2>1. CASE Refuse(c)
      BY <1>3, <2>1, RefuseTypes DEF Refresh
    <2>2. CASE ~Refuse(c)
      BY <1>3, <2>2, ReplyTypes DEF Refresh, TypeInv, TypeOK
    <2>. QED
      BY <2>1, <2>2
  <1>4. CASE FindUsername(c)
    <2>1. CASE Refuse(c)
      BY <1>4, <2>1, RefuseTypes DEF FindUsername
    <2>2. CASE ~Refuse(c)
      BY <1>4, <2>2, GoesOnTypes DEF FindUsername, locals, TypeInv, TypeOK
    <2>. QED
      BY <2>1, <2>2
  <1>5. CASE CheckEmail(c)
    <2> DEFINE r == request[c]
    <2>1. pc[c] = "checkEmail" /\ r \in Requests
      BY <1>5 DEF CheckEmail, TypeInv, CallShape
    <2>2. CASE Refuse(c)
      BY <2>1, <2>2, RefuseTypes
    <2>3. CASE r.op = "create" /\ Keep(c, c, NewUser(r), "insert")
      <3>1. NewUser(r) \in User /\ c \in Ids /\ "insert" \in Carrying
        BY <2>1, <2>3, NewUserTypes DEF Ids, Carrying
      <3>. QED
        BY <2>1, <2>3, <3>1, KeepTypes
    <2>4. CASE r.op # "create" /\ Goto(c, "select") /\ UNCHANGED <<users, tokens, request, locals>>
      <3>1. object[c] \in [id : Ids, user : User] /\ "select" \in Carrying
        BY <2>1, <2>4 DEF TypeInv, CallShape, Carrying
      <3>. QED
        BY <2>1, <2>4, <3>1, GoesOnTypes DEF locals, TypeInv, TypeOK
    <2>. QED
      BY <1>5, <2>2, <2>3, <2>4 DEF CheckEmail
  <1>. QED
    BY <1>1, <1>2, <1>3, <1>4, <1>5

LEMMA SavedTypes ==
    ASSUME TypeInv, NEW c \in Calls, NEW id \in Ids, NEW row \in User, Saved(c, id, row),
           pc[c] \in Carrying
    PROVE  TypeInv'
  <1>1. CASE Unique(id, row)
    <2>1. users' \in [Ids -> User \cup {None}]
      BY <1>1 DEF Saved, TypeInv, TypeOK
    <2>2. object[c] \in [id : Ids, user : User]
      BY DEF TypeInv, CallShape
    <2>. QED
      BY <1>1, <2>1, <2>2, GoesOnTypes DEF Saved, locals, TypeInv, TypeOK, Carrying
  <1>2. CASE ~Unique(id, row)
    BY <1>2, RefuseTypes DEF Saved, Carrying
  <1>. QED
    BY <1>1, <1>2

LEMMA SavingTypes ==
    ASSUME TypeInv, NEW c \in Calls,
           Select(c) \/ Write(c) \/ Insert(c) \/ Reload(c) \/ Delete(c) \/ Fails(c)
    PROVE  TypeInv'
  <1>0. pc[c] \in Carrying => object[c] \in [id : Ids, user : User]
    BY DEF TypeInv, CallShape
  <1>1. CASE Select(c)
    <2>1. dirty' \in [Calls -> SUBSET Columns]
      BY <1>1 DEF Select, Differing, Columns, TypeInv, TypeOK
    <2>2. PICK step \in {"write", "insert"} : Goto(c, step)
      BY <1>1 DEF Select
    <2>. QED
      BY <1>0, <1>1, <2>1, <2>2, GoesOnTypes DEF Select, TypeInv, TypeOK, Carrying
  <1>2. CASE Write(c)
    <2>1. pc[c] = "write" /\ object[c] \in [id : Ids, user : User]
      BY <1>0, <1>2 DEF Write, Carrying
    <2>2. CASE object[c].id \in Stored
      <3>1. Updated(users[object[c].id], object[c].user, dirty[c]) \in User
        BY <2>1, <2>2, StoredTypes, UpdatedTypes
      <3>. QED
        BY <1>2, <2>1, <2>2, <3>1, SavedTypes DEF Write, Carrying
    <2>3. CASE object[c].id \notin Stored
      BY <1>2, <2>1, <2>3, GoesOnTypes DEF Write, locals, TypeInv, TypeOK, Carrying
    <2>. QED
      BY <2>2, <2>3
  <1>3. CASE Insert(c)
    BY <1>0, <1>3, SavedTypes, RefuseTypes DEF Insert, Carrying
  <1>4. CASE Reload(c)
    <2>1. CASE Refuse(c)
      BY <1>4, <2>1, RefuseTypes DEF Reload
    <2>2. CASE ~Refuse(c)
      BY <1>0, <1>4, <2>2, ReplyTypes DEF Reload, TypeInv, TypeOK, Carrying
    <2>. QED
      BY <2>1, <2>2
  <1>5. CASE Delete(c)
    BY <1>0, <1>5, ReplyTypes DEF Delete, TypeInv, TypeOK, Carrying
  <1>6. CASE Fails(c)
    BY <1>6, RefuseTypes DEF Fails
  <1>. QED
    BY <1>1, <1>2, <1>3, <1>4, <1>5, <1>6

LEMMA InitTypes == Init => TypeInv
  <1> SUFFICES ASSUME Init PROVE TypeInv
    OBVIOUS
  <1>1. TypeOK
    BY AccountsAssumption DEF Init, TypeOK, Ids
  <1>2. \A c \in Calls : CallShape(c)
    BY DEF Init, CallShape, Carrying
  <1>. QED
    BY <1>1, <1>2 DEF TypeInv

LEMMA NextTypes == TypeInv /\ [Next]_vars => TypeInv'
  <1> SUFFICES ASSUME TypeInv, [Next]_vars PROVE TypeInv'
    OBVIOUS
  <1>1. CASE UNCHANGED vars
    BY <1>1 DEF vars, TypeInv, TypeOK, CallShape, Carrying
  <1>2. ASSUME NEW c \in Calls, Step(c) PROVE TypeInv'
    BY <1>2, ReadingTypes, SavingTypes DEF Step
  <1>. QED
    BY <1>1, <1>2 DEF Next, Finished

\* Every variable keeps its type.
THEOREM TypesCorrect == Spec => []TypeOK
  <1>1. TypeInv => TypeOK
    BY DEF TypeInv
  <1>. QED
    BY <1>1, InitTypes, NextTypes, PTL DEF Spec

-----------------------------------------------------------------------------
(* The unique columns.                                                     *)

\* Only Saved writes a row, and only one that is unique.
LEMMA NextWrites ==
    ASSUME TypeInv, [Next]_vars
    PROVE  \/ users' = users
           \/ \E id \in Ids : users' = [users EXCEPT ![id] = None]
           \/ \E id \in Ids : \E row \in User :
                Unique(id, row) /\ users' = [users EXCEPT ![id] = row]
  <1>1. CASE UNCHANGED vars
    BY <1>1 DEF vars
  <1>2. ASSUME NEW c \in Calls,
               Call(c) \/ Find(c) \/ Refresh(c) \/ FindUsername(c) \/ CheckEmail(c)
                   \/ Select(c) \/ Reload(c) \/ Fails(c)
        PROVE  users' = users
    BY <1>2 DEF Call, Find, Refresh, FindUsername, CheckEmail, Select, Reload, Fails, Refuse, Keep
  <1>3. ASSUME NEW c \in Calls, Write(c) \/ Insert(c) \/ Delete(c)
        PROVE  object[c] \in [id : Ids, user : User]
    BY <1>3 DEF Write, Insert, Delete, TypeInv, CallShape, Carrying
  <1>4. ASSUME NEW c \in Calls, NEW id \in Ids, NEW row \in User, Saved(c, id, row)
        PROVE  users' = users \/ (Unique(id, row) /\ users' = [users EXCEPT ![id] = row])
    BY <1>4 DEF Saved, Refuse
  <1>5. ASSUME NEW c \in Calls, Write(c)
        PROVE  \/ users' = users
               \/ \E id \in Ids : \E row \in User :
                    Unique(id, row) /\ users' = [users EXCEPT ![id] = row]
    <2>1. CASE object[c].id \in Stored
      <3>1. Updated(users[object[c].id], object[c].user, dirty[c]) \in User
        BY <1>3, <1>5, <2>1, StoredTypes, UpdatedTypes
      <3>. QED
        BY <1>3, <1>4, <1>5, <2>1, <3>1 DEF Write
    <2>2. CASE object[c].id \notin Stored
      BY <1>5, <2>2 DEF Write
    <2>. QED
      BY <2>1, <2>2
  <1>6. ASSUME NEW c \in Calls, Insert(c)
        PROVE  \/ users' = users
               \/ \E id \in Ids : \E row \in User :
                    Unique(id, row) /\ users' = [users EXCEPT ![id] = row]
    BY <1>3, <1>4, <1>6 DEF Insert, Refuse
  <1>7. ASSUME NEW c \in Calls, Delete(c)
        PROVE  \E id \in Ids : users' = [users EXCEPT ![id] = None]
    BY <1>3, <1>7 DEF Delete
  <1>. QED
    BY <1>1, <1>2, <1>5, <1>6, <1>7 DEF Next, Step, Finished

DistinctInv == TypeInv /\ AccountsDistinct

LEMMA InitDistinct == Init => DistinctInv
  <1> SUFFICES ASSUME Init PROVE DistinctInv
    OBVIOUS
  <1>1. \A id \in Stored : id \in Accounts /\ users[id] = FirstUsers[id]
    BY DEF Init, Stored
  <1>2. AccountsDistinct
    BY <1>1, AccountsAssumption DEF AccountsDistinct
  <1>. QED
    BY <1>2, InitTypes DEF DistinctInv

LEMMA NextDistinct == DistinctInv /\ [Next]_vars => DistinctInv'
  <1> SUFFICES ASSUME DistinctInv, [Next]_vars PROVE DistinctInv'
    OBVIOUS
  <1>0. TypeInv' /\ users \in [Ids -> User \cup {None}]
    BY NextTypes DEF DistinctInv, TypeInv, TypeOK
  <1>1. CASE users' = users
    BY <1>0, <1>1 DEF DistinctInv, AccountsDistinct, Stored
  <1>2. ASSUME NEW id \in Ids, users' = [users EXCEPT ![id] = None] PROVE DistinctInv'
    <2>1. Stored' = Stored \ {id}
      BY <1>0, <1>2 DEF Stored
    <2>. QED
      BY <1>0, <1>2, <2>1 DEF DistinctInv, AccountsDistinct, Stored
  <1>3. ASSUME NEW id \in Ids, NEW row \in User, Unique(id, row), users' = [users EXCEPT ![id] = row]
        PROVE  DistinctInv'
    <2>1. Stored' = Stored \cup {id}
      BY <1>0, <1>3, NullAssumption DEF Stored
    <2>2. ASSUME NEW a \in Stored', NEW b \in Stored', a # b
          PROVE  users'[a].username # users'[b].username /\ users'[a].email # users'[b].email
      <3>1. CASE a = id \/ b = id
        BY <1>0, <1>3, <2>1, <2>2, <3>1 DEF Unique, Stored
      <3>2. CASE a # id /\ b # id
        BY <1>0, <1>3, <2>1, <2>2, <3>2 DEF DistinctInv, AccountsDistinct, Stored
      <3>. QED
        BY <3>1, <3>2
    <2>. QED
      BY <1>0, <2>2 DEF DistinctInv, AccountsDistinct
  <1>. QED
    BY <1>1, <1>2, <1>3, NextWrites DEF DistinctInv

\* However many calls pass their checks at once, the unique columns keep users apart.
THEOREM DistinctCorrect == Spec => []AccountsDistinct
  <1>1. DistinctInv => AccountsDistinct
    BY DEF DistinctInv
  <1>. QED
    BY <1>1, InitDistinct, NextDistinct, PTL DEF Spec

-----------------------------------------------------------------------------
(* The tokens.                                                             *)

LoginDeserved(c) ==
    \E id \in Ids : \E u \in Seen(c, id) :
        u.username = request[c].username /\ u.password = request[c].password /\ u.isActive

RefreshDeserved(c) == \E u \in Seen(c, request[c].id) : u.isActive

\* A login has seen what entitles it as soon as it is past its lookup.
TokenEarned(c) ==
    /\ (request[c] # None /\ request[c].op = "login") =>
            (pc[c] \notin {"idle", "start"} /\ answer[c] # "error" => LoginDeserved(c))
    /\ (request[c] # None /\ request[c].op = "refresh") =>
            pc[c] \in {"idle", "start", "done"} /\ (answer[c] = "ok" => RefreshDeserved(c))

TokensInv ==
    /\ TypeInv
    /\ during \in [Calls -> SUBSET [Ids -> User \cup {None}]]
    /\ \A c \in Calls : TokenEarned(c)

\* What was seen stays seen.
LEMMA SeenStays ==
    ASSUME TokensInv, HistoryNext, NEW c \in Calls
    PROVE  /\ \A id : Seen(c, id) \subseteq Seen(c, id)'
           /\ (pc[c] # "done" /\ pc'[c] # "idle") => users' \in during'[c]
  BY DEF HistoryNext, Seen, TokensInv

\* A step is its own call's.
LEMMA OthersStay ==
    ASSUME TypeInv, NEW c \in Calls, Step(c), NEW d \in Calls, d # c
    PROVE  pc'[d] = pc[d] /\ answer'[d] = answer[d] /\ request'[d] = request[d]
  BY DEF Step, Call, Find, Refresh, FindUsername, CheckEmail, Select, Write, Insert, Reload, Delete,
         Fails, Saved, Refuse, Reply, Keep, Goto, locals, TypeInv, TypeOK

\* After the first step a call's arguments stay.
LEMMA RequestStays ==
    ASSUME TypeInv, NEW c \in Calls, Step(c), ~Call(c)
    PROVE  request' = request
  BY DEF Step, Find, Refresh, FindUsername, CheckEmail, Select, Write, Insert, Reload, Delete,
         Fails, Saved, Refuse, Keep, locals

LEMMA StepEarns ==
    ASSUME TokensInv, HistoryNext, NEW c \in Calls, Step(c)
    PROVE  TokenEarned(c)'
  <1>0. TypeInv /\ TypeOK /\ TypeInv' /\ CallShape(c) /\ CallShape(c)'
    BY NextTypes DEF HistoryNext, TokensInv, TypeInv
  <1>1. CASE Call(c)
    <2>1. pc'[c] = "start" /\ answer'[c] = "none"
      BY <1>0, <1>1 DEF Call, Goto, TypeOK, CallShape
    <2>. QED
      BY <2>1 DEF TokenEarned
  <1>2. CASE ~Call(c) /\ pc[c] = "start" /\ request[c].op = "login"
    <2>1. request' = request
      BY <1>0, <1>2, RequestStays
    <2>2. pc'[c] \notin {"idle", "start"} /\ answer'[c] # "error" => LoginDeserved(c)'
      <3> SUFFICES ASSUME answer'[c] # "error" PROVE LoginDeserved(c)'
        OBVIOUS
      <3>1. CASE Fails(c)
        BY <1>0, <3>1 DEF Fails, Refuse, Reply, TypeOK
      <3>2. CASE Find(c)
        <4>1. ~Refuse(c)
          BY <1>0 DEF Refuse, Reply, TypeOK
        <4>2. PICK id \in Subject(request[c]) : Accepts(request[c], users[id])
          BY <3>2, <4>1 DEF Find
        <4>3. /\ id \in Stored /\ users[id].username = request[c].username
              /\ users[id].password = request[c].password /\ users[id].isActive
          BY <1>2, <4>2 DEF Subject, Accepts
        <4>4. users' = users
          BY <3>2 DEF Find, Refuse, Keep
        <4>5. pc'[c] # "idle"
          BY <1>0, <3>2 DEF Find, Refuse, Reply, Keep, Goto, TypeOK
        <4>6. users' \in during'[c]
          BY <1>2, <4>5, SeenStays
        <4>7. id \in Ids /\ users[id] \in Seen(c, id)'
          BY <4>3, <4>4, <4>6 DEF Seen, Stored
        <4>. QED
          BY <2>1, <4>3, <4>7 DEF LoginDeserved
      <3>. QED
        BY <1>2, <3>1, <3>2
        DEF Step, Refresh, FindUsername, CheckEmail, Select, Write, Insert, Reload, Delete
    <2>. QED
      BY <1>2, <2>1, <2>2 DEF TokenEarned
  <1>3. CASE ~Call(c) /\ pc[c] # "start" /\ request[c].op = "login"
    <2>1. request' = request
      BY <1>0, <1>3, RequestStays
    <2>2. pc[c] \notin {"idle", "done"}
      BY <1>3 DEF Step, Find, Refresh, FindUsername, CheckEmail, Select, Write, Insert, Reload, Delete,
                  Fails
    <2>3. request[c] # None /\ answer[c] = "none"
      BY <1>0, <2>2, NullAssumption DEF CallShape
    <2>4. LoginDeserved(c)
      BY <1>3, <2>2, <2>3 DEF TokensInv, TokenEarned
    <2>5. LoginDeserved(c)'
      BY <2>1, <2>4, SeenStays DEF LoginDeserved
    <2>. QED
      BY <1>3, <2>1, <2>5 DEF TokenEarned
  <1>4. CASE ~Call(c) /\ request[c].op = "refresh"
    <2>1. request' = request
      BY <1>0, <1>4, RequestStays
    <2>2. pc[c] \notin {"idle", "done"}
      BY <1>4 DEF Step, Find, Refresh, FindUsername, CheckEmail, Select, Write, Insert, Reload, Delete,
                  Fails
    <2>3. request[c] # None
      BY <1>0, <2>2, NullAssumption DEF CallShape
    <2>4. pc[c] = "start"
      BY <1>4, <2>2, <2>3 DEF TokensInv, TokenEarned
    <2>5. CASE Refuse(c)
      <3>1. pc'[c] = "done" /\ answer'[c] = "error"
        BY <1>0, <2>5 DEF Refuse, Reply, TypeOK
      <3>. QED
        BY <1>4, <2>1, <3>1 DEF TokenEarned
    <2>6. CASE Refresh(c) /\ ~Refuse(c)
      <3> DEFINE id == request[c].id
      <3>1. id \in Stored /\ users[id].isActive /\ Reply(c, "ok") /\ users' = users
        BY <2>6 DEF Refresh
      <3>2. pc'[c] = "done"
        BY <1>0, <3>1 DEF Reply, TypeOK
      <3>3. users' \in during'[c]
        BY <2>4, <3>2, SeenStays
      <3>4. users[id] \in Seen(c, id)'
        BY <2>1, <3>1, <3>3 DEF Seen, Stored
      <3>5. RefreshDeserved(c)'
        BY <2>1, <3>1, <3>4 DEF RefreshDeserved
      <3>. QED
        BY <1>4, <2>1, <3>2, <3>5 DEF TokenEarned
    <2>7. Refresh(c) \/ Fails(c)
      BY <1>4, <2>4 DEF Step, Find, FindUsername, CheckEmail, Select, Write, Insert, Reload, Delete
    <2>. QED
      BY <2>5, <2>6, <2>7 DEF Fails
  <1>5. CASE ~Call(c) /\ request[c].op \notin {"login", "refresh"}
    BY <1>0, <1>5, RequestStays DEF TokenEarned
  <1>. QED
    BY <1>1, <1>2, <1>3, <1>4, <1>5

LEMMA InitTokens == HistoryInit => TokensInv
  <1> SUFFICES ASSUME HistoryInit PROVE TokensInv
    OBVIOUS
  <1>1. Init /\ during = [c \in Calls |-> {}]
    BY DEF HistoryInit
  <1>2. TypeInv
    BY <1>1, InitTypes
  <1>3. \A c \in Calls : request[c] = None
    BY <1>1 DEF Init
  <1>. QED
    BY <1>1, <1>2, <1>3 DEF TokensInv, TokenEarned

LEMMA NextTokens == TokensInv /\ [HistoryNext]_<<vars, during>> => TokensInv'
  <1> SUFFICES ASSUME TokensInv, [HistoryNext]_<<vars, during>> PROVE TokensInv'
    OBVIOUS
  <1>1. CASE UNCHANGED <<vars, during>>
    BY <1>1 DEF vars, TokensInv, TypeInv, TypeOK, CallShape, Carrying, TokenEarned, LoginDeserved,
                RefreshDeserved, Seen
  <1>2. CASE HistoryNext
    <2>1. TypeInv'
      BY <1>2, NextTypes DEF HistoryNext, TokensInv
    <2>2. during' \in [Calls -> SUBSET [Ids -> User \cup {None}]]
      <3>1. users' \in [Ids -> User \cup {None}]
        BY <2>1 DEF TypeInv, TypeOK
      <3>. QED
        BY <1>2, <3>1 DEF HistoryNext, TokensInv
    <2>3. ASSUME NEW d \in Calls,
                 pc'[d] = pc[d], answer'[d] = answer[d], request'[d] = request[d]
          PROVE  TokenEarned(d)'
      <3>1. TokenEarned(d) /\ \A id : Seen(d, id) \subseteq Seen(d, id)'
        BY <1>2, SeenStays DEF TokensInv
      <3>. QED
        BY <2>3, <3>1 DEF TokenEarned, LoginDeserved, RefreshDeserved
    <2>4. ASSUME NEW d \in Calls PROVE TokenEarned(d)'
      <3>1. CASE Finished
        BY <2>3, <3>1 DEF Finished, vars
      <3>2. ASSUME NEW c \in Calls, Step(c) PROVE TokenEarned(d)'
        BY <1>2, <2>3, <3>2, StepEarns, OthersStay DEF TokensInv
      <3>. QED
        BY <1>2, <3>1, <3>2 DEF HistoryNext, Next
    <2>. QED
      BY <2>1, <2>2, <2>4 DEF TokensInv
  <1>. QED
    BY <1>1, <1>2

LEMMA TokensSuffice == TokensInv => TokensWereDeserved
  <1> SUFFICES ASSUME TokensInv, NEW c \in Calls, answer[c] = "ok"
               PROVE  /\ request[c].op = "login" => LoginDeserved(c)
                      /\ request[c].op = "refresh" => RefreshDeserved(c)
    BY DEF TokensWereDeserved, LoginDeserved, RefreshDeserved
  <1>1. pc[c] = "done" /\ request[c] # None
    BY NullAssumption DEF TokensInv, TypeInv, CallShape
  <1>. QED
    BY <1>1 DEF TokensInv, TokenEarned

\* Whatever overlaps a login or a refresh, no token goes out for a state of the account that
\* was over before the call began.
THEOREM TokensCorrect == HistorySpec => []TokensWereDeserved
  <1>. QED
    BY InitTokens, NextTokens, TokensSuffice, PTL DEF HistorySpec
-----------------------------------------------------------------------------
(* What a save can bring back.                                             *)

\* The values that a call may leave in a column of a user.
Sources(c, id, col) == {u[col] : u \in Seen(c, id)} \cup Asked(request[c], col)

Holding(c) == pc[c] \in Carrying \/ (pc[c] = "checkEmail" /\ request[c].op # "create")

\* A running call has seen the table as it is, and what it is about to save, in each column,
\* it was asked for or has seen.
FromTheCall(c) ==
    /\ pc[c] \notin {"idle", "done"} => users \in during[c]
    /\ Holding(c) => \A col \in Columns :
            object[c].user[col] \in Sources(c, object[c].id, col)

SourcesInv ==
    /\ TypeInv
    /\ during \in [Calls -> SUBSET [Ids -> User \cup {None}]]
    /\ \A c \in Calls : FromTheCall(c)

\* An operation changes what it was asked to, and no other column.
LEMMA AppliedColumns ==
    ASSUME NEW r \in Requests, NEW user \in User, NEW col \in Columns
    PROVE  Applied(r, user)[col] \in {user[col]} \cup Asked(r, col)
  <1>1. CASE r.op = "updateProfile"
    <2>1. /\ r.email # None => r.email \in Asked(r, "email")
          /\ r.storeId # None => r.storeId \in Asked(r, "storeId")
      BY <1>1 DEF Asked
    <2>. QED
      BY <1>1, <2>1 DEF Applied, User, Columns
  <1>2. CASE r.op = "changePassword"
    <2>1. r.newPassword \in Asked(r, "password")
      BY <1>2 DEF Asked
    <2>. QED
      BY <1>2, <2>1 DEF Applied, User, Columns
  <1>3. CASE r.op = "assignStore"
    <2>1. r.storeId \in Asked(r, "storeId")
      BY <1>3 DEF Asked
    <2>. QED
      BY <1>3, <2>1 DEF Applied, User, Columns
  <1>4. CASE r.op = "activate"
    <2>1. TRUE \in Asked(r, "isActive")
      BY <1>4 DEF Asked
    <2>. QED
      BY <1>4, <2>1 DEF Applied, User, Columns
  <1>5. CASE r.op = "deactivate"
    <2>1. FALSE \in Asked(r, "isActive")
      BY <1>5 DEF Asked
    <2>. QED
      BY <1>5, <2>1 DEF Applied, User, Columns
  <1>6. CASE r.op \in {"create", "delete", "refresh", "login"}
    BY <1>6 DEF Applied
  <1>. QED
    BY <1>1, <1>2, <1>3, <1>4, <1>5, <1>6, RequestTypes

LEMMA NewUserColumns ==
    ASSUME NEW r \in Requests, r.op = "create", NEW col \in Columns
    PROVE  NewUser(r)[col] \in Asked(r, col)
  <1>1. CASE col = "username"
    BY <1>1 DEF NewUser, Asked
  <1>2. CASE col = "email"
    BY <1>2 DEF NewUser, Asked
  <1>3. CASE col = "password"
    BY <1>3 DEF NewUser, Asked
  <1>4. CASE col = "storeId"
    BY <1>4 DEF NewUser, Asked
  <1>5. CASE col = "isActive"
    BY <1>5 DEF NewUser, Asked
  <1>. QED
    BY <1>1, <1>2, <1>3, <1>4, <1>5 DEF Columns

\* An UPDATE leaves in each column what was there or what is saved.
LEMMA UpdatedColumns ==
    ASSUME NEW stored \in User, NEW new \in User, NEW columns, NEW col \in Columns
    PROVE  Updated(stored, new, columns)[col] \in {stored[col], new[col]}
  BY DEF Updated, User, Columns

\* A stored row was seen by every call that is running.
LEMMA StoredIsSeen ==
    ASSUME SourcesInv, NEW c \in Calls, pc[c] \notin {"idle", "done"}, NEW id \in Stored,
           NEW col \in Columns
    PROVE  users[id][col] \in Sources(c, id, col)
  <1>1. users \in during[c]
    BY DEF SourcesInv, FromTheCall
  <1>2. users[id] \in Seen(c, id)
    BY <1>1 DEF Seen, Stored
  <1>. QED
    BY <1>2 DEF Sources

\* What a call has to show for a column it keeps.
LEMMA SourcesStay ==
    ASSUME SourcesInv, HistoryNext, NEW c \in Calls, request'[c] = request[c]
    PROVE  \A id, col : Sources(c, id, col) \subseteq Sources(c, id, col)'
  BY DEF HistoryNext, Sources, Seen, SourcesInv

LEMMA TableIsSeen ==
    ASSUME SourcesInv, HistoryNext, NEW c \in Calls, pc[c] # "done"
    PROVE  pc'[c] \notin {"idle", "done"} => users' \in during'[c]
  BY DEF HistoryNext, SourcesInv

\* A call that goes on with the object it has, or ends, still meets the invariant.
LEMMA ObjectStays ==
    ASSUME SourcesInv, HistoryNext, NEW c \in Calls, pc[c] # "done",
           request'[c] = request[c], object'[c] = object[c],
           Holding(c)' => Holding(c)
    PROVE  FromTheCall(c)'
  <1>1. pc'[c] \notin {"idle", "done"} => users' \in during'[c]
    BY TableIsSeen
  <1>2. ASSUME Holding(c)', NEW col \in Columns
        PROVE  object'[c].user[col] \in Sources(c, object[c].id, col)'
    <2>1. object[c].user[col] \in Sources(c, object[c].id, col)
      BY <1>2 DEF SourcesInv, FromTheCall
    <2> DEFINE id == object[c].id
    <2>2. Sources(c, id, col) \subseteq Sources(c, id, col)'
      BY SourcesStay
    <2>. QED
      BY <2>1, <2>2
  <1>. QED
    BY <1>1, <1>2 DEF FromTheCall

LEMMA KeepsSources ==
    ASSUME SourcesInv, HistoryNext, NEW c \in Calls, pc[c] \notin {"idle", "done"},
           NEW id \in Ids, NEW user \in User, NEW step, Keep(c, id, user, step),
           \A col \in Columns : user[col] \in Sources(c, id, col)
    PROVE  FromTheCall(c)'
  <1>1. object'[c] = [id |-> id, user |-> user] /\ request' = request
    BY DEF Keep, SourcesInv, TypeInv, TypeOK
  <1>2. pc'[c] \notin {"idle", "done"} => users' \in during'[c]
    BY TableIsSeen
  <1>3. ASSUME NEW col \in Columns PROVE user[col] \in Sources(c, id, col)'
    BY <1>1, SourcesStay
  <1>. QED
    BY <1>1, <1>2, <1>3 DEF FromTheCall

LEMMA FindSources ==
    ASSUME SourcesInv, HistoryNext, NEW c \in Calls, Find(c), ~Refuse(c)
    PROVE  FromTheCall(c)'
  <1> DEFINE r == request[c]
  <1>1. TypeInv /\ pc[c] = "start" /\ r \in Requests
    BY DEF Find, SourcesInv, TypeInv, CallShape
  <1>2. PICK id \in Subject(r) :
            \/ Keep(c, id, users[id], "delete")
            \/ Keep(c, id, Applied(r, users[id]), "checkEmail")
            \/ Keep(c, id, Applied(r, users[id]), "select")
    BY DEF Find
  <1>3. id \in Stored /\ id \in Ids /\ users[id] \in User
    BY <1>1, StoredTypes DEF Subject, Stored
  <1>4. ASSUME NEW col \in Columns
        PROVE  /\ users[id][col] \in Sources(c, id, col)
               /\ Applied(r, users[id])[col] \in Sources(c, id, col)
    BY <1>1, <1>3, StoredIsSeen, AppliedColumns DEF Sources
  <1>5. Applied(r, users[id]) \in User
    BY <1>1, <1>3, AppliedTypes
  <1>. QED
    BY <1>1, <1>2, <1>3, <1>4, <1>5, KeepsSources

LEMMA CheckEmailSources ==
    ASSUME SourcesInv, HistoryNext, NEW c \in Calls, CheckEmail(c), ~Refuse(c)
    PROVE  FromTheCall(c)'
  <1>1. TypeInv /\ pc[c] = "checkEmail" /\ request[c] \in Requests
    BY DEF CheckEmail, SourcesInv, TypeInv, CallShape
  <1>2. CASE request[c].op = "create"
    <2>1. Keep(c, c, NewUser(request[c]), "insert") /\ c \in Ids
      BY <1>2 DEF CheckEmail, Ids
    <2>2. NewUser(request[c]) \in User
      BY <1>1, <1>2, NewUserTypes
    <2>3. \A col \in Columns : NewUser(request[c])[col] \in Sources(c, c, col)
      BY <1>1, <1>2, NewUserColumns DEF Sources
    <2>. QED
      BY <1>1, <2>1, <2>2, <2>3, KeepsSources
  <1>3. CASE request[c].op # "create"
    BY <1>1, <1>3, ObjectStays DEF CheckEmail, locals, Holding
  <1>. QED
    BY <1>2, <1>3

LEMMA StepSources ==
    ASSUME SourcesInv, HistoryNext, NEW c \in Calls, Step(c)
    PROVE  FromTheCall(c)'
  <1>0. TypeInv /\ TypeOK /\ CallShape(c)
    BY DEF SourcesInv, TypeInv
  <1>1. CASE Call(c)
    <2>1. pc'[c] = "start" /\ pc[c] = "idle"
      BY <1>0, <1>1 DEF Call, Goto, TypeOK
    <2>. QED
      BY <2>1, TableIsSeen DEF FromTheCall, Holding, Carrying
  <1>2. ASSUME pc'[c] = "done" PROVE FromTheCall(c)'
    BY <1>2 DEF FromTheCall, Holding, Carrying
  <1>3. ASSUME NEW a, Reply(c, a) PROVE FromTheCall(c)'
    BY <1>0, <1>2, <1>3 DEF Reply, TypeOK
  <1>4. CASE Refuse(c)
    BY <1>3, <1>4 DEF Refuse
  <1>5. CASE Find(c) /\ ~Refuse(c)
    BY <1>5, FindSources
  <1>6. CASE CheckEmail(c) /\ ~Refuse(c)
    BY <1>6, CheckEmailSources
  <1>7. CASE (Refresh(c) \/ Reload(c) \/ Fails(c)) /\ ~Refuse(c)
    BY <1>3, <1>7 DEF Refresh, Reload, Fails
  <1>8. CASE Delete(c)
    BY <1>3, <1>8 DEF Delete
  <1>9. CASE FindUsername(c) /\ ~Refuse(c)
    BY <1>0, <1>9, ObjectStays DEF FindUsername, Goto, locals, TypeOK, Holding, Carrying
  <1>10. CASE Select(c) /\ ~Refuse(c)
    BY <1>0, <1>10, ObjectStays DEF Select, Goto, TypeOK, Holding, Carrying
  <1>11. CASE Write(c) /\ ~Refuse(c)
    BY <1>0, <1>11, ObjectStays DEF Write, Saved, Goto, locals, TypeOK, Holding, Carrying
  <1>12. CASE Insert(c) /\ ~Refuse(c)
    BY <1>0, <1>12, ObjectStays DEF Insert, Saved, Goto, locals, TypeOK, Holding, Carrying
  <1>. QED
    BY <1>1, <1>4, <1>5, <1>6, <1>7, <1>8, <1>9, <1>10, <1>11, <1>12 DEF Step

LEMMA InitSources == HistoryInit => SourcesInv
  <1> SUFFICES ASSUME HistoryInit PROVE SourcesInv
    OBVIOUS
  <1>1. Init /\ during = [c \in Calls |-> {}]
    BY DEF HistoryInit
  <1>2. \A c \in Calls : pc[c] = "idle"
    BY <1>1 DEF Init
  <1>. QED
    BY <1>1, <1>2, InitTypes DEF SourcesInv, FromTheCall, Holding, Carrying

LEMMA NextSources == SourcesInv /\ [HistoryNext]_<<vars, during>> => SourcesInv'
  <1> SUFFICES ASSUME SourcesInv, [HistoryNext]_<<vars, during>> PROVE SourcesInv'
    OBVIOUS
  <1>1. CASE UNCHANGED <<vars, during>>
    BY <1>1 DEF vars, SourcesInv, TypeInv, TypeOK, CallShape, Carrying, FromTheCall, Holding,
                Sources, Seen
  <1>2. CASE HistoryNext
    <2>1. TypeInv'
      BY <1>2, NextTypes DEF HistoryNext, SourcesInv
    <2>2. during' \in [Calls -> SUBSET [Ids -> User \cup {None}]]
      <3>1. users' \in [Ids -> User \cup {None}]
        BY <2>1 DEF TypeInv, TypeOK
      <3>. QED
        BY <1>2, <3>1 DEF HistoryNext, SourcesInv
    <2>3. ASSUME NEW d \in Calls, pc'[d] = pc[d], request'[d] = request[d],
                 object'[d] = object[d]
          PROVE  FromTheCall(d)'
      <3>1. CASE pc[d] = "done"
        BY <2>3, <3>1 DEF FromTheCall, Holding, Carrying
      <3>2. CASE pc[d] # "done"
        BY <1>2, <2>3, <3>2, ObjectStays DEF Holding
      <3>. QED
        BY <3>1, <3>2
    <2>4. ASSUME NEW c \in Calls, Step(c), NEW d \in Calls, d # c
          PROVE  object'[d] = object[d]
      BY <2>4 DEF Step, Call, Find, Refresh, FindUsername, CheckEmail, Select, Write, Insert,
                  Reload, Delete, Fails, Saved, Refuse, Keep, locals, SourcesInv, TypeInv, TypeOK
    <2>5. ASSUME NEW d \in Calls PROVE FromTheCall(d)'
      <3>1. CASE Finished
        BY <2>3, <3>1 DEF Finished, vars
      <3>2. ASSUME NEW c \in Calls, Step(c) PROVE FromTheCall(d)'
        BY <1>2, <2>3, <2>4, <3>2, StepSources, OthersStay DEF SourcesInv
      <3>. QED
        BY <1>2, <3>1, <3>2 DEF HistoryNext, Next
    <2>. QED
      BY <2>1, <2>2, <2>5 DEF SourcesInv
  <1>. QED
    BY <1>1, <1>2

\* What the step of a call stores.
LEMMA StoresFromTheCall ==
    ASSUME SourcesInv, NEW c \in Calls, Step(c), NEW id \in Ids,
           users'[id] # users[id], users'[id] # None, NEW col \in Columns
    PROVE  users'[id][col] \in Sources(c, id, col)
  <1>0. TypeInv /\ TypeOK /\ CallShape(c)
    BY DEF SourcesInv, TypeInv
  <1>1. ASSUME NEW other \in Ids, NEW row, Saved(c, other, row)
        PROVE  id = other /\ users'[id] = row
    BY <1>0, <1>1 DEF Saved, Refuse, TypeOK
  <1>2. CASE Write(c)
    <2>1. pc[c] = "write" /\ object[c] \in [id : Ids, user : User] /\ object[c].id \in Stored
      BY <1>0, <1>2 DEF Write, CallShape, Carrying
    <2>2. id = object[c].id /\ users'[id] = Updated(users[id], object[c].user, dirty[c])
      BY <1>1, <1>2, <2>1 DEF Write
    <2>3. users[id] \in User
      BY <1>0, <2>1, <2>2, StoredTypes
    <2>4. users'[id][col] \in {users[id][col], object[c].user[col]}
      BY <2>1, <2>2, <2>3, UpdatedColumns
    <2>5. object[c].user[col] \in Sources(c, id, col)
      BY <2>1, <2>2 DEF SourcesInv, FromTheCall, Holding, Carrying
    <2>6. users[id][col] \in Sources(c, id, col)
      BY <2>1, <2>2, StoredIsSeen
    <2>. QED
      BY <2>4, <2>5, <2>6
  <1>3. CASE Insert(c)
    <2>1. pc[c] = "insert" /\ object[c] \in [id : Ids, user : User]
      BY <1>0, <1>3 DEF Insert, CallShape, Carrying
    <2>2. id = object[c].id /\ users'[id] = object[c].user
      BY <1>1, <1>3, <2>1 DEF Insert, Refuse
    <2>. QED
      BY <2>1, <2>2 DEF SourcesInv, FromTheCall, Holding, Carrying
  <1>4. CASE Delete(c)
    BY <1>0, <1>4 DEF Delete, TypeOK
  <1>. QED
    BY <1>2, <1>3, <1>4
    DEF Step, Call, Find, Refresh, FindUsername, CheckEmail, Select, Reload, Fails, Refuse, Keep

\* A save can undo what others did while its call was running, and nothing that was over
\* before: in every column it leaves what was asked of it or what it has seen there.
THEOREM NothingStaleCorrect == HistorySpec => NoStaleBeyondTheCall
  <1> DEFINE Fresh == \A c \in Calls : pc'[c] # pc[c] =>
                \A id \in Ids : users'[id] # users[id] /\ users'[id] # None =>
                    \A col \in Columns :
                        users'[id][col] \in {u[col] : u \in Seen(c, id)} \cup Asked(request[c], col)
  <1>1. ASSUME SourcesInv, [HistoryNext]_<<vars, during>> PROVE [Fresh]_<<vars, during>>
    <2>1. CASE UNCHANGED <<vars, during>>
      BY <2>1
    <2>2. ASSUME NEW c \in Calls, Step(c) PROVE Fresh
      <3>1. \A d \in Calls : pc'[d] # pc[d] => d = c
        BY <1>1, <2>2, OthersStay DEF SourcesInv
      <3>. QED
        BY <1>1, <2>2, <3>1, StoresFromTheCall DEF Sources
    <2>3. CASE Finished
      BY <2>3 DEF Finished, vars
    <2>. QED
      BY <1>1, <2>1, <2>2, <2>3 DEF HistoryNext, Next
  <1>. QED
    BY <1>1, InitSources, NextSources, PTL DEF HistorySpec, NoStaleBeyondTheCall
=============================================================================
