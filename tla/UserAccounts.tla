---------------------------- MODULE UserAccounts ----------------------------
(***************************************************************************)
(* UserService and AuthenticationService over the users table.             *)
(*                                                                         *)
(* Every change of a user reads the whole row, changes the object and      *)
(* saves it: no lock, no transaction, no version column.  The ORM's save   *)
(* selects the row by id; if it is there, it updates the columns in which  *)
(* the object differs, and if it is not, it inserts the object.  The steps *)
(* of a call, by the round trip that is next:                              *)
(*                                                                         *)
(*   start        findById or findByUsername                               *)
(*   checkEmail   findByEmail, then the lookups of role and store          *)
(*   select       save: SELECT by id                                       *)
(*   write        save: UPDATE                                             *)
(*   insert       save: INSERT                                             *)
(*   delete       DELETE                                                   *)
(*   reload       save: SELECT of what was saved                           *)
(*                                                                         *)
(* Roles never change once a user exists; they and the time stamps are     *)
(* left out.  A password stands for its hash.                              *)
(***************************************************************************)
EXTENDS Integers

CONSTANTS
    Calls,
    Accounts,      \* the ids of the users there are at the start
    FirstUsers,    \* and their rows
    Requests,      \* what may be asked for
    Usernames, Emails, Passwords, Stores,
    None

\* The id that uuidv4() gives a new user stands for the call that creates it.
Ids == Accounts \cup Calls

User == [username : Usernames, email : Emails, password : Passwords,
         storeId : Stores \cup {None}, isActive : BOOLEAN]

Columns == {"username", "email", "password", "storeId", "isActive"}

\* known: whether the role and the store of the request exist.
Request ==
    [op : {"create"}, username : Usernames, email : Emails, password : Passwords,
     storeId : Stores \cup {None}, known : BOOLEAN]
    \cup [op : {"updateProfile"}, id : Ids, email : Emails \cup {None},
          storeId : Stores \cup {None}, known : BOOLEAN]
    \cup [op : {"changePassword"}, id : Ids, currentPassword : Passwords,
          newPassword : Passwords]
    \cup [op : {"assignStore"}, id : Ids, storeId : Stores, known : BOOLEAN]
    \cup [op : {"activate", "deactivate", "delete", "refresh"}, id : Ids]
    \cup [op : {"login"}, username : Usernames, password : Passwords]

ASSUME RequestsAssumption == Requests \subseteq Request
ASSUME AccountsAssumption ==
    /\ FirstUsers \in [Accounts -> User]
    /\ \A a, b \in Accounts : a # b =>
        /\ FirstUsers[a].username # FirstUsers[b].username
        /\ FirstUsers[a].email # FirstUsers[b].email
ASSUME FreshAssumption == Accounts \cap Calls = {}
ASSUME NullAssumption == None \notin User /\ None \notin Requests /\ None \notin Emails

VARIABLES
    users,      \* table: id -> row or None
    tokens,     \* the users for whom a refresh token was issued
    request,    \* the arguments of each call
    pc,         \* its next round trip
    answer,     \* what its caller was told
    object,     \* local: the User a call is about to save, with its id
    dirty       \* local: the columns that an UPDATE will write

vars == <<users, tokens, request, pc, answer, object, dirty>>
locals == <<object, dirty>>

Init ==
    /\ users = [id \in Ids |-> IF id \in Accounts THEN FirstUsers[id] ELSE None]
    /\ tokens = {}
    /\ request = [c \in Calls |-> None]
    /\ pc = [c \in Calls |-> "idle"]
    /\ answer = [c \in Calls |-> "none"]
    /\ object = [c \in Calls |-> None]
    /\ dirty = [c \in Calls |-> {}]

Goto(c, step) == pc' = [pc EXCEPT ![c] = step] /\ UNCHANGED answer

Reply(c, a) ==
    /\ pc' = [pc EXCEPT ![c] = "done"]
    /\ answer' = [answer EXCEPT ![c] = a]

Refuse(c) == Reply(c, "error") /\ UNCHANGED <<users, tokens, request, locals>>

Stored == {id \in Ids : users[id] # None}

\* Variant: the columns are not declared unique.
Unique_Undeclared(id, user) == TRUE

\* The unique columns of the entity.
Unique(id, user) ==
    \A other \in Stored \ {id} :
        /\ users[other].username # user.username
        /\ users[other].email # user.email

Call(c) ==
    /\ pc[c] = "idle"
    /\ \E r \in Requests : request' = [request EXCEPT ![c] = r]
    /\ Goto(c, "start")
    /\ UNCHANGED <<users, tokens, locals>>

-----------------------------------------------------------------------------
(* Reading.                                                                *)

\* The object is kept, and the call continues with its next round trip.
Keep(c, id, user, step) ==
    /\ object' = [object EXCEPT ![c] = [id |-> id, user |-> user]]
    /\ Goto(c, step)
    /\ UNCHANGED <<users, tokens, request, dirty>>

\* Variant: a profile without a store takes the user's store away.
Applied_ProfileResets(r, user) ==
    CASE r.op = "updateProfile"  -> [user EXCEPT !.email = IF r.email = None THEN @ ELSE r.email,
                                                 !.storeId = r.storeId]
      [] r.op = "changePassword" -> [user EXCEPT !.password = r.newPassword]
      [] r.op = "assignStore"    -> [user EXCEPT !.storeId = r.storeId]
      [] r.op = "activate"       -> [user EXCEPT !.isActive = TRUE]
      [] r.op = "deactivate"     -> [user EXCEPT !.isActive = FALSE]
      [] OTHER                   -> user

\* What the operation does to the object.
Applied(r, user) ==
    CASE r.op = "updateProfile"  -> [user EXCEPT !.email = IF r.email = None THEN @ ELSE r.email,
                                                 !.storeId = IF r.storeId = None THEN @ ELSE r.storeId]
      [] r.op = "changePassword" -> [user EXCEPT !.password = r.newPassword]
      [] r.op = "assignStore"    -> [user EXCEPT !.storeId = r.storeId]
      [] r.op = "activate"       -> [user EXCEPT !.isActive = TRUE]
      [] r.op = "deactivate"     -> [user EXCEPT !.isActive = FALSE]
      [] OTHER                   -> user

ChangesEmail(r, user) ==
    r.op = "updateProfile" /\ r.email # None /\ r.email # user.email

\* The store that is asked for is looked up: always, or only if it is a new one.
StoreMissing(r, user) ==
    /\ ~r.known
    /\ \/ r.op = "assignStore"
       \/ r.op = "updateProfile" /\ r.storeId \notin {None, user.storeId}

\* Variant: the password is not compared, or not with this user's.
Accepts_AnyPassword(r, user) ==
    CASE r.op = "login"                         -> user.isActive
      [] r.op = "changePassword"                -> TRUE
      [] r.op \in {"updateProfile", "assignStore"} -> ~StoreMissing(r, user)
      [] OTHER                                  -> TRUE

\* The checks of the object that was read.
Accepts(r, user) ==
    CASE r.op = "login"                         -> user.password = r.password /\ user.isActive
      [] r.op = "changePassword"                -> user.password = r.currentPassword
      [] r.op \in {"updateProfile", "assignStore"} -> ~StoreMissing(r, user)
      [] OTHER                                  -> TRUE

\* The user an operation is about: login names it by its username.
Subject(r) ==
    IF r.op = "login" THEN {id \in Stored : users[id].username = r.username}
                      ELSE {r.id} \cap Stored

\* updateProfile looks for the new email before it looks for the store; the order only
\* decides which error the caller gets.
Find(c) ==
    LET r == request[c] IN
    /\ pc[c] = "start"
    /\ r.op \notin {"create", "refresh"}
    /\ \/ /\ Subject(r) = {}
          /\ Refuse(c)
       \/ \E id \in Subject(r) :
            IF ~Accepts(r, users[id]) THEN Refuse(c)
            ELSE IF r.op = "delete" THEN Keep(c, id, users[id], "delete")
            ELSE IF ChangesEmail(r, users[id])
                 THEN Keep(c, id, Applied(r, users[id]), "checkEmail")
                 ELSE Keep(c, id, Applied(r, users[id]), "select")

\* Verifying the token is no round trip.  A token that was never issued, or is too old,
\* is refused.
Refresh(c) ==
    LET id == request[c].id IN
    /\ pc[c] = "start"
    /\ request[c].op = "refresh"
    /\ \/ Refuse(c)
       \/ /\ id \in tokens
          /\ id \in Stored
          /\ users[id].isActive
          /\ Reply(c, "ok")
          /\ UNCHANGED <<users, tokens, request, locals>>

FindUsername(c) ==
    /\ pc[c] = "start"
    /\ request[c].op = "create"
    /\ IF \E id \in Stored : users[id].username = request[c].username
       THEN Refuse(c)
       ELSE Goto(c, "checkEmail") /\ UNCHANGED <<users, tokens, request, locals>>

NewUser(r) ==
    [username |-> r.username, email |-> r.email, password |-> r.password,
     storeId |-> r.storeId, isActive |-> TRUE]

\* save's SELECT by a fresh id finds nothing, so a new user goes on with the INSERT.
CheckEmail(c) ==
    LET r == request[c] IN
    /\ pc[c] = "checkEmail"
    /\ IF (\E id \in Stored : users[id].email = r.email) \/ (r.op = "create" /\ ~r.known)
       THEN Refuse(c)
       ELSE IF r.op = "create"
            THEN Keep(c, c, NewUser(r), "insert")
            ELSE Goto(c, "select") /\ UNCHANGED <<users, tokens, request, locals>>

-----------------------------------------------------------------------------
(* Saving.                                                                 *)

\* A new hash always differs from the stored one.
Differing(c, stored) ==
    {col \in Columns : object[c].user[col] # stored[col]}
        \cup (IF request[c].op = "changePassword" THEN {"password"} ELSE {})

Select(c) ==
    LET id == object[c].id IN
    /\ pc[c] = "select"
    /\ IF id \in Stored
       THEN /\ dirty' = [dirty EXCEPT ![c] = Differing(c, users[id])]
            /\ Goto(c, "write")
       ELSE Goto(c, "insert") /\ UNCHANGED dirty
    /\ UNCHANGED <<users, tokens, request, object>>

Saved(c, id, row) ==
    IF Unique(id, row)
    THEN /\ users' = [users EXCEPT ![id] = row]
         /\ Goto(c, "reload")
         /\ UNCHANGED <<tokens, request, locals>>
    ELSE Refuse(c)

\* The UPDATE of some columns.
Updated(stored, new, columns) ==
    LET column(name, newer, older) == IF name \in columns THEN newer ELSE older
    IN  [username |-> column("username", new.username, stored.username),
         email    |-> column("email", new.email, stored.email),
         password |-> column("password", new.password, stored.password),
         storeId  |-> column("storeId", new.storeId, stored.storeId),
         isActive |-> column("isActive", new.isActive, stored.isActive)]

\* An UPDATE of a row that is gone updates nothing, and is no error.
Write(c) ==
    LET id == object[c].id IN
    /\ pc[c] = "write"
    /\ IF id \in Stored
       THEN Saved(c, id, Updated(users[id], object[c].user, dirty[c]))
       ELSE Goto(c, "reload") /\ UNCHANGED <<users, tokens, request, locals>>

Insert(c) ==
    LET id == object[c].id IN
    /\ pc[c] = "insert"
    /\ IF id \in Stored THEN Refuse(c) ELSE Saved(c, id, object[c].user)

\* Both tokens are made from the object, after the save.
Reload(c) ==
    LET id == object[c].id IN
    /\ pc[c] = "reload"
    /\ IF id \in Stored
       THEN /\ Reply(c, "ok")
            /\ tokens' = IF request[c].op = "login" THEN tokens \cup {id} ELSE tokens
            /\ UNCHANGED <<users, request, locals>>
       ELSE Refuse(c)

\* DELETE of a row that is gone deletes nothing, and is no error.
Delete(c) ==
    /\ pc[c] = "delete"
    /\ users' = [users EXCEPT ![object[c].id] = None]
    /\ \E a \in {"ok", "error"} : Reply(c, a)
    /\ UNCHANGED <<tokens, request, locals>>

\* The connection breaks or the process dies.  After a write this is also its lost reply.
Fails(c) ==
    /\ pc[c] \notin {"idle", "done"}
    /\ Refuse(c)

Finished == (\A c \in Calls : pc[c] = "done") /\ UNCHANGED vars

Step(c) ==
    \/ Call(c) \/ Find(c) \/ Refresh(c) \/ FindUsername(c) \/ CheckEmail(c)
    \/ Select(c) \/ Write(c) \/ Insert(c) \/ Reload(c) \/ Delete(c) \/ Fails(c)

Next == (\E c \in Calls : Step(c)) \/ Finished

Spec == Init /\ [][Next]_vars

-----------------------------------------------------------------------------
TypeOK ==
    /\ users \in [Ids -> User \cup {None}]
    /\ tokens \subseteq Ids
    /\ request \in [Calls -> Requests \cup {None}]
    /\ pc \in [Calls -> {"idle", "start", "checkEmail", "select", "write", "insert",
                         "delete", "reload", "done"}]
    /\ answer \in [Calls -> {"none", "ok", "error"}]
    /\ object \in [Calls -> [id : Ids, user : User] \cup {None}]
    /\ dirty \in [Calls -> SUBSET Columns]

\* However many calls pass their checks at once, no two users share a username or an email.
AccountsDistinct ==
    \A a, b \in Stored : a # b =>
        /\ users[a].username # users[b].username
        /\ users[a].email # users[b].email
=============================================================================
