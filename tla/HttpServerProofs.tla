-------------------------- MODULE HttpServerProofs --------------------------
(***************************************************************************)
(* Proofs about HttpServer and the Catalog it serves, for any calls, rows, *)
(* names, routes and requests: the tables stay sound whatever lookups,     *)
(* saves, deletions and signals overlap, the security middleware admits    *)
(* exactly whom the decorators entitle, and every answer was true while    *)
(* its request was being served.                                           *)
(***************************************************************************)
EXTENDS HttpServer, WellFoundedInduction, TLAPS

(* The middleware.                                                         *)

\* Of the marks of a method one is the topmost.
LEMMA TopmostExists ==
    ASSUME NEW marks \in SUBSET Nat, marks # {}
    PROVE  \E i \in marks : \A j \in marks : i <= j
  <1>1. IsWellFoundedOn(OpToRel(<, Nat), Nat)
    BY NatLessThanWellFounded
  <1>2. PICK i \in marks : \A j \in marks : ~ (<<j, i>> \in OpToRel(<, Nat))
    BY <1>1, WFMin
  <1>3. \A j \in marks : ~ (j < i)
    BY <1>2 DEF OpToRel
  <1>. QED
    BY <1>3

\* The role decorator that counts is the topmost.
LEMMA RolesOfTopmost ==
    ASSUME NEW decorators \in Seq(Decorators), Marked(decorators, "roles") # {}
    PROVE  \E i \in DOMAIN decorators :
               /\ decorators[i].mark = "roles"
               /\ \A j \in 1..(i - 1) : decorators[j].mark # "roles"
               /\ RolesOf(decorators) = decorators[i].roles
               /\ decorators[i].roles # {}
  <1>1. DOMAIN decorators = 1..Len(decorators) /\ Len(decorators) \in Nat
    OBVIOUS
  <1>0. Marked(decorators, "roles") \in SUBSET Nat
    BY <1>1 DEF Marked
  <1>2. PICK i \in Marked(decorators, "roles") : \A j \in Marked(decorators, "roles") : i <= j
    BY <1>0, TopmostExists
  <1>3. i = CHOOSE k \in Marked(decorators, "roles") : \A j \in Marked(decorators, "roles") : k <= j
    BY <1>1, <1>2 DEF Marked
  <1>4. RolesOf(decorators) = decorators[i].roles
    BY <1>3 DEF RolesOf
  <1>5. i \in DOMAIN decorators /\ decorators[i].mark = "roles"
    BY DEF Marked
  <1>6. \A j \in 1..(i - 1) : decorators[j].mark # "roles"
    BY <1>1, <1>2, <1>5 DEF Marked
  <1>7. decorators[i] \in Decorators
    BY <1>5
  <1>8. decorators[i].roles # {}
    <2>1. Public.mark # "roles" /\ RequireStoreAccess.mark # "roles"
      BY DEF Public, RequireStoreAccess
    <2>2. PICK roles \in (SUBSET Roles) \ {{}} : decorators[i] = RequireRoles(roles)
      BY <1>5, <1>7, <2>1 DEF Decorators
    <2>3. roles # {}
      BY <2>2
    <2>4. RequireRoles(roles).roles = roles
      BY DEF RequireRoles
    <2>. QED
      BY <2>2, <2>3, <2>4
  <1>. QED
    BY <1>4, <1>5, <1>6, <1>8

\* A decorator that is neither a role nor a public mark.
LEMMA MarkIsName ==
    ASSUME NEW d \in Decorators
    PROVE  /\ d.mark = "public" <=> d = Public
           /\ d.mark = "store" <=> d = RequireStoreAccess
  <1>1. CASE d = Public
    BY <1>1 DEF Public, RequireStoreAccess
  <1>2. CASE d = RequireStoreAccess
    BY <1>2 DEF Public, RequireStoreAccess
  <1>3. CASE \E roles \in (SUBSET Roles) \ {{}} : d = RequireRoles(roles)
    <2>1. d.mark = "roles"
      BY <1>3 DEF RequireRoles
    <2>2. Public.mark = "public" /\ RequireStoreAccess.mark = "store"
      BY DEF Public, RequireStoreAccess
    <2>. QED
      BY <2>1, <2>2
  <1>. QED
    BY <1>1, <1>2, <1>3 DEF Decorators

\* The middleware reads metadata that the decorators wrote over one another, and says "next"
\* exactly to those whom the decorators in the source entitle.
LEMMA DecideIsEntitled ==
    ASSUME NEW classPublic \in BOOLEAN, NEW decorators \in Seq(Decorators), NEW cred
    PROVE  (Decide(Metadata(classPublic, decorators), cred) = "next")
                <=> Entitled(classPublic, decorators, cred)
  <1> DEFINE meta == Metadata(classPublic, decorators)
             public == classPublic \/ \E i \in DOMAIN decorators : decorators[i] = Public
             role == \A i \in DOMAIN decorators :
                        (/\ decorators[i].mark = "roles"
                         /\ \A j \in 1..(i - 1) : decorators[j].mark # "roles")
                            => cred.role \in decorators[i].roles
             store == \E i \in DOMAIN decorators : decorators[i] = RequireStoreAccess
             access == cred.asked # None /\ (cred.role = "ADMIN" \/ cred.asked = cred.storeId)
  <1>1. \A i \in DOMAIN decorators : decorators[i] \in Decorators
    OBVIOUS
  <1>2. meta.public <=> public
    BY <1>1, MarkIsName DEF Metadata, Marked
  <1>3. meta.store <=> store
    BY <1>1, MarkIsName DEF Metadata, Marked
  <1>4. HasRole(meta, cred) <=> role
    <2>1. meta.roles = RolesOf(decorators)
      BY DEF Metadata
    <2>2. CASE Marked(decorators, "roles") = {}
      <3>1. RolesOf(decorators) = {}
        BY <2>2 DEF RolesOf
      <3>2. \A i \in DOMAIN decorators : decorators[i].mark # "roles"
        BY <2>2 DEF Marked
      <3>. QED
        BY <2>1, <3>1, <3>2 DEF HasRole
    <2>3. CASE Marked(decorators, "roles") # {}
      <3>1. PICK i \in DOMAIN decorators :
                /\ decorators[i].mark = "roles"
                /\ \A j \in 1..(i - 1) : decorators[j].mark # "roles"
                /\ RolesOf(decorators) = decorators[i].roles
                /\ decorators[i].roles # {}
        BY <2>3, RolesOfTopmost
      <3>2. \A k \in DOMAIN decorators :
                (/\ decorators[k].mark = "roles"
                 /\ \A j \in 1..(k - 1) : decorators[j].mark # "roles") => k = i
        BY <3>1
      <3>. QED
        BY <2>1, <3>1, <3>2 DEF HasRole
    <2>. QED
      BY <2>2, <2>3
  <1>5. CanAccessStore(cred) /\ cred.asked # None <=> access
    BY DEF CanAccessStore
  <1>6. (Decide(meta, cred) = "next")
            <=> (public \/ (cred.token = "valid" /\ role /\ (store => access)))
    <2> HIDE DEF meta, public, role, store, access
    <2>. QED
      BY <1>2, <1>3, <1>4, <1>5 DEF Decide
  <1>7. Entitled(classPublic, decorators, cred)
            <=> (public \/ (cred.token = "valid" /\ role /\ (store => access)))
    BY DEF Entitled
  <1>. QED
    BY <1>6, <1>7

-----------------------------------------------------------------------------
(* The catalog: what a call holds at each of its steps.                    *)

Carrying == {"findName", "findCategory", "select", "write", "insert"}

CallShape(c) ==
    /\ pc[c] # "idle" => request[c] \in Operation
    /\ pc[c] = "idle" => request[c] = None
    /\ pc[c] \in Carrying => object[c] \in [id : Ids, row : Row]
    /\ pc[c] = "findName" => request[c].op = "update" /\ request[c].name \in Names
    /\ pc[c] = "delete" => request[c].op = "delete"

TypeInv == CatalogTypeOK /\ \A c \in Calls : CallShape(c)

LEMMA OperationTypes ==
    ASSUME NEW r \in Operation
    PROVE  /\ r.op \in {"create", "update", "delete", "get"}
           /\ r.kind \in Kinds
           /\ r.op = "create" => r.name \in Names /\ r.category \in Ids \cup {None}
           /\ r.op = "delete" => r.id \in Ids
           /\ r.op = "update" => /\ r.id \in Ids
                                 /\ r.name \in Names \cup {None}
                                 /\ r.category \in Ids \cup {None}
  BY DEF Operation, Kinds

LEMMA UpdatedTypes ==
    ASSUME NEW stored \in Row, NEW new \in Row, NEW columns
    PROVE  /\ Updated(stored, new, columns) \in Row
           /\ stored.kind = new.kind => Updated(stored, new, columns).kind = new.kind
  BY DEF Updated, Row

Move(c) == (\E r \in Operation : Start(c, r)) \/ CatalogStep(c) \/ Fails(c)

\* The server moves a call of the catalog or none.
LEMMA ServerMoves ==
    ASSUME [Next]_vars
    PROVE  (\E c \in Calls : Move(c)) \/ UNCHANGED catalogVars
  <1>1. CASE UNCHANGED vars
    BY <1>1 DEF vars
  <1>2. CASE Connect \/ Listen \/ Signal \/ Destroyed \/ RedisChanges \/ Finished \/ Stopped
    BY <1>2 DEF Connect, Listen, Signal, Destroyed, RedisChanges, Finished, Stopped
  <1>3. ASSUME NEW c \in Calls, Receive(c) PROVE Move(c) \/ UNCHANGED catalogVars
    <2>1. PICK r \in Requests : IF "health" \in DOMAIN r THEN Probe(c, r.health) ELSE Admit(c, r)
      BY <1>3 DEF Receive
    <2>2. CASE "health" \in DOMAIN r
      BY <2>1, <2>2 DEF Probe
    <2>3. CASE "health" \notin DOMAIN r
      <3>1. r \in [route : Routes, cred : Credentials(Stores), valid : BOOLEAN, operation : Operation]
        BY <2>3, RequestsAssumption DEF HttpRequest
      <3>2. r.operation \in Operation
        BY <3>1
      <3>. QED
        BY <2>1, <2>3, <3>2 DEF Admit, Move
    <2>. QED
      BY <2>2, <2>3
  <1>4. ASSUME NEW c \in Calls, Work(c) PROVE Move(c)
    BY <1>4 DEF Work, Move
  <1>5. ASSUME NEW c \in Calls, Checked(c) PROVE UNCHANGED catalogVars
    BY <1>5 DEF Checked
  <1>. QED
    BY <1>1, <1>2, <1>3, <1>4, <1>5 DEF Next, Step

\* A call that ends has nothing left to do.
LEMMA EndTypes ==
    ASSUME TypeInv, NEW c \in Calls, NEW o \in Outcomes, End(c, o), pc[c] # "idle",
           rows' \in [Ids -> Row \cup {None}]
    PROVE  TypeInv'
  <1>1. CatalogTypeOK'
    BY DEF TypeInv, CatalogTypeOK, End
  <1>2. ASSUME NEW d \in Calls PROVE CallShape(d)'
    BY DEF TypeInv, CatalogTypeOK, CallShape, Carrying, End
  <1>. QED
    BY <1>1, <1>2 DEF TypeInv

LEMMA AnswerTypes ==
    ASSUME TypeInv, NEW c \in Calls, NEW o \in Outcomes, Answer(c, o), pc[c] # "idle"
    PROVE  TypeInv'
  BY EndTypes DEF Answer, TypeInv, CatalogTypeOK

LEMMA KeepTypes ==
    ASSUME TypeInv, NEW c \in Calls, NEW id \in Ids, NEW row \in Row, NEW step \in Carrying,
           Keep(c, id, row, step), pc[c] # "idle",
           step = "findName" => request[c].op = "update" /\ request[c].name \in Names
    PROVE  TypeInv'
  <1>1. CatalogTypeOK'
    BY DEF TypeInv, CatalogTypeOK, Keep, Goto, Carrying
  <1>2. ASSUME NEW d \in Calls PROVE CallShape(d)'
    <2>1. CASE d = c
      <3>1. pc'[c] = step /\ object'[c] = [id |-> id, row |-> row] /\ request' = request
        BY DEF TypeInv, CatalogTypeOK, Keep, Goto
      <3>. QED
        BY <2>1, <3>1 DEF TypeInv, CallShape, Carrying
    <2>2. CASE d # c
      BY <2>2 DEF TypeInv, CatalogTypeOK, CallShape, Carrying, Keep, Goto
    <2>. QED
      BY <2>1, <2>2
  <1>. QED
    BY <1>1, <1>2 DEF TypeInv

\* The rows a lookup finds.
LEMMA StoredTypes ==
    ASSUME TypeInv, NEW kind, NEW id \in Stored(kind)
    PROVE  id \in Ids /\ rows[id] \in Row /\ rows[id].kind = kind
  BY DEF Stored, TypeInv, CatalogTypeOK

LEMMA LookupTypes ==
    ASSUME TypeInv, NEW c \in Calls,
           FindForCreate(c) \/ FindForUpdate(c) \/ FindForDelete(c) \/ FindName(c) \/ FindCategory(c)
    PROVE  TypeInv'
  <1>0. pc[c] # "idle" /\ request[c] \in Operation /\ CallShape(c)
    BY DEF TypeInv, CallShape, FindForCreate, FindForUpdate, FindForDelete, FindName, FindCategory
  <1>a. {"ok", "notFound", "exists", "failed"} \subseteq Outcomes
    BY DEF Outcomes
  <1>1. CASE FindForCreate(c)
    <2> DEFINE r == request[c]
               new == [kind |-> r.kind, name |-> r.name, category |-> r.category]
    <2>1. CASE Answer(c, "exists")
      BY <1>0, <1>a, <2>1, AnswerTypes
    <2>2. CASE ~Answer(c, "exists")
      <3>1. new \in Row
        BY <1>0, <1>1, OperationTypes DEF FindForCreate, Row
      <3>2. c \in Ids
        BY DEF Ids
      <3>3. PICK step \in {"findCategory", "insert"} : Keep(c, c, new, step)
        BY <1>1, <2>2 DEF FindForCreate
      <3>. QED
        BY <1>0, <3>1, <3>2, <3>3, KeepTypes DEF Carrying
    <2>. QED
      BY <2>1, <2>2
  <1>2. CASE FindForUpdate(c)
    <2> DEFINE r == request[c]
    <2>1. CASE Answer(c, "notFound")
      BY <1>0, <1>a, <2>1, AnswerTypes
    <2>2. CASE ~Answer(c, "notFound")
      <3>1. r.id \in Stored(r.kind) /\ r.op = "update"
        BY <1>2, <2>2 DEF FindForUpdate
      <3>2. rows[r.id] \in Row /\ r.id \in Ids
        BY <3>1, StoredTypes
      <3>3. PICK step \in {"findName", "findCategory", "select"} :
                /\ Keep(c, r.id, rows[r.id], step)
                /\ step = "findName" => NewName(r, rows[r.id])
        BY <1>2, <2>2 DEF FindForUpdate, AfterName
      <3>4. step = "findName" => r.name \in Names
        BY <1>0, <3>1, <3>3, OperationTypes DEF NewName
      <3>. QED
        BY <1>0, <3>1, <3>2, <3>3, <3>4, KeepTypes DEF Carrying
    <2>. QED
      BY <2>1, <2>2
  <1>3. CASE FindForDelete(c)
    <2>1. CASE Answer(c, "notFound") \/ Answer(c, "ok")
      BY <1>0, <1>a, <2>1, AnswerTypes
    <2>2. CASE Proceed(c, "delete") /\ request[c].op = "delete"
      BY <1>0, <2>2 DEF Proceed, Goto, locals, TypeInv, CatalogTypeOK, CallShape, Carrying
    <2>. QED
      BY <1>3, <2>1, <2>2 DEF FindForDelete
  <1>4. CASE FindName(c)
    <2> DEFINE r == request[c]
               new == [object[c].row EXCEPT !.name = r.name]
    <2>1. CASE Answer(c, "exists")
      BY <1>0, <1>a, <2>1, AnswerTypes
    <2>2. CASE ~Answer(c, "exists")
      <3>1. object[c] \in [id : Ids, row : Row]
        BY <1>0, <1>4 DEF CallShape, Carrying, FindName, TypeInv, CatalogTypeOK
      <3>2. new \in Row
        BY <1>0, <1>4, <3>1 DEF CallShape, FindName, Row
      <3>3. PICK step \in {"findCategory", "select"} : Keep(c, r.id, new, step)
        BY <1>4, <2>2 DEF FindName, AfterName
      <3>4. r.id \in Ids
        BY <1>0, <1>4, OperationTypes DEF FindName, CallShape
      <3>. QED
        BY <1>0, <3>2, <3>3, <3>4, KeepTypes DEF Carrying
    <2>. QED
      BY <2>1, <2>2
  <1>5. CASE FindCategory(c)
    <2> DEFINE r == request[c]
               new == [object[c].row EXCEPT !.category = r.category]
    <2>1. CASE Answer(c, "notFound")
      BY <1>0, <1>a, <2>1, AnswerTypes
    <2>2. CASE ~Answer(c, "notFound")
      <3>1. object[c] \in [id : Ids, row : Row]
        BY <1>0, <1>5 DEF CallShape, Carrying, FindCategory, TypeInv, CatalogTypeOK
      <3>2. r.category \in Ids
        BY <1>5, <2>2, StoredTypes DEF FindCategory
      <3>3. new \in Row
        BY <3>1, <3>2 DEF Row
      <3>4. PICK step \in {"insert", "select"} : Keep(c, object[c].id, new, step)
        BY <1>5, <2>2 DEF FindCategory, AfterCategory
      <3>. QED
        BY <1>0, <3>1, <3>3, <3>4, KeepTypes DEF Carrying
    <2>. QED
      BY <2>1, <2>2
  <1>. QED
    BY <1>1, <1>2, <1>3, <1>4, <1>5

\* What a call that saves writes.
LEMMA SavedTypes ==
    ASSUME TypeInv, NEW c \in Calls, NEW id \in Ids, NEW row \in Row, Saved(c, id, row),
           pc[c] # "idle"
    PROVE  TypeInv'
  <1>0. {"ok", "failed"} \subseteq Outcomes
    BY DEF Outcomes
  <1>1. CASE Unique(id, row) /\ Refers(row)
    <2>1. rows' = [rows EXCEPT ![id] = row] /\ \E o \in {"ok", "failed"} : End(c, o)
      BY <1>1 DEF Saved
    <2>2. rows' \in [Ids -> Row \cup {None}]
      BY <2>1 DEF TypeInv, CatalogTypeOK
    <2>. QED
      BY <1>0, <2>1, <2>2, EndTypes
  <1>2. CASE ~(Unique(id, row) /\ Refers(row))
    BY <1>0, <1>2, AnswerTypes DEF Saved
  <1>. QED
    BY <1>1, <1>2

LEMMA StoringTypes ==
    ASSUME TypeInv, NEW c \in Calls,
           Select(c) \/ Write(c) \/ Insert(c) \/ Delete(c) \/ Fails(c)
    PROVE  TypeInv'
  <1>0. {"ok", "failed"} \subseteq Outcomes
    BY DEF Outcomes
  <1>1. CASE Select(c)
    <2>1. object[c] \in [id : Ids, row : Row] /\ pc[c] = "select"
      BY <1>1 DEF Select, TypeInv, CallShape, Carrying
    <2>2. UNCHANGED <<rows, request, object, outcome>>
      BY <1>1 DEF Select, Goto
    <2>3. PICK step \in {"write", "insert"} : pc' = [pc EXCEPT ![c] = step]
      BY <1>1 DEF Select, Goto
    <2>4. dirty' \in [Calls -> SUBSET Columns]
      BY <1>1 DEF Select, TypeInv, CatalogTypeOK
    <2>5. CatalogTypeOK'
      BY <2>2, <2>3, <2>4 DEF TypeInv, CatalogTypeOK
    <2>6. ASSUME NEW d \in Calls PROVE CallShape(d)'
      BY <2>1, <2>2, <2>3 DEF TypeInv, CatalogTypeOK, CallShape, Carrying
    <2>. QED
      BY <2>5, <2>6 DEF TypeInv
  <1>2. CASE Write(c)
    <2>1. object[c] \in [id : Ids, row : Row] /\ pc[c] = "write"
      BY <1>2 DEF Write, TypeInv, CallShape, Carrying
    <2>2. CASE rows[object[c].id] # None
      <3>1. rows[object[c].id] \in Row
        BY <2>1, <2>2 DEF TypeInv, CatalogTypeOK
      <3>2. Updated(rows[object[c].id], object[c].row, dirty[c]) \in Row
        BY <2>1, <3>1, UpdatedTypes
      <3>. QED
        BY <1>2, <2>1, <2>2, <3>2, SavedTypes DEF Write
    <2>3. CASE rows[object[c].id] = None
      BY <1>0, <1>2, <2>1, <2>3, AnswerTypes DEF Write
    <2>. QED
      BY <2>2, <2>3
  <1>3. CASE Insert(c)
    <2>1. object[c] \in [id : Ids, row : Row] /\ pc[c] = "insert"
      BY <1>3 DEF Insert, TypeInv, CallShape, Carrying
    <2>. QED
      BY <1>0, <1>3, <2>1, AnswerTypes, SavedTypes DEF Insert
  <1>4. CASE Delete(c)
    <2>1. pc[c] = "delete"
      BY <1>4 DEF Delete
    <2>2. CASE Referenced(request[c].id)
      BY <1>0, <1>4, <2>1, <2>2, AnswerTypes DEF Delete
    <2>3. CASE ~Referenced(request[c].id)
      <3>1. rows' \in [Ids -> Row \cup {None}]
        BY <1>4, <2>3 DEF Delete, TypeInv, CatalogTypeOK
      <3>. QED
        BY <1>0, <1>4, <2>1, <2>3, <3>1, EndTypes DEF Delete
    <2>. QED
      BY <2>2, <2>3
  <1>5. CASE Fails(c)
    BY <1>0, <1>5, AnswerTypes DEF Fails
  <1>. QED
    BY <1>1, <1>2, <1>3, <1>4, <1>5

LEMMA MoveTypes ==
    ASSUME TypeInv, NEW c \in Calls, Move(c)
    PROVE  TypeInv'
  <1>1. ASSUME NEW r \in Operation, Start(c, r) PROVE TypeInv'
    <2>1. CatalogTypeOK'
      BY <1>1 DEF Start, Goto, locals, TypeInv, CatalogTypeOK
    <2>2. ASSUME NEW d \in Calls PROVE CallShape(d)'
      BY <1>1 DEF Start, Goto, locals, TypeInv, CatalogTypeOK, CallShape, Carrying
    <2>. QED
      BY <2>1, <2>2 DEF TypeInv
  <1>. QED
    BY <1>1, LookupTypes, StoringTypes DEF Move, CatalogStep

LEMMA InitTypes == Init => TypeInv
  <1> SUFFICES ASSUME Init PROVE TypeInv
    OBVIOUS
  <1>1. CatalogTypeOK
    BY RowsAssumption DEF Init, CatalogInit, CatalogTypeOK, Ids, Outcomes
  <1>2. \A c \in Calls : CallShape(c)
    BY DEF Init, CatalogInit, CallShape, Carrying
  <1>. QED
    BY <1>1, <1>2 DEF TypeInv

LEMMA NextTypes == TypeInv /\ [Next]_vars => TypeInv'
  <1> SUFFICES ASSUME TypeInv, [Next]_vars PROVE TypeInv'
    OBVIOUS
  <1>1. CASE UNCHANGED catalogVars
    BY <1>1 DEF catalogVars, TypeInv, CatalogTypeOK, CallShape, Carrying
  <1>. QED
    BY <1>1, ServerMoves, MoveTypes

-----------------------------------------------------------------------------
(* The tables.  An id stands for one kind of row for good: that of the row *)
(* it was first given to, or of the request that created it.               *)

KindAt(id) == IF id \in Entries THEN FirstRows[id].kind ELSE request[id].kind

\* The row may be the one of that id: the call that made the id has begun.
Fits(id, row) == (id \in Calls => pc[id] # "idle") /\ row.kind = KindAt(id)

HoldsFitting(c) ==
    pc[c] \in Carrying =>
        /\ Fits(object[c].id, object[c].row)
        /\ pc[c] = "findName" => object[c].id = request[c].id

KindsFit ==
    /\ \A id \in Ids : rows[id] # None => Fits(id, rows[id])
    /\ \A c \in Calls : HoldsFitting(c)

CatalogInv == TypeInv /\ KindsFit /\ CategoriesExist /\ NamesDistinct

\* What one call does to the tables.
Puts(id, row) ==
    /\ Unique(id, row) /\ Refers(row) /\ Fits(id, row)
    /\ rows' = [rows EXCEPT ![id] = row]

Removes(id) == ~Referenced(id) /\ rows' = [rows EXCEPT ![id] = None]

LEMMA MoveRows ==
    ASSUME TypeInv, KindsFit, NEW c \in Calls, Move(c)
    PROVE  \/ rows' = rows
           \/ \E id \in Ids : \E row \in Row : Puts(id, row)
           \/ \E id \in Ids : Removes(id)
  <1>1. CASE (\E r \in Operation : Start(c, r)) \/ FindForCreate(c) \/ FindForUpdate(c)
             \/ FindForDelete(c) \/ FindName(c) \/ FindCategory(c) \/ Select(c) \/ Fails(c)
    BY <1>1 DEF Start, FindForCreate, FindForUpdate, FindForDelete, FindName, FindCategory,
                Select, Fails, Answer, Keep, Proceed
  <1>2. ASSUME NEW id \in Ids, NEW row \in Row, Saved(c, id, row), Fits(id, row)
        PROVE  rows' = rows \/ Puts(id, row)
    BY <1>2 DEF Saved, Answer, Puts
  <1>3. CASE Write(c)
    <2>1. object[c] \in [id : Ids, row : Row] /\ pc[c] = "write" /\ HoldsFitting(c)
      BY <1>3 DEF Write, TypeInv, CallShape, Carrying, KindsFit
    <2> DEFINE id == object[c].id
               new == Updated(rows[id], object[c].row, dirty[c])
    <2>2. CASE rows[id] # None
      <3>1. rows[id] \in Row /\ Fits(id, rows[id])
        BY <2>1, <2>2 DEF TypeInv, CatalogTypeOK, KindsFit
      <3>2. rows[id].kind = object[c].row.kind
        BY <2>1, <3>1 DEF HoldsFitting, Fits, Carrying
      <3>3. new \in Row /\ new.kind = rows[id].kind
        <4>1. object[c].row \in Row
          BY <2>1
        <4>. QED
          BY <3>1, <3>2, <4>1 DEF Updated, Row
      <3>4. Fits(id, new)
        BY <3>1, <3>3 DEF Fits
      <3>5. Saved(c, id, new)
        BY <1>3, <2>2 DEF Write
      <3>. QED
        BY <1>2, <2>1, <3>3, <3>4, <3>5
    <2>3. CASE rows[id] = None
      BY <1>3, <2>3 DEF Write, Answer
    <2>. QED
      BY <2>2, <2>3
  <1>4. CASE Insert(c)
    <2>1. object[c] \in [id : Ids, row : Row] /\ pc[c] = "insert" /\ HoldsFitting(c)
      BY <1>4 DEF Insert, TypeInv, CallShape, Carrying, KindsFit
    <2>2. Fits(object[c].id, object[c].row)
      BY <2>1 DEF HoldsFitting, Carrying
    <2>3. rows' = rows \/ Saved(c, object[c].id, object[c].row)
      BY <1>4 DEF Insert, Answer
    <2>. QED
      BY <1>2, <2>1, <2>2, <2>3
  <1>5. CASE Delete(c)
    <2>1. request[c].id \in Ids
      <3>1. pc[c] = "delete" /\ CallShape(c)
        BY <1>5 DEF Delete, TypeInv
      <3>2. request[c] \in Operation /\ request[c].op = "delete"
        BY <3>1 DEF CallShape
      <3>. QED
        BY <3>2, OperationTypes
    <2>. QED
      BY <1>5, <2>1 DEF Delete, Answer, Removes
  <1>. QED
    BY <1>1, <1>3, <1>4, <1>5 DEF Move, CatalogStep

\* What the call takes with it.
LEMMA MoveHolds ==
    ASSUME TypeInv, KindsFit, NEW c \in Calls, Move(c), pc'[c] \in Carrying
    PROVE  /\ pc[c] # "idle"
           /\ object'[c] \in [id : Ids, row : Row]
           /\ Fits(object'[c].id, object'[c].row)
           /\ pc'[c] = "findName" => object'[c].id = request[c].id
  <1>0. CallShape(c) /\ HoldsFitting(c) /\ TypeInv'
    BY MoveTypes DEF TypeInv, KindsFit
  <1>1. object'[c] \in [id : Ids, row : Row]
    BY <1>0 DEF TypeInv, CallShape
  <1>2. ASSUME NEW r \in Operation, Start(c, r) PROVE FALSE
    BY <1>2 DEF Start, Goto, TypeInv, CatalogTypeOK, Carrying
  <1>3. ASSUME NEW id, NEW row, NEW step, Keep(c, id, row, step)
        PROVE  object'[c].id = id /\ object'[c].row = row /\ pc'[c] = step
    BY <1>3 DEF Keep, Goto, TypeInv, CatalogTypeOK
  <1>4. ASSUME NEW o, End(c, o) PROVE FALSE
    BY <1>4 DEF End, TypeInv, CatalogTypeOK, Carrying
  <1>5. CASE FindForCreate(c)
    <2> DEFINE r == request[c]
               new == [kind |-> r.kind, name |-> r.name, category |-> r.category]
    <2>1. PICK step \in {"findCategory", "insert"} : Keep(c, c, new, step)
      BY <1>4, <1>5 DEF FindForCreate, Answer
    <2>2. Fits(c, new)
      BY <1>5, FreshAssumption DEF FindForCreate, Fits, KindAt
    <2>. QED
      BY <1>1, <1>3, <1>5, <2>1, <2>2 DEF FindForCreate
  <1>6. CASE FindForUpdate(c)
    <2> DEFINE r == request[c]
    <2>1. r.id \in Stored(r.kind)
      BY <1>4, <1>6 DEF FindForUpdate, Answer
    <2>2. PICK step : Keep(c, r.id, rows[r.id], step)
      BY <1>6, <2>1 DEF FindForUpdate
    <2>3. Fits(r.id, rows[r.id])
      BY <2>1 DEF KindsFit, Stored
    <2>. QED
      BY <1>1, <1>3, <1>6, <2>2, <2>3 DEF FindForUpdate
  <1>7. CASE FindForDelete(c)
    <2>1. Proceed(c, "delete")
      BY <1>4, <1>7 DEF FindForDelete, Answer
    <2>. QED
      BY <2>1 DEF Proceed, Goto, TypeInv, CatalogTypeOK, Carrying
  <1>8. CASE FindName(c)
    <2> DEFINE r == request[c]
               row == object[c].row
    <2>1. PICK step : Keep(c, r.id, [row EXCEPT !.name = r.name], step)
      BY <1>4, <1>8 DEF FindName, Answer
    <2>2. object[c] \in [id : Ids, row : Row] /\ Fits(object[c].id, row) /\ object[c].id = r.id
      BY <1>0, <1>8 DEF FindName, CallShape, HoldsFitting, Carrying
    <2>3. [row EXCEPT !.name = r.name].kind = row.kind
      BY <2>2 DEF Row
    <2>4. Fits(r.id, [row EXCEPT !.name = r.name])
      BY <2>2, <2>3 DEF Fits
    <2>. QED
      BY <1>1, <1>3, <1>8, <2>1, <2>4 DEF FindName
  <1>9. CASE FindCategory(c)
    <2> DEFINE r == request[c]
               row == object[c].row
    <2>1. PICK step \in {"insert", "select"} :
            Keep(c, object[c].id, [row EXCEPT !.category = r.category], step)
      BY <1>4, <1>9 DEF FindCategory, AfterCategory, Answer
    <2>2. object[c] \in [id : Ids, row : Row] /\ Fits(object[c].id, row)
      BY <1>0, <1>9 DEF FindCategory, CallShape, HoldsFitting, Carrying
    <2>3. [row EXCEPT !.category = r.category].kind = row.kind
      BY <2>2 DEF Row
    <2>4. Fits(object[c].id, [row EXCEPT !.category = r.category])
      BY <2>2, <2>3 DEF Fits
    <2>. QED
      BY <1>1, <1>3, <1>9, <2>1, <2>4 DEF FindCategory
  <1>10. CASE Select(c)
    <2>1. object' = object /\ pc[c] = "select" /\ pc'[c] \in {"write", "insert"}
      BY <1>10 DEF Select, Goto, TypeInv, CatalogTypeOK
    <2>. QED
      BY <1>0, <1>1, <2>1 DEF HoldsFitting, Carrying
  <1>11. CASE Write(c) \/ Insert(c) \/ Delete(c) \/ Fails(c)
    BY <1>4, <1>11 DEF Write, Insert, Delete, Fails, Saved, Answer
  <1>. QED
    BY <1>2, <1>5, <1>6, <1>7, <1>8, <1>9, <1>10, <1>11 DEF Move, CatalogStep

\* No id changes its kind.
LEMMA KindStays ==
    ASSUME TypeInv, NEW c \in Calls, Move(c), NEW id \in Ids, NEW row, Fits(id, row)
    PROVE  Fits(id, row)'
  <1>1. CASE \E r \in Operation : Start(c, r)
    <2>1. PICK r \in Operation : Start(c, r)
      BY <1>1
    <2>. QED
      BY <2>1 DEF Start, Goto, Fits, KindAt, Ids, TypeInv, CatalogTypeOK
  <1>2. CASE CatalogStep(c) \/ Fails(c)
    <2>1. request' = request
      BY <1>2 DEF CatalogStep, Fails, FindForCreate, FindForUpdate, FindForDelete, FindName,
                  FindCategory, Select, Write, Insert, Delete, Saved, Answer, End, Keep, Proceed,
                  locals
    <2>2. pc[c] # "idle"
      BY <1>2 DEF CatalogStep, Fails, FindForCreate, FindForUpdate, FindForDelete, FindName,
                  FindCategory, Select, Write, Insert, Delete
    <2>3. \A d \in Calls : d # c => pc'[d] = pc[d]
      BY <1>2 DEF CatalogStep, Fails, FindForCreate, FindForUpdate, FindForDelete, FindName,
                  FindCategory, Select, Write, Insert, Delete, Saved, Answer, End, Keep, Proceed,
                  Goto, TypeInv, CatalogTypeOK
    <2>4. pc'[c] # "idle"
      BY <1>2 DEF CatalogStep, Fails, FindForCreate, FindForUpdate, FindForDelete, FindName,
                  FindCategory, Select, Write, Insert, Delete, Saved, Answer, End, Keep, Proceed,
                  AfterName, AfterCategory, Goto, TypeInv, CatalogTypeOK
    <2>. QED
      BY <2>1, <2>2, <2>3, <2>4 DEF Fits, KindAt
  <1>. QED
    BY <1>1, <1>2 DEF Move

\* The others keep what they hold.
LEMMA OthersStay ==
    ASSUME TypeInv, NEW c \in Calls, Move(c), NEW d \in Calls, d # c
    PROVE  pc'[d] = pc[d] /\ object'[d] = object[d] /\ request'[d] = request[d]
  BY DEF Move, CatalogStep, Fails, Start, FindForCreate, FindForUpdate, FindForDelete, FindName,
         FindCategory, Select, Write, Insert, Delete, Saved, Answer, End, Keep, Proceed,
         Goto, locals, TypeInv, CatalogTypeOK

LEMMA MoveFits ==
    ASSUME TypeInv, KindsFit, NEW c \in Calls, Move(c)
    PROVE  KindsFit'
  <1>1. ASSUME NEW id \in Ids, rows'[id] # None PROVE Fits(id, rows[id])'
    <2>1. CASE rows'[id] = rows[id]
      BY <1>1, <2>1, KindStays DEF KindsFit, Fits
    <2>2. CASE \E row \in Row : Puts(id, row)
      <3>1. PICK row \in Row : Puts(id, row)
        BY <2>2
      <3>2. rows'[id] = row
        BY <3>1 DEF Puts, TypeInv, CatalogTypeOK
      <3>. QED
        BY <3>1, <3>2, KindStays DEF Puts, Fits
    <2>. QED
      BY <1>1, <2>1, <2>2, MoveRows DEF Puts, Removes, TypeInv, CatalogTypeOK
  <1>2. ASSUME NEW d \in Calls PROVE HoldsFitting(d)'
    <2>1. CASE d = c
      <3> SUFFICES ASSUME pc'[c] \in Carrying
                   PROVE  /\ Fits(object[c].id, object[c].row)'
                          /\ pc'[c] = "findName" => object'[c].id = request'[c].id
        BY <2>1 DEF HoldsFitting
      <3>1. /\ pc[c] # "idle" /\ object'[c] \in [id : Ids, row : Row]
            /\ Fits(object'[c].id, object'[c].row)
            /\ pc'[c] = "findName" => object'[c].id = request[c].id
        BY MoveHolds
      <3>2. request'[c] = request[c]
        BY <3>1 DEF Move, CatalogStep, Fails, Start, FindForCreate, FindForUpdate, FindForDelete,
                    FindName, FindCategory, Select, Write, Insert, Delete, Saved, Answer, End,
                    Keep, Proceed, locals
      <3>3. PICK id \in Ids, row \in Row : id = object'[c].id /\ row = object'[c].row
        BY <3>1
      <3>4. Fits(id, row)'
        BY <3>1, <3>3, KindStays
      <3>. QED
        BY <3>1, <3>2, <3>3, <3>4 DEF Fits, KindAt
    <2>2. CASE d # c
      <3>1. pc'[d] = pc[d] /\ object'[d] = object[d] /\ request'[d] = request[d]
        BY <2>2, OthersStay
      <3>2. pc[d] \in Carrying => object[d].id \in Ids
        BY DEF TypeInv, CallShape
      <3>. QED
        BY <3>1, <3>2, KindStays DEF KindsFit, HoldsFitting, Fits
    <2>. QED
      BY <2>1, <2>2
  <1>. QED
    BY <1>1, <1>2 DEF KindsFit

\* A write that the constraints let pass, and a deletion they let pass, keep the tables sound.
LEMMA PutIsSound ==
    ASSUME TypeInv, KindsFit, CategoriesExist, NamesDistinct,
           NEW id \in Ids, NEW row \in Row, Puts(id, row)
    PROVE  CategoriesExist' /\ NamesDistinct'
  <1>1. rows \in [Ids -> Row \cup {None}] /\ rows' = [rows EXCEPT ![id] = row]
    BY DEF TypeInv, CatalogTypeOK, Puts
  <1>2. row # None
    BY NullAssumption
  <1>3. rows[id] # None => rows[id].kind = row.kind
    BY DEF KindsFit, Fits, Puts
  <1>4. \A kind : Stored(kind)' = IF row.kind = kind THEN Stored(kind) \cup {id} ELSE Stored(kind)
    BY <1>1, <1>2, <1>3 DEF Stored
  <1>5. CategoriesExist'
    <2> SUFFICES ASSUME NEW p \in Stored("product")'
                 PROVE  rows'[p].category \in Stored("category")'
      BY DEF CategoriesExist
    <2>1. CASE p = id
      BY <1>1, <1>4, <2>1 DEF Puts, Refers, Stored
    <2>2. CASE p # id
      BY <1>1, <1>4, <2>2 DEF CategoriesExist, Stored
    <2>. QED
      BY <2>1, <2>2
  <1>6. NamesDistinct'
    <2> SUFFICES ASSUME NEW kind \in Kinds, NEW a \in Stored(kind)', NEW b \in Stored(kind)', a # b
                 PROVE  rows'[a].name # rows'[b].name
      BY DEF NamesDistinct
    <2>1. a \in Ids /\ b \in Ids
      BY DEF Stored
    <2>2. CASE a # id /\ b # id
      BY <1>1, <1>4, <2>1, <2>2 DEF NamesDistinct
    <2>3. CASE a = id \/ b = id
      <3>1. row.kind = kind
        BY <1>1, <1>2, <2>3 DEF Stored
      <3>. QED
        BY <1>1, <1>4, <2>1, <2>3, <3>1 DEF Puts, Unique
    <2>. QED
      BY <2>2, <2>3
  <1>. QED
    BY <1>5, <1>6

LEMMA RemovalIsSound ==
    ASSUME TypeInv, CategoriesExist, NamesDistinct, NEW id \in Ids, Removes(id)
    PROVE  CategoriesExist' /\ NamesDistinct'
  <1>1. rows \in [Ids -> Row \cup {None}] /\ rows' = [rows EXCEPT ![id] = None]
    BY DEF TypeInv, CatalogTypeOK, Removes
  <1>2. \A kind : Stored(kind)' = Stored(kind) \ {id}
    BY <1>1 DEF Stored
  <1>3. \A p \in Stored("product") : rows[p].category # id
    BY DEF Removes, Referenced
  <1>. QED
    BY <1>1, <1>2, <1>3 DEF CategoriesExist, NamesDistinct, Stored

LEMMA InitSound == Init => CatalogInv
  <1> SUFFICES ASSUME Init PROVE CatalogInv
    OBVIOUS
  <1>1. TypeInv
    BY InitTypes
  <1>2. \A id \in Ids : rows[id] = IF id \in Entries THEN FirstRows[id] ELSE None
    BY DEF Init, CatalogInit
  <1>3. \A id \in Entries : rows[id] \in Row /\ rows[id] # None /\ rows[id] = FirstRows[id]
    BY <1>2, RowsAssumption, NullAssumption DEF Ids
  <1>4. KindsFit
    BY <1>2, <1>3, FreshAssumption
    DEF KindsFit, Fits, KindAt, HoldsFitting, Carrying, Init, CatalogInit, Ids
  <1>5. \A kind : Stored(kind) = {id \in Entries : FirstRows[id].kind = kind}
    BY <1>2, <1>3 DEF Stored, Ids
  <1>6. CategoriesExist
    BY <1>3, <1>5, RowsAssumption DEF CategoriesExist
  <1>7. NamesDistinct
    BY <1>3, <1>5, RowsAssumption DEF NamesDistinct
  <1>. QED
    BY <1>1, <1>4, <1>6, <1>7 DEF CatalogInv

LEMMA NextSound == CatalogInv /\ [Next]_vars => CatalogInv'
  <1> SUFFICES ASSUME CatalogInv, [Next]_vars PROVE CatalogInv'
    OBVIOUS
  <1>1. CASE UNCHANGED catalogVars
    BY <1>1 DEF catalogVars, CatalogInv, TypeInv, CatalogTypeOK, CallShape, Carrying, KindsFit,
                HoldsFitting, Fits, KindAt, CategoriesExist, NamesDistinct, Stored
  <1>2. ASSUME NEW c \in Calls, Move(c) PROVE CatalogInv'
    <2>1. TypeInv'
      BY <1>2, MoveTypes DEF CatalogInv
    <2>2. KindsFit'
      BY <1>2, MoveFits DEF CatalogInv
    <2>3. CASE rows' = rows
      BY <2>1, <2>2, <2>3 DEF CatalogInv, CategoriesExist, NamesDistinct, Stored
    <2>. QED
      BY <1>2, <2>1, <2>2, <2>3, MoveRows, PutIsSound, RemovalIsSound DEF CatalogInv
  <1>. QED
    BY <1>1, <1>2, ServerMoves

\* However lookups, saves and deletions overlap, fail or are cut off by the end of the process,
\* every stored product has its category.
THEOREM CategoriesCorrect == Spec => []CategoriesExist
  <1>1. CatalogInv => CategoriesExist
    BY DEF CatalogInv
  <1>. QED
    BY <1>1, InitSound, NextSound, PTL DEF Spec

\* And no two rows of a table share their name, SKU or code, although every service looks
\* first and writes later.
THEOREM NamesCorrect == Spec => []NamesDistinct
  <1>1. CatalogInv => NamesDistinct
    BY DEF CatalogInv
  <1>. QED
    BY <1>1, InitSound, NextSound, PTL DEF Spec

-----------------------------------------------------------------------------
(* The answers.  Who is refused is refused at once, and nobody else is.    *)

Refusals == {"400", "401", "403"}

Routed(c) == sent[c] # None /\ "route" \in DOMAIN sent[c]

Verdict(r) == Decide(Metadata(r.route.classPublic, r.route.decorators), r.cred)

VerdictStands(c) ==
    /\ sent[c] = None => status[c] = "none"
    /\ Routed(c) => (status[c] \in Refusals <=> Verdict(sent[c]) # "next")

AnswerInv ==
    /\ TypeInv
    /\ sent \in [Calls -> Requests \cup {None}]
    /\ status \in [Calls -> Statuses]
    /\ \A c \in Calls : VerdictStands(c)

LEMMA RequestShape ==
    ASSUME NEW r \in Requests
    PROVE  /\ "health" \in DOMAIN r => "route" \notin DOMAIN r
           /\ "route" \in DOMAIN r =>
                /\ r.route \in Routes /\ r.cred \in Credentials(Stores)
                /\ r.operation \in Operation
  <1>1. CASE r \in [health : HealthRequest]
    <2>1. DOMAIN r = {"health"}
      BY <1>1
    <2>. QED
      BY <2>1
  <1>2. CASE r \in [route : Routes, cred : Credentials(Stores), valid : BOOLEAN, operation : Operation]
    <2>1. DOMAIN r = {"route", "cred", "valid", "operation"}
      BY <1>2
    <2>. QED
      BY <1>2, <2>1
  <1>. QED
    BY <1>1, <1>2, RequestsAssumption DEF HttpRequest

LEMMA VerdictTypes ==
    ASSUME NEW r
    PROVE  Verdict(r) \in {"next"} \cup Refusals
  BY DEF Verdict, Decide, Refusals

\* A call that ends, ends with one of the outcomes that errorHandler knows.
LEMMA EndingKnown ==
    ASSUME TypeInv, NEW c \in Calls, CatalogStep(c) \/ Fails(c), pc'[c] = "done"
    PROVE  outcome'[c] \in {"ok", "notFound", "exists", "failed"}
  <1>1. ASSUME NEW o, End(c, o) PROVE outcome'[c] = o
    BY <1>1 DEF End, TypeInv, CatalogTypeOK
  <1>2. ASSUME NEW step, Goto(c, step) PROVE pc'[c] = step
    BY <1>2 DEF Goto, TypeInv, CatalogTypeOK
  <1>. QED
    BY <1>1, <1>2
    DEF CatalogStep, Fails, FindForCreate, FindForUpdate, FindForDelete, FindName, FindCategory,
        Select, Write, Insert, Delete, Saved, Answer, Keep, Proceed, AfterName, AfterCategory

LEMMA StatusOfKnown ==
    ASSUME NEW o \in {"ok", "notFound", "exists", "failed"}
    PROVE  StatusOf(o) \in Statuses /\ StatusOf(o) \notin Refusals
  BY DEF StatusOf, Statuses, Refusals

\* One call is answered; the others are left alone.
LEMMA RespondKeeps ==
    ASSUME AnswerInv, TypeInv', sent' = sent, NEW c \in Calls, NEW s \in Statuses, Respond(c, s),
           Pending(c), Routed(c) => s \notin Refusals
    PROVE  AnswerInv'
  BY DEF AnswerInv, Respond, Pending, VerdictStands, Routed, Verdict, Refusals

LEMMA ExitKeeps ==
    ASSUME AnswerInv, TypeInv', sent' = sent, NEW code, Exit(code)
    PROVE  AnswerInv'
  <1>1. \A c \in Calls : status'[c] = IF Pending(c) THEN "cut" ELSE status[c]
    BY DEF Exit
  <1>2. status' \in [Calls -> Statuses]
    BY DEF Exit, AnswerInv, Statuses
  <1>3. ASSUME NEW c \in Calls PROVE VerdictStands(c)'
    <2>1. VerdictStands(c) /\ status'[c] = IF Pending(c) THEN "cut" ELSE status[c]
      BY <1>1 DEF AnswerInv
    <2>. QED
      BY <2>1 DEF VerdictStands, Routed, Verdict, Pending, Refusals
  <1>. QED
    BY <1>2, <1>3 DEF AnswerInv

LEMMA NothingKeeps ==
    ASSUME AnswerInv, TypeInv', sent' = sent, status' = status
    PROVE  AnswerInv'
  BY DEF AnswerInv, VerdictStands, Routed, Verdict

LEMMA ReceiveKeeps ==
    ASSUME AnswerInv, TypeInv', NEW c \in Calls, Receive(c)
    PROVE  AnswerInv'
  <1>1. PICK r \in Requests :
            /\ sent' = [sent EXCEPT ![c] = r]
            /\ IF "health" \in DOMAIN r THEN Probe(c, r.health) ELSE Admit(c, r)
    BY DEF Receive
  <1>2. sent[c] = None /\ status[c] = "none"
    BY DEF Receive, AnswerInv, VerdictStands
  <1>3. sent' \in [Calls -> Requests \cup {None}] /\ sent'[c] = r
    BY <1>1 DEF AnswerInv
  <1>4. ASSUME NEW d \in Calls, d # c PROVE sent'[d] = sent[d]
    BY <1>1, <1>4 DEF AnswerInv
  <1>5. CASE "health" \in DOMAIN r
    <2>1. status' = status \/ \E s \in {"2xx", "503"} : Respond(c, s)
      BY <1>1, <1>5 DEF Probe
    <2>2. status' \in [Calls -> Statuses] /\ \A d \in Calls : d # c => status'[d] = status[d]
      BY <2>1 DEF Respond, AnswerInv, Statuses
    <2>3. "route" \notin DOMAIN r
      BY <1>5, RequestShape
    <2>4. VerdictStands(c)'
      BY <1>3, <2>3, RequestsAssumption DEF VerdictStands, Routed
    <2>. QED
      BY <1>3, <1>4, <2>2, <2>4 DEF AnswerInv, VerdictStands, Routed, Verdict
  <1>6. CASE "health" \notin DOMAIN r
    <2>1. \/ Verdict(r) # "next" /\ Respond(c, Verdict(r))
          \/ Verdict(r) = "next" /\ (Respond(c, "500") \/ status' = status)
      BY <1>1, <1>6 DEF Admit, Verdict
    <2>2. Verdict(r) \in {"next"} \cup Refusals
      BY VerdictTypes
    <2>3. status' \in [Calls -> Statuses] /\ \A d \in Calls : d # c => status'[d] = status[d]
      BY <2>1, <2>2 DEF Respond, AnswerInv, Statuses, Refusals
    <2>4. status'[c] \in Refusals <=> Verdict(r) # "next"
      BY <1>2, <2>1, <2>2 DEF Respond, AnswerInv, Refusals
    <2>5. VerdictStands(c)'
      BY <1>3, <2>4, RequestsAssumption DEF VerdictStands, Routed, Verdict
    <2>. QED
      BY <1>3, <1>4, <2>3, <2>5 DEF AnswerInv, VerdictStands, Routed, Verdict
  <1>. QED
    BY <1>5, <1>6

LEMMA InitAnswers == Init => AnswerInv
  BY InitTypes DEF Init, AnswerInv, VerdictStands, Routed, Statuses

LEMMA NextAnswers == AnswerInv /\ [Next]_vars => AnswerInv'
  <1> SUFFICES ASSUME AnswerInv, [Next]_vars PROVE AnswerInv'
    OBVIOUS
  <1>0. TypeInv'
    BY NextTypes DEF AnswerInv
  <1>1. CASE UNCHANGED vars
    BY <1>0, <1>1, NothingKeeps DEF vars, serverVars
  <1>2. CASE Connect
    BY <1>0, <1>2, NothingKeeps, ExitKeeps DEF Connect
  <1>3. CASE Signal
    BY <1>0, <1>3, NothingKeeps, ExitKeeps DEF Signal
  <1>4. CASE Destroyed
    BY <1>0, <1>4, ExitKeeps DEF Destroyed
  <1>5. CASE Listen \/ RedisChanges \/ Finished \/ Stopped
    BY <1>0, <1>5, NothingKeeps DEF Listen, RedisChanges, Finished, Stopped, serverVars
  <1>6. ASSUME NEW c \in Calls, Receive(c) PROVE AnswerInv'
    BY <1>0, <1>6, ReceiveKeeps
  <1>7. ASSUME NEW c \in Calls, Work(c) PROVE AnswerInv'
    <2>1. CASE pc'[c] = "done"
      <3>1. outcome'[c] \in {"ok", "notFound", "exists", "failed"}
        BY <1>7, <2>1, EndingKnown DEF Work, AnswerInv
      <3>. QED
        BY <1>0, <1>7, <2>1, <3>1, StatusOfKnown, RespondKeeps DEF Work
    <2>2. CASE pc'[c] # "done"
      BY <1>0, <1>7, <2>2, NothingKeeps DEF Work
    <2>. QED
      BY <2>1, <2>2
  <1>8. ASSUME NEW c \in Calls, Checked(c) PROVE AnswerInv'
    <2>1. ~Routed(c)
      BY <1>8, RequestShape DEF Checked, Routed, AnswerInv
    <2>2. status' = status \/ \E s \in {"2xx", "503"} : Respond(c, s)
      BY <1>8 DEF Checked, Overall
    <2>3. {"2xx", "503"} \subseteq Statuses
      BY DEF Statuses
    <2>4. Pending(c) /\ sent' = sent
      BY <1>8 DEF Checked
    <2>. QED
      BY <1>0, <2>1, <2>2, <2>3, <2>4, NothingKeeps, RespondKeeps
  <1>. QED
    BY <1>1, <1>2, <1>3, <1>4, <1>5, <1>6, <1>7, <1>8 DEF Next, Step

LEMMA AnswersSuffice == AnswerInv => AdmittedAreEntitled
  <1> SUFFICES ASSUME AnswerInv, NEW c \in Calls, sent[c] # None, "route" \in DOMAIN sent[c]
               PROVE  (status[c] \in {"401", "403", "400"})
                        # Entitled(sent[c].route.classPublic, sent[c].route.decorators, sent[c].cred)
    BY DEF AdmittedAreEntitled
  <1> DEFINE r == sent[c]
             entitled == Entitled(r.route.classPublic, r.route.decorators, r.cred)
  <1>1. r \in Requests
    BY DEF AnswerInv
  <1>2. r.route.classPublic \in BOOLEAN /\ r.route.decorators \in Seq(Decorators)
    BY <1>1, RequestShape, RoutesAssumption
  <1>3. Verdict(r) = "next" <=> entitled
    BY <1>2, DecideIsEntitled DEF Verdict
  <1>4. status[c] \in Refusals <=> Verdict(r) # "next"
    BY DEF AnswerInv, VerdictStands, Routed
  <1>5. status[c] \in {"401", "403", "400"} <=> ~entitled
    <2> HIDE DEF entitled
    <2>. QED
      BY <1>3, <1>4 DEF Refusals
  <1>6. entitled \in BOOLEAN
    BY DEF Entitled
  <1>. QED
    <2> HIDE DEF entitled
    <2>1. (status[c] \in {"401", "403", "400"}) # entitled
      BY <1>5, <1>6
    <2>. QED
      BY <2>1 DEF entitled

\* The middleware's verdict, which is computed from metadata that decorators overwrite one
\* another, is the one the decorators in the source give: who is answered by the operation was
\* entitled to it, and who is turned away was not.
THEOREM AdmittedCorrect == Spec => []AdmittedAreEntitled
  <1>. QED
    BY InitAnswers, NextAnswers, AnswersSuffice, PTL DEF Spec

-----------------------------------------------------------------------------
(* The truth of the answers.                                               *)

AskedOf(c) == sent[c] # None /\ "health" \in DOMAIN sent[c]

\* A create carries what it was asked to store.  An update carries, past the lookup of each
\* column, the value that it was asked for.
Carries(c) ==
    pc[c] \in Carrying =>
        /\ request[c].op \in {"create", "update"}
        /\ pc[c] = "findCategory" => request[c].category \in Ids
        /\ request[c].op = "create" =>
            /\ pc[c] \in {"findCategory", "insert"} /\ object[c].id = c
            /\ object[c].row.name = request[c].name
            /\ object[c].row.category = request[c].category
        /\ request[c].op = "update" =>
            /\ object[c].id = request[c].id
            /\ (pc[c] # "findName" /\ request[c].name # None) =>
                    object[c].row.name = request[c].name
            /\ (pc[c] \notin {"findName", "findCategory"} /\ request[c].category # None) =>
                    object[c].row.category = request[c].category

\* A column that an UPDATE leaves alone had its value when the call looked.
CleanWasSeen(c) ==
    pc[c] = "write" => \A col \in {"name", "category"} \ dirty[c] :
        \E table \in tables[c] :
            table[request[c].id] # None => table[request[c].id][col] = object[c].row[col]

\* Until it is answered, a request has seen the tables as they are, and a health check each
\* service that it found up.
Remembers(c) ==
    status[c] = "none" =>
        /\ request[c] # None => rows \in tables[c]
        /\ CleanWasSeen(c)
        /\ AskedOf(c) => \A s \in Services : check[c][s] = "UP" => s \in alive[c]

Informed(c) ==
    /\ (sent[c] = None \/ AskedOf(c)) => request[c] = None
    /\ alive[c] \subseteq Services
    /\ Carries(c)
    /\ Remembers(c)

TruthInv ==
    /\ AnswerInv
    /\ check \in [Calls -> [Services -> {"unknown", "UP", "DOWN"}]]
    /\ \A c \in Calls : Informed(c)

\* Nobody takes an answer back.
LEMMA StatusStays ==
    ASSUME AnswerInv, [Next]_vars, NEW c \in Calls, status'[c] = "none"
    PROVE  status[c] = "none"
  <1>1. ASSUME NEW code, Exit(code) PROVE status[c] = "none"
    BY <1>1 DEF Exit
  <1>2. ASSUME NEW d \in Calls, NEW s, s # "none", Respond(d, s) PROVE status[c] = "none"
    BY <1>2 DEF Respond, AnswerInv
  <1>3. CASE Connect \/ Listen \/ Signal \/ Destroyed \/ RedisChanges \/ Finished \/ Stopped
    BY <1>1, <1>3 DEF Connect, Listen, Signal, Destroyed, RedisChanges, Finished, Stopped, serverVars
  <1>4. ASSUME NEW d \in Calls, Receive(d) PROVE status[c] = "none"
    <2>1. PICK r \in Requests : IF "health" \in DOMAIN r THEN Probe(d, r.health) ELSE Admit(d, r)
      BY <1>4 DEF Receive
    <2>2. Verdict(r) \in {"next"} \cup Refusals
      BY VerdictTypes
    <2>3. CASE "health" \in DOMAIN r
      BY <1>2, <2>1, <2>3 DEF Probe
    <2>4. CASE "health" \notin DOMAIN r
      <3>1. \/ Verdict(r) # "next" /\ Respond(d, Verdict(r))
            \/ Respond(d, "500")
            \/ status' = status
        BY <2>1, <2>4 DEF Admit, Verdict
      <3>. QED
        BY <1>2, <2>2, <3>1 DEF Refusals
    <2>. QED
      BY <2>3, <2>4
  <1>5. ASSUME NEW d \in Calls, Work(d) PROVE status[c] = "none"
    <2>1. pc'[d] = "done" => StatusOf(outcome'[d]) # "none"
      BY <1>5, EndingKnown DEF Work, AnswerInv, StatusOf
    <2>. QED
      BY <1>2, <1>5, <2>1 DEF Work
  <1>6. ASSUME NEW d \in Calls, Checked(d) PROVE status[c] = "none"
    <2>1. status' = status \/ \E s : s # "none" /\ Respond(d, s)
      BY <1>6 DEF Checked, Overall
    <2>. QED
      BY <1>2, <2>1
  <1>. QED
    BY <1>3, <1>4, <1>5, <1>6 DEF Next, Step, vars, serverVars

\* What an unanswered request sees of a step.
LEMMA Seeing ==
    ASSUME Next, NEW c \in Calls, status[c] = "none"
    PROVE  /\ request'[c] # None => tables'[c] = tables[c] \cup {rows'}
           /\ AskedOf(c)' => alive'[c] = alive[c] \cup {s \in Services :
                    IF s = "redis" THEN redis' = "ready" ELSE Initialized'}
  <1>1. Observe
    BY DEF Next
  <1>. QED
    BY <1>1 DEF Observe, AskedOf

LEMMA AliveAreServices ==
    ASSUME Next, NEW c \in Calls, alive[c] \subseteq Services
    PROVE  alive'[c] \subseteq Services
  <1>1. Observe
    BY DEF Next
  <1>. QED
    BY <1>1 DEF Observe

\* A call that the step is not about.
LEMMA BystanderInformed ==
    ASSUME TruthInv, Next, NEW d \in Calls,
           sent'[d] = sent[d], check'[d] = check[d], request'[d] = request[d], pc'[d] = pc[d],
           object'[d] = object[d], dirty'[d] = dirty[d]
    PROVE  Informed(d)'
  <1>1. Informed(d) /\ alive'[d] \subseteq Services
    BY AliveAreServices DEF TruthInv, Informed
  <1>2. Carries(d)'
    BY <1>1 DEF Informed, Carries
  <1>3. ASSUME status'[d] = "none" PROVE Remembers(d)'
    <2>1. status[d] = "none"
      BY <1>3, StatusStays DEF TruthInv
    <2>2. Remembers(d)
      BY <1>1 DEF Informed
    <2>3. request[d] # None => tables'[d] = tables[d] \cup {rows'}
      BY <2>1, Seeing
    <2>4. CleanWasSeen(d)'
      <3>1. pc[d] = "write" => request[d] # None
        BY NullAssumption DEF TruthInv, AnswerInv, TypeInv, CallShape
      <3>. QED
        BY <2>1, <2>2, <2>3, <3>1 DEF Remembers, CleanWasSeen
    <2>5. AskedOf(d)' => \A s \in Services : check'[d][s] = "UP" => s \in alive'[d]
      <3>1. AskedOf(d)' <=> AskedOf(d)
        BY DEF AskedOf
      <3>. QED
        BY <2>1, <2>2, <3>1, Seeing DEF Remembers
    <2>. QED
      BY <1>3, <2>3, <2>4, <2>5 DEF Remembers
  <1>4. Remembers(d)'
    BY <1>3 DEF Remembers
  <1>. QED
    BY <1>1, <1>2, <1>4 DEF Informed, AskedOf

\* What a step of the catalog does to its call and to the others.
LEMMA WorkKeeps ==
    ASSUME AnswerInv, NEW c \in Calls, CatalogStep(c) \/ Fails(c)
    PROVE  /\ pc[c] \notin {"idle", "done"} /\ request[c] \in Operation /\ request' = request
           /\ \A d \in Calls : d # c => /\ pc'[d] = pc[d] /\ object'[d] = object[d]
                                        /\ dirty'[d] = dirty[d]
  BY DEF CatalogStep, Fails, FindForCreate, FindForUpdate, FindForDelete, FindName,
         FindCategory, Select, Write, Insert, Delete, Saved, Answer, End, Keep, Proceed,
         Goto, locals, AnswerInv, TypeInv, CatalogTypeOK, CallShape

LEMMA WorkCarries ==
    ASSUME TruthInv, NEW c \in Calls, CatalogStep(c) \/ Fails(c)
    PROVE  Carries(c)'
  <1> DEFINE r == request[c]
  <1>0. /\ AnswerInv /\ TypeInv /\ CatalogTypeOK /\ CallShape(c) /\ Carries(c)
        /\ r \in Operation /\ request' = request
    BY WorkKeeps DEF TruthInv, Informed, AnswerInv, TypeInv
  <1>1. ASSUME pc'[c] \notin Carrying PROVE Carries(c)'
    BY <1>1 DEF Carries
  <1>2. ASSUME NEW o, End(c, o) PROVE Carries(c)'
    BY <1>0, <1>1, <1>2 DEF End, CatalogTypeOK, Carrying
  <1>3. ASSUME NEW o, Answer(c, o) PROVE Carries(c)'
    BY <1>2, <1>3 DEF Answer
  <1>4. ASSUME NEW id, NEW row, NEW step, Keep(c, id, row, step)
        PROVE  object'[c].id = id /\ object'[c].row = row /\ pc'[c] = step
    BY <1>0, <1>4 DEF Keep, Goto, CatalogTypeOK
  <1>5. CASE FindForCreate(c)
    <2> DEFINE new == [kind |-> r.kind, name |-> r.name, category |-> r.category]
    <2>1. CASE Answer(c, "exists")
      BY <1>3, <2>1
    <2>2. CASE ~Answer(c, "exists")
      <3>1. Keep(c, c, new, IF r.kind = "product" THEN "findCategory" ELSE "insert")
        BY <1>5, <2>2 DEF FindForCreate
      <3>2. r.op = "create" /\ (r.kind = "product" => r.category \in Ids)
        BY <1>0, <1>5 DEF FindForCreate, Operation
      <3>3. /\ object'[c].id = c /\ object'[c].row = new
            /\ pc'[c] = IF r.kind = "product" THEN "findCategory" ELSE "insert"
        BY <1>4, <3>1
      <3>. QED
        BY <1>0, <3>2, <3>3 DEF Carries
    <2>. QED
      BY <2>1, <2>2
  <1>6. CASE FindForUpdate(c)
    <2>1. CASE Answer(c, "notFound")
      BY <1>3, <2>1
    <2>2. CASE ~Answer(c, "notFound")
      <3> DEFINE step == IF NewName(r, rows[r.id]) THEN "findName" ELSE AfterName(r, rows[r.id])
      <3>1. Keep(c, r.id, rows[r.id], step)
        BY <1>6, <2>2 DEF FindForUpdate
      <3>2. r.op = "update" /\ r.category \in Ids \cup {None}
        BY <1>0, <1>6, OperationTypes DEF FindForUpdate
      <3>3. object'[c].id = r.id /\ object'[c].row = rows[r.id] /\ pc'[c] = step
        BY <1>4, <3>1
      <3>4. /\ step # "findName" => r.name \in {None, rows[r.id].name}
            /\ step \notin {"findName", "findCategory"} => r.category \in {None, rows[r.id].category}
            /\ step = "findCategory" => r.category # None
        BY DEF NewName, AfterName, NewCategory
      <3> HIDE DEF step
      <3>. QED
        BY <1>0, <3>2, <3>3, <3>4 DEF Carries
    <2>. QED
      BY <2>1, <2>2
  <1>7. CASE FindName(c)
    <2> DEFINE row == object[c].row
    <2>1. CASE Answer(c, "exists")
      BY <1>3, <2>1
    <2>2. CASE ~Answer(c, "exists")
      <3> DEFINE step == AfterName(r, row)
                 new == [row EXCEPT !.name = r.name]
      <3>1. Keep(c, r.id, new, step)
        BY <1>7, <2>2 DEF FindName
      <3>2. r.op = "update" /\ r.category \in Ids \cup {None} /\ row \in Row
        BY <1>0, <1>7, OperationTypes DEF FindName, CallShape, Carrying
      <3>3. object'[c].id = r.id /\ object'[c].row = new /\ pc'[c] = step
        BY <1>4, <3>1
      <3>4. new.name = r.name /\ new.category = row.category
        BY <3>2 DEF Row
      <3>5. /\ step # "findName"
            /\ step # "findCategory" => r.category \in {None, row.category}
            /\ step = "findCategory" => r.category # None
        BY DEF AfterName, NewCategory
      <3> HIDE DEF step, new
      <3>. QED
        BY <1>0, <3>2, <3>3, <3>4, <3>5 DEF Carries
    <2>. QED
      BY <2>1, <2>2
  <1>8. CASE FindCategory(c)
    <2> DEFINE row == object[c].row
    <2>1. CASE Answer(c, "notFound")
      BY <1>3, <2>1
    <2>2. CASE ~Answer(c, "notFound")
      <3> DEFINE step == AfterCategory(r)
                 new == [row EXCEPT !.category = r.category]
      <3>1. Keep(c, object[c].id, new, step)
        BY <1>8, <2>2 DEF FindCategory
      <3>2. pc[c] = "findCategory" /\ row \in Row
        BY <1>0, <1>8 DEF FindCategory, CallShape, Carrying
      <3>3. object'[c].id = object[c].id /\ object'[c].row = new /\ pc'[c] = step
        BY <1>4, <3>1
      <3>4. new.name = row.name /\ new.category = r.category
        BY <3>2 DEF Row
      <3>5. step = IF r.op = "create" THEN "insert" ELSE "select"
        BY DEF AfterCategory
      <3> HIDE DEF step, new
      <3>. QED
        BY <1>0, <3>2, <3>3, <3>4, <3>5 DEF Carries, Carrying
    <2>. QED
      BY <2>1, <2>2
  <1>9. CASE Select(c)
    <2>1. object' = object /\ pc[c] = "select" /\ pc'[c] \in {"write", "insert"}
      BY <1>0, <1>9 DEF Select, Goto, CatalogTypeOK
    <2>. QED
      BY <1>0, <2>1 DEF Carries, Carrying
  <1>10. CASE FindForDelete(c)
    BY <1>0, <1>1, <1>3, <1>10 DEF FindForDelete, Proceed, Goto, CatalogTypeOK, Carrying
  <1>11. CASE Write(c) \/ Insert(c) \/ Delete(c) \/ Fails(c)
    BY <1>2, <1>3, <1>11 DEF Write, Insert, Delete, Fails, Saved
  <1>. QED
    BY <1>5, <1>6, <1>7, <1>8, <1>9, <1>10, <1>11 DEF CatalogStep

\* The comparison is made with the row as it is.
LEMMA SelectSeen ==
    ASSUME TruthInv, Next, NEW c \in Calls, CatalogStep(c) \/ Fails(c), status[c] = "none",
           rows' \in tables'[c]
    PROVE  CleanWasSeen(c)'
  <1> SUFFICES ASSUME pc'[c] = "write" PROVE CleanWasSeen(c)'
    BY DEF CleanWasSeen
  <1>0. AnswerInv /\ CatalogTypeOK /\ CallShape(c) /\ Carries(c) /\ request' = request
    BY WorkKeeps DEF TruthInv, Informed, AnswerInv, TypeInv
  <1>1. ASSUME NEW step, Goto(c, step) PROVE step = "write"
    BY <1>0, <1>1 DEF Goto, CatalogTypeOK
  <1>2. ASSUME NEW o, End(c, o) PROVE FALSE
    BY <1>0, <1>2 DEF End, CatalogTypeOK
  <1>3. Select(c)
    BY <1>1, <1>2
    DEF CatalogStep, Fails, FindForCreate, FindForUpdate, FindForDelete, FindName, FindCategory,
        Write, Insert, Delete, Saved, Answer, Keep, Proceed, AfterName, AfterCategory
  <1> DEFINE id == object[c].id
  <1>4. /\ pc[c] = "select" /\ object' = object /\ rows' = rows
        /\ dirty' = [dirty EXCEPT ![c] = {col \in Columns : object[c].row[col] # rows[id][col]}]
    BY <1>1, <1>3 DEF Select
  <1>5. dirty'[c] = {col \in Columns : object[c].row[col] # rows[id][col]}
    BY <1>0, <1>4 DEF CatalogTypeOK
  <1>6. id = request[c].id
    BY <1>0, <1>4 DEF Carries, Carrying
  <1>7. \A col \in {"name", "category"} \ dirty'[c] : rows'[request[c].id][col] = object[c].row[col]
    BY <1>4, <1>5, <1>6 DEF Columns
  <1>. QED
    BY <1>0, <1>4, <1>7 DEF CleanWasSeen

LEMMA WorkInformed ==
    ASSUME TruthInv, Next, NEW c \in Calls, Work(c)
    PROVE  \A d \in Calls : Informed(d)'
  <1>0. AnswerInv /\ (CatalogStep(c) \/ Fails(c)) /\ status[c] = "none"
    BY DEF TruthInv, Work, Pending
  <1>1. sent' = sent /\ check' = check
    BY DEF Work
  <1>2. ASSUME NEW d \in Calls, d # c PROVE Informed(d)'
    BY <1>0, <1>1, <1>2, WorkKeeps, BystanderInformed
  <1>3. request[c] # None /\ request' = request /\ Informed(c)
    BY <1>0, WorkKeeps, NullAssumption DEF TruthInv
  <1>4. rows' \in tables'[c]
    BY <1>0, <1>3, Seeing
  <1>5. ~AskedOf(c)' /\ sent'[c] # None /\ alive'[c] \subseteq Services
    BY <1>1, <1>3, AliveAreServices DEF Informed, AskedOf
  <1>6. Carries(c)' /\ CleanWasSeen(c)'
    BY <1>0, <1>4, WorkCarries, SelectSeen
  <1>7. Informed(c)'
    BY <1>4, <1>5, <1>6 DEF Informed, Remembers
  <1>. QED
    BY <1>2, <1>7

\* A health check begins with what is known to be down, and knows nothing to be up.
LEMMA ProbeInformed ==
    ASSUME TruthInv, Next, NEW c \in Calls, Receive(c), "health" \in DOMAIN sent'[c]
    PROVE  /\ check' \in [Calls -> [Services -> {"unknown", "UP", "DOWN"}]]
           /\ \A d \in Calls : Informed(d)'
  <1>0. AnswerInv /\ Informed(c) /\ sent[c] = None /\ status[c] = "none"
    BY DEF TruthInv, Receive, AnswerInv, VerdictStands
  <1>1. PICK r \in Requests :
            /\ sent' = [sent EXCEPT ![c] = r]
            /\ IF "health" \in DOMAIN r
               THEN Probe(c, r.health)
               ELSE Admit(c, r) /\ UNCHANGED check
    BY DEF Receive
  <1>2. sent'[c] = r /\ \A d \in Calls : d # c => sent'[d] = sent[d]
    BY <1>0, <1>1 DEF AnswerInv
  <1>3. Probe(c, r.health)
    BY <1>1, <1>2
  <1>4. UNCHANGED catalogVars /\ UNCHANGED <<rows, request, pc, object, dirty>>
    BY <1>3 DEF Probe, catalogVars
  <1> DEFINE known == [s \in Services |-> IF s = "redis" /\ redis # "ready" THEN "DOWN" ELSE "unknown"]
  <1>5. \/ check' = check /\ \E s \in {"2xx", "503"} : Respond(c, s)
        \/ check' = [check EXCEPT ![c] = known]
    BY <1>3 DEF Probe
  <1>6. known \in [Services -> {"unknown", "DOWN"}]
    OBVIOUS
  <1>7. /\ check' \in [Calls -> [Services -> {"unknown", "UP", "DOWN"}]]
        /\ \A d \in Calls : d # c => check'[d] = check[d]
    <2> HIDE DEF known
    <2>. QED
      BY <1>5, <1>6 DEF TruthInv
  <1>8. status'[c] = "none" => \A s \in Services : check'[c][s] # "UP"
    <2> HIDE DEF known
    <2>1. ASSUME NEW s \in {"2xx", "503"}, Respond(c, s) PROVE status'[c] # "none"
      BY <1>0, <2>1 DEF Respond, AnswerInv
    <2>2. CASE check' = [check EXCEPT ![c] = known]
      <3>1. check'[c] = known
        BY <2>2 DEF TruthInv
      <3>. QED
        BY <1>6, <3>1
    <2>. QED
      BY <1>5, <2>1, <2>2
  <1>9. ASSUME NEW d \in Calls, d # c PROVE Informed(d)'
    BY <1>2, <1>4, <1>7, <1>9, BystanderInformed
  <1>10. Informed(c)'
    <2>1. request[c] = None /\ alive'[c] \subseteq Services
      BY <1>0, AliveAreServices DEF Informed
    <2>2. pc'[c] = "idle"
      BY <1>0, <1>4, <2>1, NullAssumption DEF AnswerInv, TypeInv, CallShape
    <2>3. Carries(c)' /\ CleanWasSeen(c)'
      BY <2>2 DEF Carries, CleanWasSeen, Carrying
    <2>. QED
      BY <1>4, <1>8, <2>1, <2>3 DEF Informed, Remembers
  <1>. QED
    BY <1>7, <1>9, <1>10

LEMMA AdmitInformed ==
    ASSUME TruthInv, Next, NEW c \in Calls, Receive(c), "health" \notin DOMAIN sent'[c]
    PROVE  check' = check /\ \A d \in Calls : Informed(d)'
  <1>0. AnswerInv /\ CatalogTypeOK /\ Informed(c) /\ sent[c] = None /\ status[c] = "none"
    BY DEF TruthInv, Receive, AnswerInv, VerdictStands, TypeInv
  <1>1. PICK r \in Requests :
            /\ sent' = [sent EXCEPT ![c] = r]
            /\ IF "health" \in DOMAIN r
               THEN Probe(c, r.health)
               ELSE Admit(c, r) /\ UNCHANGED check
    BY DEF Receive
  <1>2. sent'[c] = r /\ \A d \in Calls : d # c => sent'[d] = sent[d]
    BY <1>0, <1>1 DEF AnswerInv
  <1>3. Admit(c, r) /\ check' = check
    BY <1>1, <1>2
  <1>4. request[c] = None /\ pc[c] = "idle" /\ alive'[c] \subseteq Services
    BY <1>0, AliveAreServices, NullAssumption DEF Informed, AnswerInv, TypeInv, CallShape
  <1>5. sent'[c] # None /\ ~AskedOf(c)'
    BY <1>2, RequestsAssumption DEF AskedOf
  <1>6. ASSUME NEW d \in Calls, d # c PROVE Informed(d)'
    <2>1. pc'[d] = pc[d] /\ object'[d] = object[d] /\ request'[d] = request[d] /\ dirty'[d] = dirty[d]
      BY <1>0, <1>3, <1>6 DEF Admit, Start, Goto, locals, catalogVars, CatalogTypeOK
    <2>. QED
      BY <1>2, <1>3, <1>6, <2>1, BystanderInformed
  <1>7. Informed(c)'
    <2>1. pc'[c] \in {"idle", "start"}
      BY <1>0, <1>3, <1>4 DEF Admit, Start, Goto, catalogVars, CatalogTypeOK
    <2>2. request'[c] # None => rows' \in tables'[c]
      BY <1>0, Seeing
    <2>3. Carries(c)' /\ CleanWasSeen(c)'
      BY <2>1 DEF Carries, CleanWasSeen, Carrying
    <2>. QED
      BY <1>4, <1>5, <2>2, <2>3 DEF Informed, Remembers
  <1>. QED
    BY <1>3, <1>6, <1>7

\* What a health check learns, it sees.
LEMMA CheckedInformed ==
    ASSUME TruthInv, Next, NEW c \in Calls, Checked(c)
    PROVE  /\ check' \in [Calls -> [Services -> {"unknown", "UP", "DOWN"}]]
           /\ \A d \in Calls : Informed(d)'
           /\ \A s \in Services : check'[c][s] = "UP" => s \in alive'[c]
  <1>0. /\ AnswerInv /\ Informed(c) /\ Remembers(c) /\ status[c] = "none" /\ AskedOf(c)
        /\ sent' = sent /\ UNCHANGED catalogVars /\ redis' = redis /\ pool' = pool
    BY DEF TruthInv, Informed, Checked, Pending, AskedOf
  <1>1. PICK t \in Services, found \in {"UP", "DOWN"} :
            /\ found = "UP" => IF t = "redis" THEN redis = "ready" ELSE pool = "open"
            /\ check' = [check EXCEPT ![c][t] = found]
    BY DEF Checked
  <1>2. /\ check' \in [Calls -> [Services -> {"unknown", "UP", "DOWN"}]]
        /\ \A d \in Calls : d # c => check'[d] = check[d]
        /\ check'[c][t] = found
        /\ \A s \in Services \ {t} : check'[c][s] = check[c][s]
    BY <1>1 DEF TruthInv
  <1>3. alive'[c] = alive[c] \cup {s \in Services : IF s = "redis" THEN redis' = "ready" ELSE Initialized'}
    <2>1. AskedOf(c)'
      BY <1>0 DEF AskedOf
    <2>. QED
      BY <1>0, <2>1, Seeing
  <1>4. \A s \in Services : check'[c][s] = "UP" => s \in alive'[c]
    <2>1. ASSUME NEW s \in Services, s # t, check'[c][s] = "UP" PROVE s \in alive'[c]
      <3>1. s \in alive[c]
        BY <1>0, <1>2, <2>1 DEF Remembers
      <3>. QED
        BY <1>3, <3>1
    <2>2. ASSUME found = "UP" PROVE t \in alive'[c]
      BY <1>0, <1>1, <1>3, <2>2 DEF Initialized
    <2>. QED
      BY <1>2, <2>1, <2>2
  <1>5. UNCHANGED <<rows, request, pc, object, dirty>>
    BY <1>0 DEF catalogVars
  <1>6. ASSUME NEW d \in Calls, d # c PROVE Informed(d)'
    BY <1>0, <1>2, <1>5, <1>6, BystanderInformed
  <1>7. Informed(c)'
    <2>1. request[c] = None /\ alive'[c] \subseteq Services
      BY <1>0, AliveAreServices DEF Informed
    <2>2. pc'[c] = "idle"
      BY <1>0, <1>5, <2>1, NullAssumption DEF AnswerInv, TypeInv, CallShape
    <2>3. Carries(c)' /\ CleanWasSeen(c)'
      BY <2>2 DEF Carries, CleanWasSeen, Carrying
    <2>. QED
      BY <1>4, <1>5, <2>1, <2>3 DEF Informed, Remembers
  <1>. QED
    BY <1>2, <1>4, <1>6, <1>7

LEMMA InitTruth == Init => TruthInv
  <1> SUFFICES ASSUME Init PROVE TruthInv
    OBVIOUS
  <1>1. AnswerInv
    BY InitAnswers
  <1>2. \A c \in Calls : /\ sent[c] = None /\ request[c] = None /\ pc[c] = "idle" /\ alive[c] = {}
    BY DEF Init, CatalogInit
  <1>3. check \in [Calls -> [Services -> {"unknown", "UP", "DOWN"}]]
    BY DEF Init
  <1>. QED
    BY <1>1, <1>2, <1>3 DEF TruthInv, Informed, Carries, Carrying, Remembers, CleanWasSeen, AskedOf

LEMMA NextTruth == TruthInv /\ [Next]_vars => TruthInv'
  <1> SUFFICES ASSUME TruthInv, [Next]_vars PROVE TruthInv'
    OBVIOUS
  <1>0. AnswerInv'
    BY NextAnswers DEF TruthInv
  <1>1. CASE UNCHANGED vars
    BY <1>0, <1>1 DEF vars, serverVars, catalogVars, TruthInv, Informed, Carries, Remembers,
                      CleanWasSeen, AskedOf
  <1>2. CASE Next /\ UNCHANGED catalogVars /\ UNCHANGED <<sent, check>>
    <2>1. UNCHANGED <<rows, request, pc, object, dirty>>
      BY <1>2 DEF catalogVars
    <2>. QED
      BY <1>0, <1>2, <2>1, BystanderInformed DEF TruthInv
  <1>3. ASSUME Next, NEW c \in Calls, Receive(c) PROVE TruthInv'
    BY <1>0, <1>3, ProbeInformed, AdmitInformed DEF TruthInv
  <1>4. ASSUME Next, NEW c \in Calls, Work(c) PROVE TruthInv'
    <2>1. check' = check
      BY <1>4 DEF Work
    <2>. QED
      BY <1>0, <1>4, <2>1, WorkInformed DEF TruthInv
  <1>5. ASSUME Next, NEW c \in Calls, Checked(c) PROVE TruthInv'
    BY <1>0, <1>5, CheckedInformed DEF TruthInv
  <1>6. CASE Next /\ (Connect \/ Listen \/ Signal \/ Destroyed \/ RedisChanges \/ Finished \/ Stopped)
    BY <1>2, <1>6 DEF Connect, Listen, Signal, Destroyed, RedisChanges, Finished, Stopped, serverVars
  <1>. QED
    BY <1>1, <1>3, <1>4, <1>5, <1>6 DEF Next, Step

\* An UPDATE or an INSERT that took effect, for each column that was asked for.
LEMMA UpdateDone ==
    ASSUME TruthInv, NEW c \in Calls, Write(c) \/ Insert(c), outcome'[c] = "ok",
           status[c] = "none", request' = request, tables'[c] = tables[c] \cup {rows'},
           request[c].op = "update", NEW col \in {"name", "category"}, request[c][col] # None
    PROVE  \E table \in tables'[c] :
                table[request[c].id] # None => table[request[c].id][col] = request[c][col]
  <1> DEFINE id == object[c].id
             stays == Updated(rows[id], object[c].row, dirty[c])
  <1>0. /\ CatalogTypeOK /\ CallShape(c) /\ Carries(c) /\ CleanWasSeen(c)
        /\ pc[c] \in {"write", "insert"}
    BY DEF TruthInv, Informed, Remembers, AnswerInv, TypeInv, Write, Insert
  <1>1. /\ id = request[c].id /\ id \in Ids /\ object[c].row[col] = request[c][col]
    BY <1>0 DEF Carries, Carrying, CallShape
  <1>2. ASSUME NEW row, Saved(c, id, row) PROVE rows'[id] = row
    BY <1>0, <1>1, <1>2 DEF Saved, Answer, End, CatalogTypeOK
  <1>3. ASSUME NEW o, Answer(c, o) PROVE o = "ok" /\ rows' = rows
    BY <1>0, <1>3 DEF Answer, End, CatalogTypeOK
  <1>4. CASE Insert(c)
    <2>1. rows'[id] = object[c].row
      BY <1>2, <1>3, <1>4 DEF Insert
    <2>. QED
      BY <1>1, <2>1
  <1>5. CASE Write(c) /\ rows[id] = None
    BY <1>1, <1>3, <1>5 DEF Write
  <1>6. CASE Write(c) /\ rows[id] # None
    <2>1. rows'[id] = stays
      BY <1>2, <1>6 DEF Write
    <2>2. CASE col \in dirty[c]
      <3>1. stays[col] = object[c].row[col]
        BY <2>2 DEF Updated
      <3>. QED
        BY <1>1, <2>1, <3>1
    <2>3. CASE col \notin dirty[c]
      <3>1. \E table \in tables[c] :
                table[request[c].id] # None => table[request[c].id][col] = object[c].row[col]
        BY <1>0, <1>6, <2>3 DEF CleanWasSeen, Write
      <3>. QED
        BY <1>1, <3>1
    <2>. QED
      BY <2>2, <2>3
  <1>. QED
    BY <1>4, <1>5, <1>6

\* How an operation ends, it can vouch for.
LEMMA WorkTrue ==
    ASSUME TruthInv, Next, NEW c \in Calls, Work(c), pc'[c] = "done"
    PROVE  /\ outcome'[c] = "ok" => Done(c, request[c])'
           /\ outcome'[c] = "notFound" => Missing(c, request[c])'
           /\ outcome'[c] = "exists" => NameTaken(c, request[c])'
  <1> DEFINE r == request[c]
  <1>0. /\ AnswerInv /\ TypeInv /\ CatalogTypeOK /\ CallShape(c) /\ Carries(c)
        /\ status[c] = "none" /\ (CatalogStep(c) \/ Fails(c))
    BY DEF TruthInv, Informed, AnswerInv, TypeInv, Work, Pending
  <1>1. r \in Operation /\ request' = request /\ r # None
    BY <1>0, WorkKeeps, NullAssumption
  <1>2. tables'[c] = tables[c] \cup {rows'}
    BY <1>0, <1>1, Seeing
  <1>3. ASSUME NEW step, Goto(c, step) PROVE step = "done"
    BY <1>0, <1>3 DEF Goto, CatalogTypeOK
  <1>4. ASSUME NEW o, End(c, o) PROVE outcome'[c] = o
    BY <1>0, <1>4 DEF End, CatalogTypeOK
  <1>5. ASSUME NEW o, Answer(c, o) PROVE outcome'[c] = o /\ rows' = rows
    BY <1>4, <1>5 DEF Answer
  <1>6. ASSUME outcome'[c] = "failed"
        PROVE  outcome'[c] \notin {"ok", "notFound", "exists"}
    BY <1>6
  <1>7. CASE FindForCreate(c)
    <2>1. Taken(r.kind, r.name) /\ outcome'[c] = "exists" /\ rows' = rows
      BY <1>3, <1>5, <1>7 DEF FindForCreate, Keep
    <2>2. NameTaken(c, request[c])'
      BY <1>1, <1>2, <2>1 DEF NameTaken, Taken, Stored
    <2>. QED
      BY <2>1, <2>2
  <1>8. CASE FindForUpdate(c)
    <2>1. r.id \notin Stored(r.kind) /\ outcome'[c] = "notFound" /\ rows' = rows /\ r.op = "update"
      BY <1>3, <1>5, <1>8 DEF FindForUpdate, Keep, AfterName
    <2>2. r.id \in Ids
      BY <1>1, <2>1, OperationTypes
    <2>3. Missing(c, request[c])'
      BY <1>1, <1>2, <2>1, <2>2 DEF Missing, Stored
    <2>. QED
      BY <2>1, <2>3
  <1>9. CASE FindForDelete(c)
    <2>1. r.op \in {"delete", "get"} /\ r.id \in Ids
      BY <1>1, <1>9 DEF FindForDelete, Operation
    <2>2. CASE r.id \notin Stored(r.kind)
      <3>1. outcome'[c] = "notFound" /\ rows' = rows
        BY <1>5, <1>9, <2>2 DEF FindForDelete
      <3>2. Missing(c, request[c])'
        BY <1>1, <1>2, <2>1, <2>2, <3>1 DEF Missing, Stored
      <3>. QED
        BY <3>1, <3>2
    <2>3. CASE r.id \in Stored(r.kind)
      <3>1. outcome'[c] = "ok" /\ rows' = rows /\ r.op = "get"
        BY <1>3, <1>5, <1>9, <2>3 DEF FindForDelete, Proceed
      <3>2. Done(c, request[c])'
        BY <1>1, <1>2, <2>3, <3>1 DEF Done, Stored
      <3>. QED
        BY <3>1, <3>2
    <2>. QED
      BY <2>2, <2>3
  <1>10. CASE FindName(c)
    <2>1. Taken(r.kind, r.name) /\ outcome'[c] = "exists" /\ rows' = rows
      BY <1>3, <1>5, <1>10 DEF FindName, Keep, AfterName
    <2>2. NameTaken(c, request[c])'
      BY <1>1, <1>2, <2>1 DEF NameTaken, Taken, Stored
    <2>. QED
      BY <2>1, <2>2
  <1>11. CASE FindCategory(c)
    <2>1. r.category \notin Stored("category") /\ outcome'[c] = "notFound" /\ rows' = rows
      BY <1>3, <1>5, <1>11 DEF FindCategory, Keep, AfterCategory
    <2>2. r.category \in Ids /\ r.op \in {"create", "update"}
      BY <1>0, <1>11 DEF FindCategory, Carries, Carrying
    <2>3. Missing(c, request[c])'
      BY <1>1, <1>2, <2>1, <2>2, FreshAssumption DEF Missing, Stored
    <2>. QED
      BY <2>1, <2>3
  <1>12. CASE Write(c) \/ Insert(c)
    <2>1. outcome'[c] \in {"ok", "failed"}
      BY <1>4, <1>5, <1>12 DEF Write, Insert, Saved
    <2>2. ASSUME outcome'[c] = "ok" PROVE Done(c, request[c])'
      <3>1. CASE r.op = "create"
        <4>1. Insert(c) /\ object[c].id = c /\ object[c].row \in Row
          BY <1>0, <1>12, <3>1 DEF Carries, Carrying, CallShape, Write, Insert
        <4>2. rows'[c] = object[c].row
          BY <1>0, <1>5, <2>2, <4>1 DEF Insert, Saved, CatalogTypeOK, Ids
        <4>3. rows'[c] # None /\ rows'[c].name = r.name /\ rows'[c].category = r.category
          BY <1>0, <3>1, <4>1, <4>2, NullAssumption DEF Carries, Carrying, Insert
        <4>. QED
          BY <1>1, <1>2, <3>1, <4>3 DEF Done
      <3>2. CASE r.op = "update"
        <4>1. \A col \in {"name", "category"} : r[col] # None =>
                    \E table \in tables'[c] : table[r.id] # None => table[r.id][col] = r[col]
          BY <1>0, <1>1, <1>2, <1>12, <2>2, <3>2, UpdateDone
        <4>. QED
          BY <1>1, <3>2, <4>1 DEF Done
      <3>. QED
        BY <1>0, <1>12, <3>1, <3>2 DEF Carries, Carrying, Write, Insert
    <2>. QED
      BY <2>1, <2>2
  <1>13. CASE Delete(c)
    <2>1. r.op = "delete" /\ r.id \in Ids
      BY <1>0, <1>1, <1>13, OperationTypes DEF Delete, CallShape
    <2>2. outcome'[c] \in {"ok", "failed"}
      BY <1>4, <1>5, <1>13 DEF Delete
    <2>3. ASSUME outcome'[c] = "ok" PROVE Done(c, request[c])'
      <3>1. rows'[r.id] = None
        BY <1>0, <1>5, <1>13, <2>1, <2>3 DEF Delete, CatalogTypeOK
      <3>. QED
        BY <1>1, <1>2, <2>1, <3>1 DEF Done
    <2>. QED
      BY <2>2, <2>3
  <1>14. CASE Fails(c)
    BY <1>5, <1>14 DEF Fails
  <1>15. CASE Select(c)
    BY <1>3, <1>15 DEF Select
  <1>. QED
    BY <1>0, <1>7, <1>8, <1>9, <1>10, <1>11, <1>12, <1>13, <1>14, <1>15 DEF CatalogStep

LEMMA ReceiveTrue ==
    ASSUME TruthInv, Next, NEW c \in Calls, Receive(c), status'[c] # "none"
    PROVE  TrueAnswer(c)'
  <1>0. AnswerInv /\ Informed(c) /\ sent[c] = None /\ status[c] = "none" /\ request[c] = None
    BY DEF TruthInv, Receive, Informed, AnswerInv, VerdictStands
  <1>1. PICK r \in Requests :
            /\ sent' = [sent EXCEPT ![c] = r]
            /\ IF "health" \in DOMAIN r THEN Probe(c, r.health) ELSE Admit(c, r)
    BY DEF Receive
  <1>2. sent'[c] = r
    BY <1>0, <1>1 DEF AnswerInv
  <1>3. ASSUME NEW s, Respond(c, s) PROVE status'[c] = s
    BY <1>0, <1>3 DEF Respond, AnswerInv
  <1>4. CASE "health" \in DOMAIN r
    <2>1. request'[c] = None
      BY <1>0, <1>1, <1>4 DEF Probe, catalogVars
    <2>2. status'[c] = IF Initialized /\ redis = "ready" THEN "2xx" ELSE "503"
      BY <1>0, <1>1, <1>3, <1>4 DEF Probe
    <2>3. redis' = redis /\ pool' = pool
      BY DEF Receive
    <2>4. ASSUME status'[c] = "2xx" PROVE alive'[c] = Services
      <3>1. Initialized' /\ redis' = "ready"
        BY <2>2, <2>3, <2>4 DEF Initialized
      <3>2. AskedOf(c)'
        BY <1>2, <1>4, RequestsAssumption DEF AskedOf
      <3>3. alive[c] \subseteq Services
        BY <1>0 DEF Informed
      <3>. QED
        BY <1>0, <3>1, <3>2, <3>3, Seeing
    <2>. QED
      BY <2>1, <2>4 DEF TrueAnswer
  <1>5. CASE "health" \notin DOMAIN r
    <2>1. \/ Verdict(r) # "next" /\ Respond(c, Verdict(r))
          \/ Respond(c, "500")
          \/ status' = status
      BY <1>1, <1>5 DEF Admit, Verdict
    <2>2. status'[c] \in Refusals \cup {"500"}
      BY <1>0, <1>3, <2>1, VerdictTypes
    <2>. QED
      BY <2>2 DEF TrueAnswer, Refusals
  <1>. QED
    BY <1>4, <1>5

LEMMA AnswerTrue ==
    ASSUME TruthInv, Next, NEW c \in Calls, status[c] = "none", status'[c] # "none"
    PROVE  TrueAnswer(c)'
  <1>0. AnswerInv
    BY DEF TruthInv
  <1>1. ASSUME NEW d \in Calls, NEW s, Respond(d, s) PROVE d = c /\ status'[c] = s
    BY <1>0, <1>1 DEF Respond, AnswerInv
  <1>2. CASE Connect \/ Listen \/ Signal \/ Destroyed \/ RedisChanges \/ Finished \/ Stopped
    <2>1. ASSUME NEW code, Exit(code) PROVE status'[c] = "cut"
      BY <2>1 DEF Exit
    <2>2. status'[c] = "cut"
      BY <1>2, <2>1 DEF Connect, Listen, Signal, Destroyed, RedisChanges, Finished, Stopped, serverVars
    <2>. QED
      BY <2>2 DEF TrueAnswer
  <1>3. ASSUME NEW d \in Calls, Receive(d) PROVE TrueAnswer(c)'
    <2>1. PICK r \in Requests : IF "health" \in DOMAIN r THEN Probe(d, r.health) ELSE Admit(d, r)
      BY <1>3 DEF Receive
    <2>2. status' = status \/ \E s : Respond(d, s)
      BY <2>1 DEF Probe, Admit
    <2>3. d = c
      BY <1>1, <2>2
    <2>. QED
      BY <1>3, <2>3, ReceiveTrue
  <1>4. ASSUME NEW d \in Calls, Work(d) PROVE TrueAnswer(c)'
    <2>1. d = c /\ pc'[c] = "done" /\ status'[c] = StatusOf(outcome'[c])
      BY <1>1, <1>4 DEF Work
    <2>2. outcome'[c] \in {"ok", "notFound", "exists", "failed"}
      BY <1>0, <1>4, <2>1, EndingKnown DEF Work, AnswerInv
    <2>3. /\ status'[c] = "2xx" => outcome'[c] = "ok"
          /\ status'[c] = "404" => outcome'[c] = "notFound"
          /\ status'[c] = "409" => outcome'[c] = "exists"
      <3>1. status'[c] = CASE outcome'[c] = "ok" -> "2xx" [] outcome'[c] = "notFound" -> "404"
                           [] outcome'[c] = "exists" -> "409" [] outcome'[c] = "failed" -> "500"
        BY <2>1 DEF StatusOf
      <3>. QED
        BY <2>2, <3>1
    <2>4. ~AskedOf(c)'
      <3>1. request[c] # None /\ sent' = sent
        BY <1>0, <1>4, <2>1, WorkKeeps, NullAssumption DEF Work
      <3>. QED
        BY <3>1 DEF TruthInv, Informed, AskedOf
    <2>. QED
      BY <1>4, <2>1, <2>3, <2>4, WorkTrue DEF TrueAnswer, AskedOf
  <1>5. ASSUME NEW d \in Calls, Checked(d) PROVE TrueAnswer(c)'
    <2>1. d = c /\ status'[c] = Overall(check'[c])
      BY <1>1, <1>5 DEF Checked
    <2>2. request'[c] = None
      BY <1>5, <2>1 DEF Checked, Pending, TruthInv, Informed, AskedOf, catalogVars
    <2>3. ASSUME status'[c] = "2xx" PROVE alive'[c] = Services
      <3>1. \A s \in Services : check'[c][s] = "UP"
        BY <2>1, <2>3 DEF Overall
      <3>2. alive'[c] \subseteq Services
        BY AliveAreServices DEF TruthInv, Informed
      <3>. QED
        BY <1>5, <2>1, <3>1, <3>2, CheckedInformed
    <2>. QED
      BY <2>2, <2>3 DEF TrueAnswer
  <1>. QED
    BY <1>2, <1>3, <1>4, <1>5 DEF Next, Step

\* Lookups, saves and deletions of others may come between a call's round trips, and the data
\* source may be on its way out: every answer of an operation, and every health report, was
\* true at some moment between the request and the answer.
THEOREM AnswersCorrect == Spec => AnswersAreTrue
  <1> DEFINE Truthful == \A c \in Calls :
                (status[c] = "none" /\ status'[c] # "none") => TrueAnswer(c)'
  <1>1. ASSUME TruthInv, [Next]_vars PROVE [Truthful]_vars
    BY <1>1, AnswerTrue
  <1>. QED
    BY <1>1, InitTruth, NextTruth, PTL DEF Spec, AnswersAreTrue
=============================================================================
