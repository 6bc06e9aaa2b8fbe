------------------------------ MODULE Catalog ------------------------------
(***************************************************************************)
(* CategoryService, ProductService and StoreService over their tables.     *)
(*                                                                         *)
(* The three have one shape: look for what must not be there and for what  *)
(* must be, then save or delete, each lookup a round trip of its own and   *)
(* nothing held in between.  What keeps the tables sound is declared in    *)
(* the entities: a unique name, SKU or code, and the product's reference   *)
(* to its category.  The steps of a call, by the round trip that is next:  *)
(*                                                                         *)
(*   start          create: the name; otherwise findById                   *)
(*   findName       update: a new name, SKU or code                        *)
(*   findCategory   a product's (new) category                             *)
(*   select         save: SELECT by id                                     *)
(*   write, insert  save: UPDATE, or INSERT if the row is not there        *)
(*   delete         DELETE                                                 *)
(*                                                                         *)
(* "name" is the unique column of each table.  Descriptions, prices and    *)
(* addresses decide nothing and are left out.                              *)
(***************************************************************************)
EXTENDS Integers

CONSTANTS
    Calls,
    Entries,       \* the ids of the rows there are at the start
    FirstRows,     \* and the rows
    Names,
    None

\* uuidv4() gives the row that a call creates an id of its own.
Ids == Entries \cup Calls

Kinds == {"category", "product", "store"}

Row == [kind : Kinds, name : Names, category : Ids \cup {None}]

Columns == {"kind", "name", "category"}

\* Only products have a category, and they must.
Operation ==
    [op : {"create"}, kind : {"category", "store"}, name : Names, category : {None}]
    \cup [op : {"create"}, kind : {"product"}, name : Names, category : Ids]
    \cup [op : {"update"}, kind : {"category", "store"}, id : Ids,
          name : Names \cup {None}, category : {None}]
    \cup [op : {"update"}, kind : {"product"}, id : Ids,
          name : Names \cup {None}, category : Ids \cup {None}]
    \cup [op : {"delete", "get"}, kind : Kinds, id : Ids]

\* What became of a call: the errors are those that the error handler tells apart.
Outcomes == {"none", "ok", "notFound", "exists", "failed"}

ASSUME FreshAssumption == Entries \cap Calls = {} /\ None \notin Ids
ASSUME RowsAssumption ==
    /\ FirstRows \in [Entries -> Row]
    /\ \A a, b \in Entries :
        (a # b /\ FirstRows[a].kind = FirstRows[b].kind) => FirstRows[a].name # FirstRows[b].name
    /\ \A a \in Entries : FirstRows[a].kind = "product" =>
        /\ FirstRows[a].category \in Entries
        /\ FirstRows[FirstRows[a].category].kind = "category"
ASSUME NullAssumption == None \notin Row /\ None \notin Operation /\ None \notin Names

VARIABLES
    rows,       \* the three tables: id -> row or None
    request,    \* the arguments of each call
    pc,         \* its next round trip
    outcome,    \* how it ended
    object,     \* local: the object a call is about to save, with its id
    dirty       \* local: the columns that an UPDATE will write

locals == <<object, dirty>>
catalogVars == <<rows, request, pc, outcome, object, dirty>>

CatalogInit ==
    /\ rows = [id \in Ids |-> IF id \in Entries THEN FirstRows[id] ELSE None]
    /\ request = [c \in Calls |-> None]
    /\ pc = [c \in Calls |-> "idle"]
    /\ outcome = [c \in Calls |-> "none"]
    /\ object = [c \in Calls |-> None]
    /\ dirty = [c \in Calls |-> {}]

Stored(kind) == {id \in Ids : rows[id] # None /\ rows[id].kind = kind}

\* findByName, findBySku, findByCode
Taken(kind, name) == \E id \in Stored(kind) : rows[id].name = name

Goto(c, step) == pc' = [pc EXCEPT ![c] = step] /\ UNCHANGED outcome

\* The call returns or throws, and its locals are gone.
End(c, o) ==
    /\ pc' = [pc EXCEPT ![c] = "done"]
    /\ outcome' = [outcome EXCEPT ![c] = o]
    /\ object' = [object EXCEPT ![c] = None]
    /\ dirty' = [dirty EXCEPT ![c] = {}]
    /\ UNCHANGED request

Answer(c, o) == End(c, o) /\ UNCHANGED rows

Start(c, r) ==
    /\ pc[c] = "idle"
    /\ request' = [request EXCEPT ![c] = r]
    /\ Goto(c, "start")
    /\ UNCHANGED <<rows, locals>>

-----------------------------------------------------------------------------
(* The lookups.                                                            *)

\* The object is kept, and the call continues with its next round trip.
Keep(c, id, row, step) ==
    /\ object' = [object EXCEPT ![c] = [id |-> id, row |-> row]]
    /\ Goto(c, step)
    /\ UNCHANGED <<rows, request, dirty>>

Proceed(c, step) == Goto(c, step) /\ UNCHANGED <<rows, request, locals>>

FindForCreate(c) ==
    LET r == request[c] IN
    /\ pc[c] = "start"
    /\ r.op = "create"
    /\ IF Taken(r.kind, r.name)
       THEN Answer(c, "exists")
       ELSE Keep(c, c, [kind |-> r.kind, name |-> r.name, category |-> r.category],
                 IF r.kind = "product" THEN "findCategory" ELSE "insert")

NewName(r, row) == r.name \notin {None, row.name}
NewCategory(r, row) == r.category \notin {None, row.category}

AfterName(r, row) == IF NewCategory(r, row) THEN "findCategory" ELSE "select"

FindForUpdate(c) ==
    LET r == request[c] IN
    /\ pc[c] = "start"
    /\ r.op = "update"
    /\ IF r.id \notin Stored(r.kind)
       THEN Answer(c, "notFound")
       ELSE Keep(c, r.id, rows[r.id],
                 IF NewName(r, rows[r.id]) THEN "findName" ELSE AfterName(r, rows[r.id]))

FindForDelete(c) ==
    LET r == request[c] IN
    /\ pc[c] = "start"
    /\ r.op \in {"delete", "get"}
    /\ IF r.id \notin Stored(r.kind) THEN Answer(c, "notFound")
       ELSE IF r.op = "get" THEN Answer(c, "ok")
       ELSE Proceed(c, "delete")

FindName(c) ==
    LET r == request[c]
        row == object[c].row
    IN  /\ pc[c] = "findName"
        /\ IF Taken(r.kind, r.name)
           THEN Answer(c, "exists")
           ELSE Keep(c, r.id, [row EXCEPT !.name = r.name], AfterName(r, row))

AfterCategory(r) == IF r.op = "create" THEN "insert" ELSE "select"

\* save's SELECT by a fresh id finds nothing, so a create goes on with the INSERT.
FindCategory(c) ==
    LET r == request[c] IN
    /\ pc[c] = "findCategory"
    /\ IF r.category \notin Stored("category")
       THEN Answer(c, "notFound")
       ELSE Keep(c, object[c].id, [object[c].row EXCEPT !.category = r.category],
                 AfterCategory(r))

-----------------------------------------------------------------------------
(* Saving and deleting.  A failed statement, a violated constraint and a   *)
(* lost reply are the same to the caller: an error that is none of ours.   *)

Select(c) ==
    LET id == object[c].id IN
    /\ pc[c] = "select"
    /\ IF rows[id] # None
       THEN /\ dirty' = [dirty EXCEPT ![c] = {col \in Columns : object[c].row[col] # rows[id][col]}]
            /\ Goto(c, "write")
       ELSE Goto(c, "insert") /\ UNCHANGED dirty
    /\ UNCHANGED <<rows, request, object>>

\* The unique column.
Unique(id, row) == \A other \in Stored(row.kind) \ {id} : rows[other].name # row.name

\* Variant: the product's relation has no foreign key in the database.
Refers_Undeclared(row) == TRUE

\* The foreign key products.category_id.
Refers(row) == row.kind = "product" => row.category \in Stored("category")

Referenced(id) == \E p \in Stored("product") : rows[p].category = id

Saved(c, id, row) ==
    IF Unique(id, row) /\ Refers(row)
    THEN /\ rows' = [rows EXCEPT ![id] = row]
         /\ \E o \in {"ok", "failed"} : End(c, o)
    ELSE Answer(c, "failed")

\* The UPDATE of some columns.
Updated(stored, new, columns) ==
    LET column(name, newer, older) == IF name \in columns THEN newer ELSE older
    IN  [kind     |-> column("kind", new.kind, stored.kind),
         name     |-> column("name", new.name, stored.name),
         category |-> column("category", new.category, stored.category)]

\* An UPDATE of a row that is gone updates nothing, and is no error.  The COMMIT of a
\* category's update, which alone runs in a transaction, is part of the statement.
Write(c) ==
    LET id == object[c].id IN
    /\ pc[c] = "write"
    /\ IF rows[id] # None
       THEN Saved(c, id, Updated(rows[id], object[c].row, dirty[c]))
       ELSE Answer(c, "ok")

Insert(c) ==
    LET id == object[c].id IN
    /\ pc[c] = "insert"
    /\ IF rows[id] # None THEN Answer(c, "failed") ELSE Saved(c, id, object[c].row)

\* Variant: the service answers without waiting for the statement.
Delete_NotAwaited(c) ==
    /\ pc[c] = "delete"
    /\ Answer(c, "ok")

\* DELETE of a row that is gone deletes nothing, and is no error.
Delete(c) ==
    LET id == request[c].id IN
    /\ pc[c] = "delete"
    /\ IF Referenced(id)
       THEN Answer(c, "failed")
       ELSE /\ rows' = [rows EXCEPT ![id] = None]
            /\ \E o \in {"ok", "failed"} : End(c, o)

\* The connection breaks before the statement does anything.
Fails(c) ==
    /\ pc[c] \notin {"idle", "done"}
    /\ Answer(c, "failed")

CatalogStep(c) ==
    \/ FindForCreate(c) \/ FindForUpdate(c) \/ FindForDelete(c)
    \/ FindName(c) \/ FindCategory(c)
    \/ Select(c) \/ Write(c) \/ Insert(c) \/ Delete(c)

-----------------------------------------------------------------------------
CatalogTypeOK ==
    /\ rows \in [Ids -> Row \cup {None}]
    /\ request \in [Calls -> Operation \cup {None}]
    /\ pc \in [Calls -> {"idle", "start", "findName", "findCategory", "select", "write",
                         "insert", "delete", "done"}]
    /\ outcome \in [Calls -> Outcomes]
    /\ object \in [Calls -> [id : Ids, row : Row] \cup {None}]
    /\ dirty \in [Calls -> SUBSET Columns]

\* However lookups, saves and deletions overlap, every product that is stored has a category
\* that is stored.
CategoriesExist == \A id \in Stored("product") : rows[id].category \in Stored("category")

\* And no two rows of a table share their name, SKU or code.
NamesDistinct ==
    \A kind \in Kinds : \A a, b \in Stored(kind) : a # b => rows[a].name # rows[b].name
=============================================================================
