------------------------------ MODULE MCServer ------------------------------
(***************************************************************************)
(* A category with one product, an empty category, and two requests.       *)
(***************************************************************************)
EXTENDS HttpServer, TLC

CONSTANTS tools, garden, hammer, tea, oak, saw, shop

Shelf ==
    (tools :> [kind |-> "category", name |-> tea, category |-> None]) @@
    (garden :> [kind |-> "category", name |-> oak, category |-> None]) @@
    (hammer :> [kind |-> "product", name |-> tea, category |-> tools])

\* As deployed: CategoryController and its create method are public, products and stores
\* have no middleware, which comes to the same.
Create == << Public, RequireAuth, RequireAdmin, RequireRoles({"ADMIN", "EMPLOYEE"}), RequireStoreAccess >>
Deployed == [classPublic |-> TRUE, decorators |-> Create]

\* The same controller as its comments and the end-to-end tests describe it.
Guarded(decorators) == [classPublic |-> FALSE, decorators |-> decorators]

AllRoutes ==
    {Deployed, Guarded(<<RequireAdmin, RequireAuth>>),
     Guarded(<<RequireAuth, RequireStoreAccess>>), Guarded(Create)}

Nobody == [token |-> "none", role |-> "EMPLOYEE", storeId |-> None, asked |-> None]

Ask(operation) == [route |-> Deployed, cred |-> Nobody, valid |-> TRUE, operation |-> operation]

Get == [op |-> "get", kind |-> "category", id |-> tools]

\* Those that a guard tells apart.
Bearers ==
    {cred \in Credentials({shop}) :
        cred.token # "valid" => cred.role = "ADMIN" /\ cred.storeId = shop /\ cred.asked = shop}

Guards ==
    {[route |-> route, cred |-> cred, valid |-> TRUE, operation |-> Get] :
        route \in AllRoutes \ {Deployed}, cred \in Bearers}

Operations ==
    {[op |-> "create", kind |-> "category", name |-> name, category |-> None] : name \in {tea, saw}}
    \cup {[op |-> "create", kind |-> "store", name |-> tea, category |-> None]}
    \cup {[op |-> "create", kind |-> "product", name |-> saw, category |-> garden]}
    \cup {[op |-> "update", kind |-> "category", id |-> tools, name |-> saw, category |-> None]}
    \cup {[op |-> "update", kind |-> "product", id |-> hammer, name |-> saw, category |-> category] :
            category \in {garden} \cup Calls}
    \cup {[op |-> "delete", kind |-> "category", id |-> id] : id \in {tools, garden}}
    \cup {[op |-> "delete", kind |-> "product", id |-> hammer]}

Everything ==
    {Ask(operation) : operation \in Operations}
    \cup {[Ask(Get) EXCEPT !.valid = FALSE]}
    \cup Guards
    \cup {[health |-> [op |-> op]] : op \in {"health", "ready"}}
=============================================================================
