--------------------------- MODULE Authorisation ---------------------------
(***************************************************************************)
(* globalSecurityMiddleware as a function: from what the decorators left   *)
(* on a controller's method, and what a request brings, to "next" or the   *)
(* status it is turned away with.                                          *)
(***************************************************************************)
EXTENDS Integers, Sequences

CONSTANT None

Roles == {"ADMIN", "EMPLOYEE"}

\* The decorators of a method, the topmost first, as they stand in the source.
Public == [mark |-> "public"]
RequireRoles(roles) == [mark |-> "roles", roles |-> roles]
RequireAdmin == RequireRoles({"ADMIN"})
RequireAuth == RequireRoles({"ADMIN", "EMPLOYEE"})
RequireStoreAccess == [mark |-> "store"]

\* No use of RequireRoles names no role.
Decorators == {Public, RequireStoreAccess} \cup {RequireRoles(roles) : roles \in (SUBSET Roles) \ {{}}}

Marked(decorators, mark) == {i \in DOMAIN decorators : decorators[i].mark = mark}

\* Variant: the first decorator that is evaluated wins.
RolesOf_Lowest(decorators) ==
    LET marks == Marked(decorators, "roles")
    IN  IF marks = {} THEN {}
        ELSE decorators[CHOOSE i \in marks : \A j \in marks : j <= i].roles

\* All role decorators write one metadata key.  The topmost is evaluated last.
RolesOf(decorators) ==
    LET marks == Marked(decorators, "roles")
    IN  IF marks = {} THEN {}
        ELSE decorators[CHOOSE i \in marks : \A j \in marks : i <= j].roles

Metadata(classPublic, decorators) ==
    [public |-> classPublic \/ Marked(decorators, "public") # {},
     roles |-> RolesOf(decorators),
     store |-> Marked(decorators, "store") # {}]

\* What a request brings: its token, with the role and the store that it was signed for,
\* and the store that it names itself.
Credentials(Stores) ==
    [token : {"none", "invalid", "valid"}, role : Roles, storeId : Stores \cup {None},
     asked : Stores \cup {None}]

HasRole(meta, cred) == meta.roles = {} \/ cred.role \in meta.roles

\* UserPrincipal.canAccessStore
CanAccessStore(cred) ==
    cred.role = "ADMIN" \/ (cred.storeId # None /\ cred.storeId = cred.asked)

Decide(meta, cred) ==
    IF meta.public                                   THEN "next"
    ELSE IF cred.token # "valid"                     THEN "401"
    ELSE IF ~HasRole(meta, cred)                     THEN "403"
    ELSE IF meta.store /\ cred.asked = None          THEN "400"
    ELSE IF meta.store /\ ~CanAccessStore(cred)      THEN "403"
    ELSE "next"

\* What the decorators say, read from the source and not from the metadata: the role
\* decorator that counts is the one with no other above it.
Entitled(classPublic, decorators, cred) ==
    \/ classPublic
    \/ \E i \in DOMAIN decorators : decorators[i] = Public
    \/ /\ cred.token = "valid"
       /\ \A i \in DOMAIN decorators :
            LET d == decorators[i] IN
            /\ (d.mark = "roles" /\ \A j \in 1..(i - 1) : decorators[j].mark # "roles")
                    => cred.role \in d.roles
            /\ d = RequireStoreAccess
                    => cred.asked # None /\ (cred.role = "ADMIN" \/ cred.asked = cred.storeId)
=============================================================================
