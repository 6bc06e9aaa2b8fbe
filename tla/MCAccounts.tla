----------------------------- MODULE MCAccounts -----------------------------
(***************************************************************************)
(* A small instance of the user accounts: ana is there, bea may come.      *)
(***************************************************************************)
EXTENDS AccountHistory, TLC

CONSTANTS ana, bea, anaMail, beaMail, old, new, north, south, u1

Ana == u1 :> [username |-> ana, email |-> anaMail, password |-> old,
              storeId |-> north, isActive |-> TRUE]

On(op) == [op |-> op, id |-> u1]

Create(username, email, known) ==
    [op |-> "create", username |-> username, email |-> email, password |-> old,
     storeId |-> None, known |-> known]

Profile(email, storeId, known) ==
    [op |-> "updateProfile", id |-> u1, email |-> email, storeId |-> storeId, known |-> known]

Login(password) == [op |-> "login", username |-> ana, password |-> password]

\* Everything that can be asked about ana, and two users who want to be bea.
AllRequests ==
    {On("activate"), On("deactivate"), On("delete"), On("refresh")}
    \cup {Login(old), Login(new)}
    \cup {[op |-> "changePassword", id |-> u1, currentPassword |-> old, newPassword |-> new]}
    \cup {[op |-> "assignStore", id |-> u1, storeId |-> south, known |-> TRUE]}
    \cup {Profile(beaMail, None, TRUE), Profile(None, south, FALSE)}
    \cup {Create(bea, beaMail, TRUE), Create(ana, beaMail, TRUE)}

Symmetry == Permutations(Calls)
=============================================================================
