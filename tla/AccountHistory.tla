--------------------------- MODULE AccountHistory ---------------------------
(***************************************************************************)
(* What a call of UserAccounts can have seen: every state of the users     *)
(* table from its first step to its answer.  An operation that is not      *)
(* atomic may answer, and write, from any of these, and from no other.     *)
(***************************************************************************)
EXTENDS UserAccounts

VARIABLE during    \* each call's states of the table

HistoryInit == Init /\ during = [c \in Calls |-> {}]

HistoryNext ==
    /\ Next
    /\ during' = [c \in Calls |->
            IF pc[c] # "done" /\ pc'[c] # "idle" THEN during[c] \cup {users'} ELSE during[c]]

HistorySpec == HistoryInit /\ [][HistoryNext]_<<vars, during>>

\* What a user's row was while c was running.
Seen(c, id) == {table[id] : table \in during[c]} \ {None}

\* Tokens are given only for an account that was there, active and, at login, had this
\* password at some moment of the call: a login that overlaps a deactivation or a change of
\* password may win or lose, but no earlier state of the account lets anybody in.
TokensWereDeserved ==
    \A c \in Calls :
        LET r == request[c] IN
        /\ answer[c] = "ok" /\ r.op = "login" =>
            \E id \in Ids : \E u \in Seen(c, id) :
                u.username = r.username /\ u.password = r.password /\ u.isActive
        /\ answer[c] = "ok" /\ r.op = "refresh" =>
            \E u \in Seen(c, r.id) : u.isActive

\* The values that a request asks to have in a column.
Asked(r, col) ==
    CASE r.op = "create" /\ col # "isActive"               -> {r[col]}
      [] r.op = "create" /\ col = "isActive"               -> {TRUE}
      [] r.op = "updateProfile" /\ col \in {"email", "storeId"} -> {r[col]} \ {None}
      [] r.op = "changePassword" /\ col = "password"       -> {r.newPassword}
      [] r.op = "assignStore" /\ col = "storeId"           -> {r.storeId}
      [] r.op = "activate" /\ col = "isActive"             -> {TRUE}
      [] r.op = "deactivate" /\ col = "isActive"           -> {FALSE}
      [] OTHER                                             -> {}

\* A step of c leaves in every column of every user what c asks for, or what was stored
\* there at some moment of c's call.  So a save can undo what others did during the call (a
\* deactivation, a new password, a deletion) but nothing that was done before it began, and
\* it mixes no users.
NoStaleBeyondTheCall ==
    [][\A c \in Calls : pc'[c] # pc[c] =>
        \A id \in Ids : users'[id] # users[id] /\ users'[id] # None =>
            \A col \in Columns :
                users'[id][col] \in {u[col] : u \in Seen(c, id)} \cup Asked(request[c], col)
      ]_<<vars, during>>
=============================================================================
