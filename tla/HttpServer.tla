----------------------------- MODULE HttpServer -----------------------------
(***************************************************************************)
(* main.ts: the life of the process, and the requests it serves meanwhile. *)
(*                                                                         *)
(*    connecting -> listening -> exited                                    *)
(*                                                                         *)
(* A signal destroys the data source and then exits.  Nothing closes the   *)
(* HTTP server, so requests come and go on until the exit.  The data       *)
(* source (pool) is "open" once it has connected, before initialize() is   *)
(* done with the schema, and "closing" while destroy() waits for the       *)
(* database; in both it says isInitialized.                                *)
(*                                                                         *)
(* A request goes through the security middleware and the validation of    *)
(* its body in one turn of the event loop, up to the first round trip of   *)
(* its operation, which is one of Catalog's or a health check.             *)
(***************************************************************************)
EXTENDS Catalog, Sequences

CONSTANTS
    Routes,        \* the decorated methods: [classPublic, decorators]
    Stores,
    Requests,      \* what clients may send
    MaxSignals     \* how many signals may come

INSTANCE Authorisation

\* A health check asks both services at once.
Services == {"database", "redis"}

HealthRequest == [op : {"health", "ready"}]

\* valid: whether the body passes validateDto.
HttpRequest ==
    [route : Routes, cred : Credentials(Stores), valid : BOOLEAN, operation : Operation]
    \cup [health : HealthRequest]

ASSUME RoutesAssumption ==
    \A route \in Routes :
        /\ route.classPublic \in BOOLEAN
        /\ route.decorators \in Seq(Decorators)
ASSUME RequestsAssumption == Requests \subseteq HttpRequest /\ None \notin Requests
ASSUME SignalsAssumption == MaxSignals \in Nat

VARIABLES
    process,    \* where the process is
    exitCode,
    pool,       \* the data source
    redis,      \* the state of the Redis client
    signals,    \* how many have come
    sent,       \* what each client sent
    check,      \* local to a health check: what it knows of each service
    status,     \* the status that was sent back, or that the connection was cut
    tables,     \* for the properties: the tables there were during each request,
    alive       \* and the services that were up

serverVars == <<process, exitCode, pool, redis, signals, sent, check, status>>
vars == <<catalogVars, serverVars, tables, alive>>

Statuses == {"none", "2xx", "400", "401", "403", "404", "409", "500", "503", "cut"}

Init ==
    /\ CatalogInit
    /\ process = "connecting"
    /\ exitCode = None
    /\ pool = "none"
    /\ redis = "ready"
    /\ signals = 0
    /\ sent = [c \in Calls |-> None]
    /\ check = [c \in Calls |-> [s \in Services |-> "unknown"]]
    /\ status = [c \in Calls |-> "none"]
    /\ tables = [c \in Calls |-> {}]
    /\ alive = [c \in Calls |-> {}]

Pending(c) == sent[c] # None /\ status[c] = "none"

-----------------------------------------------------------------------------
(* The process.                                                            *)

Exit(code) ==
    /\ process' = "exited"
    /\ exitCode' = code
    /\ status' = [c \in Calls |-> IF Pending(c) THEN "cut" ELSE status[c]]

\* initialize() connects, and goes on to the schema,
Connect ==
    /\ process = "connecting"
    /\ \/ pool = "none" /\ pool' = "open" /\ UNCHANGED <<process, exitCode, status>>
       \/ Exit(1) /\ UNCHANGED pool
    /\ UNCHANGED <<catalogVars, redis, signals, sent, check>>

\* and then start listens without another await.  A port that is taken is an 'error' event
\* that nobody handles, and a failure before it (Connect) is exit 1 too.
Listen ==
    /\ process = "connecting"
    /\ pool # "none"
    /\ process' = "listening"
    /\ UNCHANGED <<catalogVars, exitCode, pool, redis, signals, sent, check, status>>

\* SIGTERM or SIGINT.  A second destroy() ends the pool twice, which it refuses, and the
\* handler's rejection is nobody's.
Signal ==
    /\ process # "exited"
    /\ signals < MaxSignals
    /\ signals' = signals + 1
    /\ \/ pool = "none" /\ Exit(0) /\ UNCHANGED pool
       \/ pool = "open" /\ pool' = "closing" /\ UNCHANGED <<process, exitCode, status>>
       \/ pool = "closing" /\ Exit(1) /\ UNCHANGED pool
    /\ UNCHANGED <<catalogVars, redis, sent, check>>

\* Variant: the handler leaves it to the event loop to run empty.
Destroyed_NoExit ==
    /\ process # "exited"
    /\ pool = "closing"
    /\ pool' = "none"
    /\ UNCHANGED <<catalogVars, process, exitCode, redis, signals, sent, check, status>>

\* destroy() is done.
Destroyed ==
    /\ process # "exited"
    /\ pool = "closing"
    /\ pool' = "none"
    /\ Exit(0)
    /\ UNCHANGED <<catalogVars, redis, signals, sent, check>>

RedisChanges ==
    /\ process # "exited"
    /\ redis' = IF redis = "ready" THEN "down" ELSE "ready"
    /\ UNCHANGED <<catalogVars, process, exitCode, pool, signals, sent, check, status>>

-----------------------------------------------------------------------------
(* A request.                                                              *)

Respond(c, s) == status' = [status EXCEPT ![c] = s]

\* The middleware's verdict, then validateDto, whose error is not one of the domain's.
Admit(c, r) ==
    LET verdict == Decide(Metadata(r.route.classPublic, r.route.decorators), r.cred)
    IN  \/ verdict # "next" /\ Respond(c, verdict) /\ UNCHANGED catalogVars
        \/ verdict = "next" /\ ~r.valid /\ Respond(c, "500") /\ UNCHANGED catalogVars
        \/ verdict = "next" /\ r.valid /\ Start(c, r.operation) /\ UNCHANGED status

Initialized == pool \in {"open", "closing"}

\* isReady answers at once; checkDatabaseHealth and checkRedisHealth each begin with what
\* they can tell without asking.
Probe(c, r) ==
    /\ IF r.op = "ready"
       THEN /\ Respond(c, IF Initialized /\ redis = "ready" THEN "2xx" ELSE "503")
            /\ UNCHANGED check
       ELSE /\ check' = [check EXCEPT ![c] = [s \in Services |->
                    IF s = "redis" /\ redis # "ready" THEN "DOWN" ELSE "unknown"]]
            /\ UNCHANGED status
    /\ UNCHANGED catalogVars

Receive(c) ==
    /\ process = "listening"
    /\ sent[c] = None
    /\ \E r \in Requests :
        /\ sent' = [sent EXCEPT ![c] = r]
        /\ IF "health" \in DOMAIN r
           THEN Probe(c, r.health)
           ELSE Admit(c, r) /\ UNCHANGED check
    /\ UNCHANGED <<process, exitCode, pool, redis, signals>>

\* Variant: an error that is not the domain's is only logged.
StatusOf_DomainOnly(o) ==
    CASE o = "ok"       -> "2xx"
      [] o = "notFound" -> "404"
      [] o = "exists"   -> "409"
      [] o = "failed"   -> "none"

\* What the controllers answer (201 for a create, 200 for the rest), and what errorHandler
\* makes of each error.
StatusOf(o) ==
    CASE o = "ok"       -> "2xx"
      [] o = "notFound" -> "404"
      [] o = "exists"   -> "409"
      [] o = "failed"   -> "500"

\* One round trip of an operation.  It needs the pool; without it every query is an error.
\* When the operation has ended, the controller answers in the same turn.
Work(c) ==
    /\ process = "listening"
    /\ Pending(c)
    /\ \/ pool = "open" /\ CatalogStep(c)
       \/ Fails(c)
    /\ IF pc'[c] = "done" THEN Respond(c, StatusOf(outcome'[c])) ELSE UNCHANGED status
    /\ UNCHANGED <<process, exitCode, pool, redis, signals, sent, check>>

\* Both services must be up.
Overall(known) == IF \A s \in Services : known[s] = "UP" THEN "2xx" ELSE "503"

\* SELECT 1 or PING comes back, or does not.
Checked(c) ==
    /\ process = "listening"
    /\ Pending(c)
    /\ "health" \in DOMAIN sent[c]
    /\ \E s \in {s \in Services : check[c][s] = "unknown"} :
        /\ \E found \in {"UP", "DOWN"} :
            /\ found = "UP" => IF s = "redis" THEN redis = "ready" ELSE pool = "open"
            /\ check' = [check EXCEPT ![c][s] = found]
        /\ IF \A t \in Services : check'[c][t] # "unknown"
           THEN Respond(c, Overall(check'[c]))
           ELSE UNCHANGED status
    /\ UNCHANGED <<catalogVars, process, exitCode, pool, redis, signals, sent>>

Finished ==
    /\ \A c \in Calls : sent[c] # None /\ ~Pending(c)
    /\ UNCHANGED serverVars
    /\ UNCHANGED catalogVars

\* The client of a process that is gone is refused.
Stopped == process = "exited" /\ UNCHANGED serverVars /\ UNCHANGED catalogVars

Step ==
    \/ Connect \/ Listen \/ Signal \/ Destroyed \/ RedisChanges
    \/ \E c \in Calls : Receive(c) \/ Work(c) \/ Checked(c)
    \/ Finished \/ Stopped

\* A request has seen the states from the one it came in to the one it was answered in.
Observe ==
    /\ tables' = [c \in Calls |->
            IF status[c] # "none" \/ request'[c] = None THEN {} ELSE tables[c] \cup {rows'}]
    /\ alive' = [c \in Calls |->
            IF status[c] # "none" \/ sent'[c] = None \/ "health" \notin DOMAIN sent'[c]
            THEN {}
            ELSE alive[c] \cup {s \in Services :
                    IF s = "redis" THEN redis' = "ready" ELSE Initialized'}]

Next == Step /\ Observe

Spec == Init /\ [][Next]_vars

\* The database and Redis answer or fail what they were asked, destroy() among it.
Fairness ==
    /\ WF_vars((Connect \/ Listen) /\ Observe)
    /\ WF_vars(Destroyed /\ Observe)
    /\ \A c \in Calls : WF_vars(Work(c) /\ Observe) /\ WF_vars(Checked(c) /\ Observe)

LiveSpec == Spec /\ Fairness

-----------------------------------------------------------------------------
\* The middleware lets a request through to its operation exactly if the decorators in the
\* source entitle it, whichever of them are combined and in whichever order.
AdmittedAreEntitled ==
    \A c \in Calls : (sent[c] # None /\ "route" \in DOMAIN sent[c]) =>
        LET r == sent[c] IN
        (status[c] \in {"401", "403", "400"}) # Entitled(r.route.classPublic, r.route.decorators, r.cred)

\* What a success says of an operation.  An update answers with the object it saved: each column
\* that was asked for was stored, or there was no row any more.
Done(c, r) ==
    CASE r.op = "create" -> \E table \in tables[c] :
                                /\ table[c] # None
                                /\ table[c].name = r.name /\ table[c].category = r.category
      [] r.op = "update" -> \A col \in {"name", "category"} : r[col] # None =>
                                \E table \in tables[c] :
                                    table[r.id] # None => table[r.id][col] = r[col]
      [] r.op = "delete" -> \E table \in tables[c] : table[r.id] = None
      [] r.op = "get"    -> \E table \in tables[c] : table[r.id] # None

\* What a 404 says: the row, or the category, was missing.
Missing(c, r) ==
    \E table \in tables[c] :
        \/ r.op # "create" /\ (table[r.id] = None \/ table[r.id].kind # r.kind)
        \/ r.op \in {"create", "update"} /\ r.category # None
           /\ (table[r.category] = None \/ table[r.category].kind # "category")

\* What a 409 says: the name is somebody's.
NameTaken(c, r) ==
    \E table \in tables[c] : \E id \in Ids :
        table[id] # None /\ table[id].kind = r.kind /\ table[id].name = r.name

TrueAnswer(c) ==
    /\ request[c] # None =>
        /\ status[c] = "2xx" => Done(c, request[c])
        /\ status[c] = "404" => Missing(c, request[c])
        /\ status[c] = "409" => NameTaken(c, request[c])
    /\ (sent[c] # None /\ "health" \in DOMAIN sent[c] /\ status[c] = "2xx") => alive[c] = Services

\* No lock and no transaction holds between the lookups and the answer, and others change
\* the tables meanwhile, or the data source is on its way out.  Still each answer was true at
\* some moment between the request and the answer.
AnswersAreTrue ==
    [][\A c \in Calls : (status[c] = "none" /\ status'[c] # "none") => TrueAnswer(c)']_vars

\* A request that was received is answered, or cut off by the end of the process.
EveryRequestEnds == \A c \in Calls : sent[c] # None ~> status[c] # "none"

\* A signal ends the process, although the HTTP server is not told and requests go on.
SignalEnds == signals > 0 ~> process = "exited"
=============================================================================
