---------------------------- MODULE GuardedCall ----------------------------
(***************************************************************************)
(* What the decorators put around every service method that changes stock: *)
(*                                                                         *)
(*    DistributedLock( CircuitBreaker( Retry( body ) ) )                   *)
(*                                                                         *)
(* A call has two halves that can come apart.  The outer half (client)     *)
(* waits for the lock, fires the breaker, gives the lock back and answers. *)
(* The inner half (pc, attempt) is the body with its retries.  The outer   *)
(* half ends the moment the breaker's timer fires; nothing stops the inner *)
(* half then, which goes on with the database while the lock is free.      *)
(*                                                                         *)
(* A module that EXTENDS this one gives the body: its steps move pc from   *)
(* "start" on and end in BodyReturns or BodyThrows.                        *)
(*                                                                         *)
(* Faults names what may go wrong in the world around the program:         *)
(*    "timeout"    a body outlives the breaker's 3 s                       *)
(*    "dbRejects"  a statement fails and changes nothing                   *)
(*    "replyLost"  a statement is committed but its reply is an error      *)
(*    "redis"      a lock command fails, before or after it took effect    *)
(*    "crash"      the process that runs the call dies                     *)
(***************************************************************************)
EXTENDS Integers

CONSTANTS
    Calls,         \* invocations of the service methods, over all processes
    Keys,          \* names of the distributed locks
    MaxAttempts,   \* Retry's maxAttempts (3 in every use)
    Faults,
    None           \* null: no holder, no row, no request

AllFaults == {"timeout", "dbRejects", "replyLost", "redis", "crash"}

ASSUME AttemptsAssumption == MaxAttempts \in Nat \ {0}
ASSUME FaultsAssumption == Faults \subseteq AllFaults
ASSUME NoneAssumption == None \notin Calls

VARIABLES
    client,    \* where the outer half is
    answer,    \* what the caller is told in the end
    lock,      \* Redis: the call whose value is stored under each key
    pc,        \* where the inner half is
    attempt    \* which try of the body it is in

guardVars == <<client, answer, lock, pc, attempt>>

ClientStates == {"idle", "waiting", "fired", "releasing", "answered", "crashed"}

Answers == {"none", "ok", "error", "timeout", "rejected", "notLocked"}

GuardInit ==
    /\ client = [c \in Calls |-> "idle"]
    /\ answer = [c \in Calls |-> "none"]
    /\ lock = [k \in Keys |-> None]
    /\ pc = [c \in Calls |-> "off"]
    /\ attempt = [c \in Calls |-> 0]

-----------------------------------------------------------------------------
(* The outer half: DistributedLock around CircuitBreaker.                  *)

Invoke(c) ==
    /\ client[c] = "idle"
    /\ client' = [client EXCEPT ![c] = "waiting"]
    /\ UNCHANGED <<answer, lock, pc, attempt>>

\* SET key value EX lease NX finds the key free, and the breaker lets the call
\* through to the first attempt of the body.
AcquireAndFire(c, k) ==
    /\ client[c] = "waiting"
    /\ lock[k] = None
    /\ lock' = [lock EXCEPT ![k] = c]
    /\ client' = [client EXCEPT ![c] = "fired"]
    /\ pc' = [pc EXCEPT ![c] = "start"]
    /\ attempt' = [attempt EXCEPT ![c] = 1]
    /\ UNCHANGED answer

\* The lock is acquired but the breaker is open: fire() rejects at once.
AcquireAndReject(c, k) ==
    /\ client[c] = "waiting"
    /\ lock[k] = None
    /\ lock' = [lock EXCEPT ![k] = c]
    /\ client' = [client EXCEPT ![c] = "releasing"]
    /\ answer' = [answer EXCEPT ![c] = "rejected"]
    /\ UNCHANGED <<pc, attempt>>

NotLocked(c) ==
    /\ client[c] = "waiting"
    /\ client' = [client EXCEPT ![c] = "answered"]
    /\ answer' = [answer EXCEPT ![c] = "notLocked"]

\* waitTimeoutSeconds are over.  The last poll found the key taken; a poll's sleep later
\* it may be free.
WaitTimeout(c) ==
    /\ NotLocked(c)
    /\ UNCHANGED <<lock, pc, attempt>>

\* Any error of redisClient.set makes acquireLock return false, also when the key
\* had been set by then: it then stays until its lease runs out.
AcquireFails(c, k) ==
    /\ "redis" \in Faults
    /\ NotLocked(c)
    /\ \/ UNCHANGED lock
       \/ /\ lock[k] = None
          /\ lock' = [lock EXCEPT ![k] = c]
    /\ UNCHANGED <<pc, attempt>>

\* Variant: a fallback answers for the body that is late.
Timeout_Optimistic(c) ==
    /\ "timeout" \in Faults
    /\ client[c] = "fired"
    /\ client' = [client EXCEPT ![c] = "releasing"]
    /\ answer' = [answer EXCEPT ![c] = "ok"]
    /\ UNCHANGED <<lock, pc, attempt>>

\* The breaker's timer: the caller is answered, the body is not stopped.
Timeout(c) ==
    /\ "timeout" \in Faults
    /\ client[c] = "fired"
    /\ client' = [client EXCEPT ![c] = "releasing"]
    /\ answer' = [answer EXCEPT ![c] = "timeout"]
    /\ UNCHANGED <<lock, pc, attempt>>

\* Variant: the key is deleted without comparing its value.
Release_NoCompare(c, k) ==
    /\ client[c] = "releasing"
    /\ client' = [client EXCEPT ![c] = "answered"]
    /\ lock' = [lock EXCEPT ![k] = None]
    /\ UNCHANGED <<answer, pc, attempt>>

\* The finally block: compare-and-delete, then the call's result or error goes out.
Release(c, k) ==
    /\ client[c] = "releasing"
    /\ client' = [client EXCEPT ![c] = "answered"]
    /\ lock' = [lock EXCEPT ![k] = IF @ = c THEN None ELSE @]
    /\ UNCHANGED <<answer, pc, attempt>>

\* An error of the release script is logged and dropped.
ReleaseFails(c) ==
    /\ "redis" \in Faults
    /\ client[c] = "releasing"
    /\ client' = [client EXCEPT ![c] = "answered"]
    /\ UNCHANGED <<answer, lock, pc, attempt>>

\* Redis drops a key whose lease ran out.  The lease (60 s) is twenty times the
\* breaker's timer (3 s), so a holder that is still "fired" is never past it.
LeaseExpires(k) ==
    /\ lock[k] # None
    /\ client[lock[k]] # "fired"
    /\ lock' = [lock EXCEPT ![k] = None]
    /\ UNCHANGED <<client, answer, pc, attempt>>

Crash(c) ==
    /\ "crash" \in Faults
    /\ client[c] \notin {"idle", "crashed"}
    /\ client[c] = "answered" => pc[c] # "off"
    /\ client' = [client EXCEPT ![c] = "crashed"]
    /\ pc' = [pc EXCEPT ![c] = "off"]
    /\ UNCHANGED <<answer, lock, attempt>>

-----------------------------------------------------------------------------
(* The inner half: CircuitBreaker's settling around Retry around the body. *)

\* fire()'s promise settles once: a result that comes after the timer is ignored.
Settle(c, result) ==
    IF client[c] = "fired"
    THEN /\ client' = [client EXCEPT ![c] = "releasing"]
         /\ answer' = [answer EXCEPT ![c] = result]
    ELSE UNCHANGED <<client, answer>>

Goto(c, step) == pc' = [pc EXCEPT ![c] = step]

\* The body continues with its next round trip.
BodyContinues(c, step) ==
    /\ Goto(c, step)
    /\ UNCHANGED <<client, answer, lock, attempt>>

BodyReturns(c) ==
    /\ Goto(c, "off")
    /\ Settle(c, "ok")
    /\ UNCHANGED <<lock, attempt>>

\* Variant: the loop runs once too often.
BodyThrows_OneMore(c) ==
    \/ /\ attempt[c] <= MaxAttempts
       /\ BodyContinues(c, "backoff")
    \/ /\ attempt[c] > MaxAttempts
       /\ Goto(c, "off")
       /\ Settle(c, "error")
       /\ UNCHANGED <<lock, attempt>>

\* Retry catches every error, the domain's refusals as well as the database's,
\* and rethrows the last one when no attempt is left.
BodyThrows(c) ==
    \/ /\ attempt[c] < MaxAttempts
       /\ BodyContinues(c, "backoff")
    \/ /\ attempt[c] >= MaxAttempts
       /\ Goto(c, "off")
       /\ Settle(c, "error")
       /\ UNCHANGED <<lock, attempt>>

\* The delay between two attempts is over.
Retry(c) ==
    /\ pc[c] = "backoff"
    /\ Goto(c, "start")
    /\ attempt' = [attempt EXCEPT ![c] = @ + 1]
    /\ UNCHANGED <<client, answer, lock>>
=============================================================================
