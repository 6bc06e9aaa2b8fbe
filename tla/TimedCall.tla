----------------------------- MODULE TimedCall -----------------------------
(***************************************************************************)
(* The decorators of GuardedCall against a clock, and with the breaker's   *)
(* own states.  GuardedCall says that a lease never ends while its holder  *)
(* is fired and that a breaker rejects only after a failure; here both are *)
(* consequences of the durations and of the breaker's rules.               *)
(*                                                                         *)
(* A SET takes effect when it is sent, and its reply comes later: in       *)
(* between Redis knows the holder and the program does not.                *)
(*                                                                         *)
(* Durations are whole ticks.  No reply of Redis and no timer is later     *)
(* than Late.  The database owes nothing: a body ends when it likes.       *)
(*                                                                         *)
(* A circuit is the breaker of one operation in one process.               *)
(***************************************************************************)
EXTENDS GuardedCall, FiniteSets

CONSTANTS
    Circuits,
    KeyOf,        \* the lock each call needs
    CircuitOf,    \* the breaker each call goes through
    Poll,         \* acquireLock's sleep between two polls
    Delay,        \* Retry's delayMs
    Timer,        \* the breaker's timeout
    Wait,         \* waitTimeoutSeconds
    Reset,        \* the breaker's resetTimeout
    Lease,        \* leaseTimeSeconds
    Late          \* the most by which a reply or a timer is late

ASSUME CircuitsAssumption ==
    /\ KeyOf \in [Calls -> Keys]
    /\ CircuitOf \in [Calls -> Circuits]
ASSUME TimesAssumption ==
    /\ {Poll, Delay, Timer, Wait, Reset, Lease} \subseteq Nat \ {0}
    /\ Late \in Nat
    /\ "timeout" \in Faults
\* 60 s against 3 s: what is left when the SET's reply comes is more than the timer needs.
ASSUME LeaseAssumption == Lease > Timer + 2 * Late

VARIABLES
    poll,      \* the lock loop: a SET under way and its effect, or the sleep
    age,       \* time since the call began
    due,       \* time until the outer half's pending reply or timer must be there
    pause,     \* the same for Retry's delay
    ttl,       \* Redis: what is left of each lease
    breaker,   \* opossum's state of each circuit
    trial,     \* opossum's pendingClose: the next call may try a half-open circuit
    resetIn,   \* time until an open circuit becomes half open
    fires,     \* the calls in the rolling window's count of fires
    fails      \* and in its count of failures

clocks == <<age, due, pause, ttl, resetIn>>
circuit == <<breaker, trial, resetIn, fires, fails>>
vars == <<guardVars, poll, clocks, breaker, trial, fires, fails>>

Init ==
    /\ GuardInit
    /\ poll = [c \in Calls |-> "none"]
    /\ age = [c \in Calls |-> 0]
    /\ due = [c \in Calls |-> 0]
    /\ pause = [c \in Calls |-> 0]
    /\ ttl = [k \in Keys |-> 0]
    /\ breaker = [o \in Circuits |-> "closed"]
    /\ trial = [o \in Circuits |-> FALSE]
    /\ resetIn = [o \in Circuits |-> 0]
    /\ fires = [o \in Circuits |-> {}]
    /\ fails = [o \in Circuits |-> {}]

\* A timer set for t goes off between t and t + Late; a reply comes within Late.
Within(c, t) == due' = [due EXCEPT ![c] = t + Late]
IsDue(c) == due[c] <= Late

-----------------------------------------------------------------------------
(* acquireLock.                                                            *)

\* Variant: the lease is given in milliseconds.
SetNX_Millis(c) ==
    \/ /\ lock[KeyOf[c]] = None
       /\ lock' = [lock EXCEPT ![KeyOf[c]] = c]
       /\ ttl' = [ttl EXCEPT ![KeyOf[c]] = 1]
       /\ poll' = [poll EXCEPT ![c] = "taken"]
    \/ /\ \/ lock[KeyOf[c]] # None /\ poll' = [poll EXCEPT ![c] = "refused"]
          \/ "redis" \in Faults /\ poll' = [poll EXCEPT ![c] = "lost"]
       /\ UNCHANGED <<lock, ttl>>

\* SET key value EX lease NX: takes a free key, or does not reach Redis at all.
SetNX(c) ==
    \/ /\ lock[KeyOf[c]] = None
       /\ lock' = [lock EXCEPT ![KeyOf[c]] = c]
       /\ ttl' = [ttl EXCEPT ![KeyOf[c]] = Lease]
       /\ poll' = [poll EXCEPT ![c] = "taken"]
    \/ /\ \/ lock[KeyOf[c]] # None /\ poll' = [poll EXCEPT ![c] = "refused"]
          \/ "redis" \in Faults /\ poll' = [poll EXCEPT ![c] = "lost"]
       /\ UNCHANGED <<lock, ttl>>

\* The loop's first round.
Begin(c) ==
    /\ client[c] = "idle"
    /\ client' = [client EXCEPT ![c] = "waiting"]
    /\ SetNX(c)
    /\ Within(c, 0)
    /\ UNCHANGED <<answer, pc, attempt, age, pause, circuit>>

\* SET replied null: sleep.
Refused(c) ==
    /\ client[c] = "waiting"
    /\ poll[c] = "refused"
    /\ poll' = [poll EXCEPT ![c] = "nap"]
    /\ Within(c, Poll)
    /\ UNCHANGED <<guardVars, age, pause, ttl, circuit>>

Quit(c) ==
    /\ NotLocked(c)
    /\ poll' = [poll EXCEPT ![c] = "none"]
    /\ age' = [age EXCEPT ![c] = 0]
    /\ due' = [due EXCEPT ![c] = 0]
    /\ UNCHANGED <<lock, pc, attempt, pause, ttl, circuit>>

\* Back at the head of the loop: one more SET, unless the time is over.
Wake(c) ==
    /\ poll[c] = "nap"
    /\ client[c] = "waiting"
    /\ IsDue(c)
    /\ IF age[c] < Wait
       THEN /\ SetNX(c)
            /\ Within(c, 0)
            /\ UNCHANGED <<client, answer, pc, attempt, age, pause, circuit>>
       ELSE Quit(c)

\* SET replied an error, whatever it did.
SetFails(c) ==
    /\ "redis" \in Faults
    /\ poll[c] \in {"taken", "refused", "lost"}
    /\ Quit(c)

-----------------------------------------------------------------------------
(* The breaker, an opossum circuit: it opens when more than half of the    *)
(* counted calls failed, admits one trial after resetTimeout, and what the *)
(* trial does decides.                                                     *)

Lets(o) == breaker[o] = "closed" \/ trial[o]

\* SET replied OK, and fire() starts the timer and the first attempt.
Fire(c) ==
    LET o == CircuitOf[c]
    IN  /\ client[c] = "waiting"
        /\ poll[c] = "taken"
        /\ poll' = [poll EXCEPT ![c] = "none"]
        /\ fires' = [fires EXCEPT ![o] = @ \cup {c}]
        /\ trial' = [trial EXCEPT ![o] = FALSE]
        /\ IF Lets(o)
           THEN /\ client' = [client EXCEPT ![c] = "fired"]
                /\ pc' = [pc EXCEPT ![c] = "start"]
                /\ attempt' = [attempt EXCEPT ![c] = 1]
                /\ Within(c, Timer)
                /\ UNCHANGED answer
           ELSE /\ client' = [client EXCEPT ![c] = "releasing"]
                /\ answer' = [answer EXCEPT ![c] = "rejected"]
                /\ Within(c, 0)
                /\ UNCHANGED <<pc, attempt>>
        /\ UNCHANGED <<lock, age, pause, ttl, breaker, resetIn, fails>>

Opens(o, c) ==
    \/ breaker[o] = "halfOpen"
    \/ 100 * Cardinality(fails[o] \cup {c}) > 50 * Cardinality(fires[o])

\* opossum's fail(): count, and open a circuit that is not open yet.
CountFailure(c) ==
    LET o == CircuitOf[c]
    IN  /\ fails' = [fails EXCEPT ![o] = @ \cup {c}]
        /\ IF breaker[o] # "open" /\ Opens(o, c)
           THEN /\ breaker' = [breaker EXCEPT ![o] = "open"]
                /\ trial' = [trial EXCEPT ![o] = FALSE]
                /\ resetIn' = [resetIn EXCEPT ![o] = Reset + Late]
           ELSE UNCHANGED <<breaker, trial, resetIn>>
        /\ UNCHANGED fires

CountSuccess(c) ==
    LET o == CircuitOf[c]
    IN  /\ IF breaker[o] = "halfOpen"
           THEN /\ breaker' = [breaker EXCEPT ![o] = "closed"]
                /\ trial' = [trial EXCEPT ![o] = FALSE]
           ELSE UNCHANGED <<breaker, trial>>
        /\ UNCHANGED <<resetIn, fires, fails>>

HalfOpen(o) ==
    /\ breaker[o] = "open"
    /\ resetIn[o] <= Late
    /\ breaker' = [breaker EXCEPT ![o] = "halfOpen"]
    /\ trial' = [trial EXCEPT ![o] = TRUE]
    /\ resetIn' = [resetIn EXCEPT ![o] = 0]
    /\ UNCHANGED <<guardVars, poll, age, due, pause, ttl, fires, fails>>

\* The window (10 s) moves past a call: its fire goes first, then its failure.
Forget(o) ==
    \E c \in fires[o] \cup fails[o] :
        /\ client[c] # "fired"
        /\ fires' = [fires EXCEPT ![o] = @ \ {c}]
        /\ fails' = [fails EXCEPT ![o] = IF c \in fires[o] THEN @ ELSE @ \ {c}]
        /\ UNCHANGED <<guardVars, poll, clocks, breaker, trial>>

-----------------------------------------------------------------------------
(* The answer, the finally block, the lease.                               *)

\* Variant: the timer answers the caller and is not counted.
TimedOut_NotCounted(c) ==
    /\ Timeout(c)
    /\ IsDue(c)
    /\ Within(c, 0)
    /\ UNCHANGED <<poll, age, pause, ttl, circuit>>

TimedOut(c) ==
    /\ Timeout(c)
    /\ IsDue(c)
    /\ Within(c, 0)
    /\ CountFailure(c)
    /\ UNCHANGED <<poll, age, pause, ttl>>

\* The release script replies or fails, and the caller has its answer.
Answer(c) ==
    /\ \/ Release(c, KeyOf[c])
       \/ ReleaseFails(c)
    /\ age' = [age EXCEPT ![c] = 0]
    /\ due' = [due EXCEPT ![c] = 0]
    /\ ttl' = [k \in Keys |-> IF lock'[k] = None THEN 0 ELSE ttl[k]]
    /\ UNCHANGED <<poll, pause, circuit>>

\* Variant: the lease is renewed for as long as the body runs.
Expire_Renewed(k) ==
    /\ lock[k] # None
    /\ ttl[k] = 0
    /\ IF pc[lock[k]] = "off"
       THEN lock' = [lock EXCEPT ![k] = None] /\ UNCHANGED ttl
       ELSE ttl' = [ttl EXCEPT ![k] = Lease] /\ UNCHANGED lock
    /\ UNCHANGED <<client, answer, pc, attempt, poll, age, due, pause, circuit>>

\* Redis drops the key.
Expire(k) ==
    /\ lock[k] # None
    /\ ttl[k] = 0
    /\ lock' = [lock EXCEPT ![k] = None]
    /\ UNCHANGED <<client, answer, pc, attempt, poll, clocks, breaker, trial, fires, fails>>

\* A process dies, with the calls it runs and the memory of its breaker, and comes back.
Dying(o) ==
    {c \in Calls : /\ CircuitOf[c] = o
                   /\ client[c] \notin {"idle", "crashed"}
                   /\ client[c] = "answered" => pc[c] # "off"}

CrashAll(S) ==
    /\ S # {}
    /\ client' = [c \in Calls |-> IF c \in S THEN "crashed" ELSE client[c]]
    /\ pc' = [c \in Calls |-> IF c \in S THEN "off" ELSE pc[c]]
    /\ UNCHANGED <<answer, attempt>>

Die(o) ==
    /\ "crash" \in Faults
    /\ CrashAll(Dying(o))
    /\ age' = [c \in Calls |-> IF c \in Dying(o) THEN 0 ELSE age[c]]
    /\ due' = [c \in Calls |-> IF c \in Dying(o) THEN 0 ELSE due[c]]
    /\ pause' = [c \in Calls |-> IF c \in Dying(o) THEN 0 ELSE pause[c]]
    /\ breaker' = [breaker EXCEPT ![o] = "closed"]
    /\ trial' = [trial EXCEPT ![o] = FALSE]
    /\ resetIn' = [resetIn EXCEPT ![o] = 0]
    /\ fires' = [fires EXCEPT ![o] = {}]
    /\ fails' = [fails EXCEPT ![o] = {}]
    /\ UNCHANGED <<lock, poll, ttl>>

-----------------------------------------------------------------------------
(* The body, of which only its end matters here, and its retries.          *)

Outcome(c, Count(_)) ==
    IF client[c] = "fired" /\ pc'[c] = "off"
    THEN Count(c) /\ Within(c, 0)
    ELSE UNCHANGED <<due, circuit>>

Body(c) ==
    /\ pc[c] = "start"
    /\ \/ BodyReturns(c) /\ Outcome(c, CountSuccess) /\ UNCHANGED pause
       \/ /\ BodyThrows(c)
          /\ Outcome(c, CountFailure)
          /\ pause' = [pause EXCEPT ![c] = IF pc'[c] = "backoff" THEN Delay + Late ELSE 0]
    /\ UNCHANGED <<poll, age, ttl>>

\* Variant: Retry around the breaker instead of inside it.
Again_TimerRestarts(c) ==
    /\ Retry(c)
    /\ pause[c] <= Late
    /\ pause' = [pause EXCEPT ![c] = 0]
    /\ IF client[c] = "fired" THEN Within(c, Timer) ELSE UNCHANGED due
    /\ UNCHANGED <<poll, age, ttl, circuit>>

Again(c) ==
    /\ Retry(c)
    /\ pause[c] <= Late
    /\ pause' = [pause EXCEPT ![c] = 0]
    /\ UNCHANGED <<poll, age, due, ttl, circuit>>

-----------------------------------------------------------------------------
(* Time.  It does not pass what must have happened by now.                 *)

Active(c) == client[c] \in {"waiting", "fired", "releasing"}
Pausing(c) == pc[c] = "backoff"
Held(k) == lock[k] # None
Open(o) == breaker[o] = "open"

Less(S, f) == [x \in DOMAIN f |-> IF x \in S THEN f[x] - 1 ELSE f[x]]

Tick ==
    LET active == {c \in Calls : Active(c)}
        pausing == {c \in Calls : Pausing(c)}
        held == {k \in Keys : Held(k)}
        open == {o \in Circuits : Open(o)}
    IN  /\ active \cup pausing \cup held \cup open # {}
        /\ \A c \in active : due[c] > 0
        /\ \A c \in pausing : pause[c] > 0
        /\ \A k \in held : ttl[k] > 0
        /\ \A o \in open : resetIn[o] > 0
        /\ age' = [c \in Calls |-> IF c \in active THEN age[c] + 1 ELSE age[c]]
        /\ due' = Less(active, due)
        /\ pause' = Less(pausing, pause)
        /\ ttl' = Less(held, ttl)
        /\ resetIn' = Less(open, resetIn)
        /\ UNCHANGED <<guardVars, poll, breaker, trial, fires, fails>>

Finished ==
    /\ \A c \in Calls : client[c] \in {"answered", "crashed"} /\ pc[c] = "off"
    /\ \A k \in Keys : ~Held(k)
    /\ UNCHANGED vars

Outer(c) == Refused(c) \/ Wake(c) \/ SetFails(c) \/ Fire(c) \/ TimedOut(c) \/ Answer(c)

Next ==
    \/ \E c \in Calls : Begin(c) \/ Outer(c) \/ Body(c) \/ Again(c)
    \/ \E k \in Keys : Expire(k)
    \/ \E o \in Circuits : HalfOpen(o) \/ Forget(o) \/ Die(o)
    \/ Tick
    \/ Finished

Spec == Init /\ [][Next]_vars

\* Time goes on, and what is due by then happens.  Nothing is asked of the bodies.
TimerFairness ==
    /\ WF_vars(Tick)
    /\ \A c \in Calls : WF_vars(Outer(c)) /\ WF_vars(Again(c))
    /\ \A k \in Keys : WF_vars(Expire(k))
    /\ \A o \in Circuits : WF_vars(HalfOpen(o))

LiveSpec == Spec /\ TimerFairness

-----------------------------------------------------------------------------
TypeOK ==
    /\ client \in [Calls -> ClientStates]
    /\ answer \in [Calls -> Answers]
    /\ lock \in [Keys -> Calls \cup {None}]
    /\ pc \in [Calls -> {"off", "start", "backoff"}]
    /\ attempt \in [Calls -> 0..MaxAttempts]
    /\ poll \in [Calls -> {"none", "taken", "refused", "lost", "nap"}]
    /\ age \in [Calls -> Nat]
    /\ due \in [Calls -> Nat]
    /\ pause \in [Calls -> Nat]
    /\ ttl \in [Keys -> Nat]
    /\ breaker \in [Circuits -> {"closed", "open", "halfOpen"}]
    /\ trial \in [Circuits -> BOOLEAN]
    /\ resetIn \in [Circuits -> Nat]
    /\ fires \in [Circuits -> SUBSET Calls]
    /\ fails \in [Circuits -> SUBSET Calls]

\* What the program knows of the locks: a key that Redis has set for a call is nobody's
\* until the reply is there.
KnownLock == [k \in Keys |-> IF Held(k) /\ poll[lock[k]] = "taken" THEN None ELSE lock[k]]

Untimed == INSTANCE GuardedCall WITH lock <- KnownLock

BreakerMayBeOpen(c) ==
    \E d \in Calls \ {c} :
        CircuitOf[d] = CircuitOf[c] /\ answer[d] \in {"error", "timeout"}

UntimedStep ==
    \/ \E c \in Calls :
        \/ Untimed!Invoke(c)
        \/ Untimed!AcquireAndFire(c, KeyOf[c])
        \/ Untimed!AcquireAndReject(c, KeyOf[c]) /\ BreakerMayBeOpen(c)
        \/ Untimed!WaitTimeout(c)
        \/ Untimed!AcquireFails(c, KeyOf[c])
        \/ Untimed!Timeout(c)
        \/ Untimed!Release(c, KeyOf[c])
        \/ Untimed!ReleaseFails(c)
        \/ Untimed!BodyReturns(c)
        \/ Untimed!BodyThrows(c)
        \/ Untimed!Retry(c)
    \/ \E k \in Keys : Untimed!LeaseExpires(k)
    \/ \E S \in SUBSET Calls : CrashAll(S) /\ UNCHANGED KnownLock

\* The clocked stack is GuardedCall, which the service modules build on: in particular no
\* lease ends under a call that is between fire() and its answer, and a circuit rejects a
\* call only after another one failed in it.
ImplementsGuardedCall == [][UntimedStep]_(Untimed!guardVars)

\* A caller has its answer in the time of one wait for the lock and one timer, whatever the
\* database does, however many polls or attempts there were.
AnsweredInTime ==
    \A c \in Calls :
        age[c] < Wait + 3 * Late + (IF Poll > Timer THEN Poll ELSE Timer)

\* A half-open circuit is never stuck: either its trial is still to be given away, or a
\* call is in flight whose end decides, at the latest by the timer.
HalfOpenIsDecided ==
    \A o \in Circuits : breaker[o] = "halfOpen" =>
        \/ trial[o]
        \/ \E c \in Calls : CircuitOf[c] = o /\ client[c] = "fired"

\* No crash, lost reply, lost release or hanging body keeps a key for ever.
EveryLockFreed ==
    \A k \in Keys : lock[k] # None ~> lock[k] = None
=============================================================================
