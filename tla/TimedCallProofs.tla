-------------------------- MODULE TimedCallProofs --------------------------
(***************************************************************************)
(* Proofs about TimedCall for any calls, keys, circuits and durations that *)
(* its assumptions allow: callers are answered in time, a half-open        *)
(* circuit is decided, a lease outlasts the timer of its holder, and the   *)
(* clocked decorators implement GuardedCall.                               *)
(***************************************************************************)
EXTENDS TimedCall, TLAPS

\* Whether a call's timers can be what they are: attempts are counted from one.
Counted == \A c \in Calls : pc[c] # "off" => attempt[c] \in 1..MaxAttempts

Waiting == \A c \in Calls : pc[c] = "backoff" => attempt[c] < MaxAttempts

TypeInv == TypeOK /\ Counted /\ Waiting

\* The durations, one by one.
LEMMA Durations ==
    /\ Poll \in Nat /\ Delay \in Nat /\ Timer \in Nat /\ Wait \in Nat
    /\ Reset \in Nat /\ Lease \in Nat /\ Late \in Nat
    /\ Poll > 0 /\ Timer > 0 /\ Wait > 0
    /\ Lease > Timer + 2 * Late
  BY TimesAssumption, LeaseAssumption

LEMMA InitTypeInv == Init => TypeInv
  BY AttemptsAssumption
     DEF Init, GuardInit, TypeInv, TypeOK, Counted, Waiting, ClientStates, Answers

\* A SET leaves the lock, the lease and the loop in their types.
LEMMA SetNXTypes ==
    ASSUME TypeInv, NEW c \in Calls, SetNX(c)
    PROVE  /\ lock' \in [Keys -> Calls \cup {None}]
           /\ ttl' \in [Keys -> Nat]
           /\ poll' \in [Calls -> {"none", "taken", "refused", "lost", "nap"}]
  <1>0. KeyOf[c] \in Keys /\ Lease \in Nat
    BY CircuitsAssumption, Durations
  <1>. QED
    BY <1>0 DEF TypeInv, TypeOK, SetNX

\* The lock loop and the breaker's fire().
LEMMA OuterTypeInv ==
    ASSUME TypeInv, NEW c \in Calls, Begin(c) \/ Refused(c) \/ Wake(c) \/ SetFails(c) \/ Fire(c)
    PROVE  TypeInv'
  <1>0. KeyOf[c] \in Keys /\ CircuitOf[c] \in Circuits
    BY CircuitsAssumption
  <1>1. CASE Begin(c)
    BY <1>1, SetNXTypes, Durations
       DEF TypeInv, TypeOK, Counted, Waiting, Begin, Within, circuit, ClientStates
  <1>2. CASE Refused(c)
    BY <1>0, <1>2, Durations
       DEF TypeInv, TypeOK, Counted, Waiting, Refused, Within, circuit, guardVars
  <1>3. CASE Wake(c) /\ age[c] < Wait
    BY <1>3, SetNXTypes, Durations
       DEF TypeInv, TypeOK, Counted, Waiting, Wake, Within, circuit
  <1>4. CASE SetFails(c) \/ (Wake(c) /\ ~(age[c] < Wait))
    BY <1>4 DEF TypeInv, TypeOK, Counted, Waiting, SetFails, Wake, Quit, NotLocked, circuit,
                ClientStates, Answers
  <1>5. CASE Fire(c)
    <2>1. /\ client' \in [Calls -> ClientStates]
          /\ answer' \in [Calls -> Answers]
          /\ pc' \in [Calls -> {"off", "start", "backoff"}]
      BY <1>5 DEF TypeInv, TypeOK, Fire, ClientStates, Answers
    <2>4. 1 \in 1..MaxAttempts /\ 1 \in 0..MaxAttempts
      BY AttemptsAssumption
    <2>5. attempt' \in [Calls -> 0..MaxAttempts]
      BY <1>5, <2>4 DEF TypeInv, TypeOK, Fire
    <2>6. Counted' /\ Waiting'
      BY <1>5, <2>4 DEF TypeInv, TypeOK, Counted, Waiting, Fire
    <2>2. due' \in [Calls -> Nat]
      BY <1>5, Durations DEF TypeInv, TypeOK, Fire, Within
    <2>3. /\ poll' \in [Calls -> {"none", "taken", "refused", "lost", "nap"}]
          /\ trial' \in [Circuits -> BOOLEAN]
          /\ fires' \in [Circuits -> SUBSET Calls]
      BY <1>0, <1>5 DEF TypeInv, TypeOK, Fire
    <2>. QED
      BY <1>5, <2>1, <2>2, <2>3, <2>5, <2>6 DEF TypeInv, TypeOK, Fire
  <1>. QED
    BY <1>1, <1>2, <1>3, <1>4, <1>5

\* What opossum counts stays in its types.
CircuitOK ==
    /\ breaker \in [Circuits -> {"closed", "open", "halfOpen"}]
    /\ trial \in [Circuits -> BOOLEAN]
    /\ resetIn \in [Circuits -> Nat]
    /\ fires \in [Circuits -> SUBSET Calls]
    /\ fails \in [Circuits -> SUBSET Calls]

LEMMA CountTypes ==
    ASSUME TypeInv, NEW c \in Calls, CountFailure(c) \/ CountSuccess(c) \/ UNCHANGED circuit
    PROVE  CircuitOK'
  <1>0. CircuitOf[c] \in Circuits /\ Reset + Late \in Nat
    BY CircuitsAssumption, Durations
  <1>1. CASE CountFailure(c)
    BY <1>0, <1>1 DEF TypeInv, TypeOK, CircuitOK, CountFailure
  <1>2. CASE CountSuccess(c)
    BY <1>0, <1>2 DEF TypeInv, TypeOK, CircuitOK, CountSuccess
  <1>3. CASE UNCHANGED circuit
    BY <1>3 DEF TypeInv, TypeOK, CircuitOK, circuit
  <1>. QED
    BY <1>1, <1>2, <1>3

\* How the end of a body, or of an attempt, reaches the outer half and the circuit.
LEMMA BodyEnds ==
    ASSUME NEW c \in Calls, Body(c)
    PROVE  /\ pc[c] = "start"
           /\ UNCHANGED <<lock, attempt, poll, age, ttl>>
           /\ \/ BodyReturns(c) /\ UNCHANGED pause
              \/ /\ BodyThrows(c)
                 /\ pause' = [pause EXCEPT ![c] = IF pc'[c] = "backoff" THEN Delay + Late ELSE 0]
           /\ \/ /\ client[c] = "fired" /\ pc'[c] = "off" /\ Within(c, 0)
                 /\ (CountSuccess(c) /\ BodyReturns(c)) \/ (CountFailure(c) /\ BodyThrows(c))
              \/ /\ ~(client[c] = "fired" /\ pc'[c] = "off")
                 /\ UNCHANGED <<due, circuit>>
  <1>1. CASE BodyReturns(c) /\ Outcome(c, CountSuccess) /\ UNCHANGED pause
    BY <1>1 DEF Body, Outcome, BodyReturns
  <1>2. CASE /\ BodyThrows(c)
             /\ Outcome(c, CountFailure)
             /\ pause' = [pause EXCEPT ![c] = IF pc'[c] = "backoff" THEN Delay + Late ELSE 0]
    BY <1>2 DEF Body, Outcome, BodyThrows, BodyContinues
  <1>. QED
    BY <1>1, <1>2 DEF Body

LEMMA BodyTypeInv ==
    ASSUME TypeInv, NEW c \in Calls, Body(c) \/ Again(c)
    PROVE  TypeInv'
  <1>1. CASE Body(c)
    <2>1. CircuitOK'
      BY <1>1, BodyEnds, CountTypes
    <2>2. due' \in [Calls -> Nat]
      BY <1>1, BodyEnds, Durations DEF TypeInv, TypeOK, Within
    <2>3. pause' \in [Calls -> Nat]
      BY <1>1, BodyEnds, Durations DEF TypeInv, TypeOK
    <2>4. /\ client' \in [Calls -> ClientStates]
          /\ answer' \in [Calls -> Answers]
          /\ pc' \in [Calls -> {"off", "start", "backoff"}]
      BY <1>1, BodyEnds DEF TypeInv, TypeOK, BodyReturns, BodyThrows, BodyContinues, Goto, Settle,
                            ClientStates, Answers
    <2>5. Counted' /\ Waiting'
      BY <1>1, BodyEnds DEF TypeInv, TypeOK, Counted, Waiting, BodyReturns, BodyThrows,
                            BodyContinues, Goto
    <2>. QED
      BY <1>1, <2>1, <2>2, <2>3, <2>4, <2>5, BodyEnds DEF TypeInv, TypeOK, CircuitOK
  <1>2. CASE Again(c)
    BY <1>2, AttemptsAssumption
       DEF TypeInv, TypeOK, Counted, Waiting, Again, Retry, Goto, circuit
  <1>. QED
    BY <1>1, <1>2

LEMMA AnswerTypeInv ==
    ASSUME TypeInv, NEW c \in Calls, TimedOut(c) \/ Answer(c)
    PROVE  TypeInv'
  <1>1. CASE TimedOut(c)
    <2>1. CircuitOK'
      BY <1>1, CountTypes DEF TimedOut
    <2>2. due' \in [Calls -> Nat]
      BY <1>1, Durations DEF TypeInv, TypeOK, TimedOut, Within
    <2>. QED
      BY <1>1, <2>1, <2>2 DEF TypeInv, TypeOK, Counted, Waiting, CircuitOK, TimedOut, Timeout,
                              ClientStates, Answers
  <1>2. CASE Answer(c)
    BY <1>2 DEF TypeInv, TypeOK, Counted, Waiting, Answer, Release, ReleaseFails, circuit,
                ClientStates
  <1>. QED
    BY <1>1, <1>2

LEMMA WorldTypeInv ==
    ASSUME TypeInv,
           \/ \E k \in Keys : Expire(k)
           \/ \E o \in Circuits : HalfOpen(o) \/ Forget(o) \/ Die(o)
           \/ Tick
    PROVE  TypeInv'
  <1>1. ASSUME NEW k \in Keys, Expire(k) PROVE TypeInv'
    BY <1>1 DEF TypeInv, TypeOK, Counted, Waiting, Expire, clocks
  <1>2. ASSUME NEW o \in Circuits, HalfOpen(o) PROVE TypeInv'
    BY <1>2 DEF TypeInv, TypeOK, Counted, Waiting, HalfOpen, guardVars
  <1>3. ASSUME NEW o \in Circuits, Forget(o) PROVE TypeInv'
    BY <1>3 DEF TypeInv, TypeOK, Counted, Waiting, Forget, guardVars, clocks
  <1>4. ASSUME NEW o \in Circuits, Die(o) PROVE TypeInv'
    BY <1>4 DEF TypeInv, TypeOK, Counted, Waiting, Die, CrashAll, ClientStates
  <1>5. CASE Tick
    <2>1. age' \in [Calls -> Nat]
      BY <1>5 DEF TypeInv, TypeOK, Tick
    <2>2. due' \in [Calls -> Nat] /\ pause' \in [Calls -> Nat]
      BY <1>5 DEF TypeInv, TypeOK, Tick, Less
    <2>3. ttl' \in [Keys -> Nat]
      BY <1>5 DEF TypeInv, TypeOK, Tick, Less
    <2>4. resetIn' \in [Circuits -> Nat]
      BY <1>5 DEF TypeInv, TypeOK, Tick, Less
    <2>. QED
      BY <1>5, <2>1, <2>2, <2>3, <2>4 DEF TypeInv, TypeOK, Counted, Waiting, Tick, guardVars
  <1>. QED
    BY <1>1, <1>2, <1>3, <1>4, <1>5

LEMMA NextTypeInv == TypeInv /\ [Next]_vars => TypeInv'
  <1> SUFFICES ASSUME TypeInv, [Next]_vars PROVE TypeInv'
    OBVIOUS
  <1>1. CASE UNCHANGED vars
    BY <1>1 DEF TypeInv, TypeOK, Counted, Waiting, vars, guardVars, clocks
  <1>. QED
    BY <1>1, OuterTypeInv, BodyTypeInv, AnswerTypeInv, WorldTypeInv DEF Next, Outer, Finished

-----------------------------------------------------------------------------
(* A half-open circuit.                                                    *)

Decided(o) ==
    breaker[o] = "halfOpen" =>
        \/ trial[o]
        \/ \E c \in Calls : CircuitOf[c] = o /\ client[c] = "fired"

\* Steps that leave the circuits alone and no call's fire() undone.
LEMMA CircuitsKept ==
    ASSUME HalfOpenIsDecided, UNCHANGED circuit,
           \A c \in Calls : client[c] = "fired" => client'[c] = "fired"
    PROVE  HalfOpenIsDecided'
  BY DEF HalfOpenIsDecided, circuit

\* The call whose end is counted in a half-open circuit decides it.
LEMMA EndDecides ==
    ASSUME TypeInv, HalfOpenIsDecided, NEW c \in Calls, CountFailure(c) \/ CountSuccess(c),
           \A d \in Calls \ {c} : client'[d] = client[d]
    PROVE  HalfOpenIsDecided'
  <1>0. CircuitOf[c] \in Circuits
    BY CircuitsAssumption
  <1>1. SUFFICES ASSUME NEW o \in Circuits PROVE Decided(o)'
    BY DEF HalfOpenIsDecided, Decided
  <1>2. CASE o = CircuitOf[c] /\ CountFailure(c)
    BY <1>0, <1>2 DEF TypeInv, TypeOK, CountFailure, Opens, Decided
  <1>3. CASE o = CircuitOf[c] /\ CountSuccess(c)
    BY <1>0, <1>3 DEF TypeInv, TypeOK, CountSuccess, Decided
  <1>4. CASE o # CircuitOf[c]
    <2>1. breaker'[o] = breaker[o] /\ trial'[o] = trial[o]
      BY <1>0, <1>4 DEF TypeInv, TypeOK, CountFailure, CountSuccess
    <2>. QED
      BY <1>4, <2>1 DEF HalfOpenIsDecided, Decided
  <1>. QED
    BY <1>2, <1>3, <1>4

LEMMA NextDecided ==
    ASSUME TypeInv, HalfOpenIsDecided, [Next]_vars
    PROVE  HalfOpenIsDecided'
  <1>1. ASSUME NEW c \in Calls, Begin(c) \/ Refused(c) \/ Wake(c) \/ SetFails(c) \/ Again(c) \/ Answer(c)
        PROVE  HalfOpenIsDecided'
    <2>1. UNCHANGED circuit
      BY <1>1 DEF Begin, Refused, Wake, SetFails, Quit, Again, Answer
    <2>2. \A d \in Calls : client[d] = "fired" => client'[d] = "fired"
      BY <1>1 DEF TypeInv, TypeOK, Begin, Refused, Wake, SetFails, Quit, NotLocked, Again, Retry, Answer,
                  Release, ReleaseFails, guardVars
    <2>. QED
      BY <2>1, <2>2, CircuitsKept
  <1>2. ASSUME NEW c \in Calls, Fire(c) PROVE HalfOpenIsDecided'
    <2>0. CircuitOf[c] \in Circuits
      BY CircuitsAssumption
    <2>1. SUFFICES ASSUME NEW o \in Circuits PROVE Decided(o)'
      BY DEF HalfOpenIsDecided, Decided
    <2>2. CASE o = CircuitOf[c] /\ Lets(o)
      BY <1>2, <2>2 DEF TypeInv, TypeOK, Fire, Decided
    <2>3. CASE ~(o = CircuitOf[c] /\ Lets(o))
      <3>1. breaker'[o] = breaker[o] /\ (trial'[o] = trial[o] \/ ~Lets(o))
        BY <1>2, <2>0, <2>3 DEF TypeInv, TypeOK, Fire
      <3>2. \A d \in Calls : client[d] = "fired" => client'[d] = "fired"
        BY <1>2 DEF TypeInv, TypeOK, Fire
      <3>. QED
        BY <3>1, <3>2 DEF HalfOpenIsDecided, Decided, Lets
    <2>. QED
      BY <2>2, <2>3
  <1>3. ASSUME NEW c \in Calls, TimedOut(c) \/ Body(c) PROVE HalfOpenIsDecided'
    <2>1. CASE TimedOut(c)
      BY <1>3, <2>1, EndDecides DEF TypeInv, TypeOK, TimedOut, Timeout
    <2>2. CASE Body(c) /\ client[c] = "fired" /\ pc'[c] = "off"
      <3>1. \A d \in Calls \ {c} : client'[d] = client[d]
        BY <2>2, BodyEnds DEF TypeInv, TypeOK, BodyReturns, BodyThrows, BodyContinues, Settle
      <3>. QED
        BY <2>2, <3>1, BodyEnds, EndDecides
    <2>3. CASE Body(c) /\ ~(client[c] = "fired" /\ pc'[c] = "off")
      <3>1. \A d \in Calls : client[d] = "fired" => client'[d] = "fired"
        BY <2>3, BodyEnds DEF TypeInv, TypeOK, BodyReturns, BodyThrows, BodyContinues, Goto, Settle
      <3>. QED
        BY <2>3, <3>1, BodyEnds, CircuitsKept
    <2>. QED
      BY <1>3, <2>1, <2>2, <2>3
  <1>4. ASSUME NEW k \in Keys, Expire(k) PROVE HalfOpenIsDecided'
    BY <1>4, CircuitsKept DEF Expire, circuit, clocks
  <1>5. ASSUME NEW o \in Circuits, HalfOpen(o) \/ Forget(o) PROVE HalfOpenIsDecided'
    BY <1>5 DEF TypeInv, TypeOK, HalfOpen, Forget, HalfOpenIsDecided, guardVars
  <1>6. ASSUME NEW o \in Circuits, Die(o) PROVE HalfOpenIsDecided'
    <2>1. SUFFICES ASSUME NEW p \in Circuits PROVE Decided(p)'
      BY DEF HalfOpenIsDecided, Decided
    <2>2. CASE p = o
      BY <1>6, <2>2 DEF TypeInv, TypeOK, Die, Decided
    <2>3. CASE p # o
      <3>1. breaker'[p] = breaker[p] /\ trial'[p] = trial[p]
        BY <1>6, <2>3 DEF TypeInv, TypeOK, Die
      <3>2. \A d \in Calls : CircuitOf[d] = p => client'[d] = client[d]
        BY <1>6, <2>3 DEF Die, CrashAll, Dying
      <3>3. Decided(p)
        BY DEF HalfOpenIsDecided, Decided
      <3>. QED
        BY <3>1, <3>2, <3>3, Zenon DEF Decided
    <2>. QED
      BY <2>2, <2>3
  <1>7. CASE Tick \/ UNCHANGED vars
    BY <1>7 DEF HalfOpenIsDecided, Tick, vars, guardVars
  <1>. QED
    BY <1>1, <1>2, <1>3, <1>4, <1>5, <1>6, <1>7 DEF Next, Outer, Finished

\* However calls, retries, timers and crashes fall together, a half-open circuit has its trial
\* to give away or a call in flight that decides it: it never rejects every call for ever.
THEOREM HalfOpenCorrect == Spec => []HalfOpenIsDecided
  <1>1. Init => TypeInv /\ HalfOpenIsDecided
    BY InitTypeInv DEF Init, HalfOpenIsDecided
  <1>2. TypeInv /\ HalfOpenIsDecided /\ [Next]_vars => (TypeInv /\ HalfOpenIsDecided)'
    BY NextTypeInv, NextDecided
  <1>. QED
    BY <1>1, <1>2, PTL DEF Spec

-----------------------------------------------------------------------------
(* Time.  What a call has used and what its pending timer may still take   *)
(* never exceed the share of the stage it is in.                           *)

Asking(c) == client[c] = "waiting" /\ poll[c] \in {"taken", "refused", "lost"}

Timely(c) ==
    /\ Asking(c) => age[c] + due[c] < Wait + Late
    /\ (client[c] = "waiting" /\ poll[c] = "nap") => age[c] + due[c] < Wait + 2 * Late + Poll
    /\ client[c] = "fired" => age[c] + due[c] < Wait + 2 * Late + Timer
    /\ client[c] = "releasing" => age[c] + due[c] < Wait + 3 * Late + Timer
    /\ client[c] = "waiting" => poll[c] # "none"
    /\ ~Active(c) => age[c] = 0

AllTimely == \A c \in Calls : Timely(c)

\* A call whose outer half does not move stays in time.
LEMMA TimelyKept ==
    ASSUME NEW c \in Calls, Timely(c),
           UNCHANGED <<client[c], poll[c], age[c], due[c]>>
    PROVE  Timely(c)'
  BY DEF Timely, Asking, Active

\* The sum of age and due.
LEMMA TimelyTick ==
    ASSUME TypeInv, AllTimely, Tick, NEW c \in Calls
    PROVE  Timely(c)'
  <1>1. Timely(c) /\ age[c] \in Nat /\ due[c] \in Nat
    BY DEF AllTimely, TypeInv, TypeOK
  <1>2. UNCHANGED <<client, poll>>
    BY DEF Tick, guardVars
  <1>3. CASE Active(c)
    <2>1. age'[c] = age[c] + 1 /\ due'[c] = due[c] - 1
      BY <1>3 DEF Tick, Less, TypeInv, TypeOK
    <2>. QED
      BY <1>1, <1>2, <1>3, <2>1, Durations DEF Timely, Asking, Active
  <1>4. CASE ~Active(c)
    <2>1. age'[c] = age[c]
      BY <1>4 DEF Tick, TypeInv, TypeOK
    <2>. QED
      BY <1>1, <1>2, <1>4, <2>1 DEF Timely, Asking, Active
  <1>. QED
    BY <1>3, <1>4

LEMMA TimelyMove ==
    ASSUME TypeInv, AllTimely, NEW c \in Calls, Begin(c) \/ Outer(c) \/ Body(c) \/ Again(c)
    PROVE  Timely(c)'
  <1>0. Timely(c) /\ age[c] \in Nat /\ due[c] \in Nat
    BY DEF AllTimely, TypeInv, TypeOK
  <1>1. CASE Begin(c)
    <2>1. client'[c] = "waiting" /\ age'[c] = 0 /\ due'[c] = Late
      BY <1>0, <1>1, Durations DEF Begin, Within, Timely, Active, TypeInv, TypeOK
    <2>2. poll'[c] \in {"taken", "refused", "lost"}
      BY <1>1 DEF Begin, SetNX, TypeInv, TypeOK
    <2>. QED
      BY <2>1, <2>2, Durations DEF Timely, Asking, Active
  <1>2. CASE Refused(c)
    BY <1>0, <1>2, Durations DEF Refused, Within, guardVars, Timely, Asking, Active, TypeInv, TypeOK
  <1>3. CASE Wake(c) /\ age[c] < Wait
    <2>1. client'[c] = "waiting" /\ age'[c] = age[c] /\ due'[c] = Late
      BY <1>3, Durations DEF Wake, Within, TypeInv, TypeOK
    <2>2. poll'[c] \in {"taken", "refused", "lost"}
      BY <1>3 DEF Wake, SetNX, TypeInv, TypeOK
    <2>. QED
      BY <1>0, <1>3, <2>1, <2>2, Durations DEF Timely, Asking, Active
  <1>4. CASE SetFails(c) \/ (Wake(c) /\ ~(age[c] < Wait))
    BY <1>4 DEF SetFails, Wake, Quit, NotLocked, Timely, Asking, Active, TypeInv, TypeOK
  <1>5. CASE Fire(c)
    BY <1>0, <1>5, Durations DEF Fire, Within, Timely, Asking, Active, TypeInv, TypeOK
  <1>6. CASE TimedOut(c)
    BY <1>0, <1>6, Durations DEF TimedOut, Timeout, Within, Timely, Asking, Active, TypeInv, TypeOK
  <1>7. CASE Answer(c)
    BY <1>7 DEF Answer, Release, ReleaseFails, Timely, Asking, Active, TypeInv, TypeOK
  <1>8. CASE Body(c)
    <2>1. CASE client[c] = "fired" /\ pc'[c] = "off"
      <3>1. client'[c] = "releasing"
        BY <1>8, <2>1, BodyEnds DEF BodyReturns, BodyThrows, BodyContinues, Goto, Settle, TypeInv, TypeOK
      <3>2. age'[c] = age[c] /\ due'[c] = Late
        BY <1>8, <2>1, BodyEnds, Durations DEF Within, TypeInv, TypeOK
      <3>. QED
        BY <1>0, <2>1, <3>1, <3>2, Durations DEF Timely, Asking, Active
    <2>2. CASE ~(client[c] = "fired" /\ pc'[c] = "off")
      <3>1. UNCHANGED <<poll, age, due>>
        BY <1>8, <2>2, BodyEnds
      <3>2. client'[c] = client[c]
        BY <1>8, <2>2, BodyEnds
           DEF BodyReturns, BodyThrows, BodyContinues, Goto, Settle, TypeInv, TypeOK
      <3>. QED
        BY <1>0, <3>1, <3>2, TimelyKept
    <2>. QED
      BY <2>1, <2>2
  <1>9. CASE Again(c)
    BY <1>0, <1>9, TimelyKept DEF Again, Retry
  <1>. QED
    BY <1>1, <1>2, <1>3, <1>4, <1>5, <1>6, <1>7, <1>8, <1>9 DEF Outer

\* The actions of one call do not touch the outer half of another.
LEMMA OthersUntouched ==
    ASSUME TypeInv, NEW c \in Calls, NEW d \in Calls, c # d,
           Begin(c) \/ Outer(c) \/ Body(c) \/ Again(c)
    PROVE  UNCHANGED <<client[d], answer[d], poll[d], age[d], due[d]>>
  <1>1. CASE Begin(c) \/ Refused(c)
    BY <1>1 DEF Begin, Refused, SetNX, Within, guardVars, TypeInv, TypeOK
  <1>2. CASE Wake(c) \/ SetFails(c)
    BY <1>2 DEF Wake, SetFails, Quit, NotLocked, SetNX, Within, TypeInv, TypeOK
  <1>3. CASE Fire(c)
    BY <1>3 DEF Fire, Within, TypeInv, TypeOK
  <1>4. CASE TimedOut(c) \/ Answer(c)
    BY <1>4 DEF TimedOut, Timeout, Answer, Release, ReleaseFails, Within, TypeInv, TypeOK
  <1>5. CASE Body(c)
    BY <1>5, BodyEnds
       DEF BodyReturns, BodyThrows, BodyContinues, Goto, Settle, Within, TypeInv, TypeOK
  <1>6. CASE Again(c)
    BY <1>6 DEF Again, Retry
  <1>. QED
    BY <1>1, <1>2, <1>3, <1>4, <1>5, <1>6 DEF Outer

LEMMA NextTimely ==
    ASSUME TypeInv, AllTimely, [Next]_vars
    PROVE  AllTimely'
  <1>0. SUFFICES ASSUME NEW d \in Calls PROVE Timely(d)'
    BY DEF AllTimely
  <1>1. Timely(d)
    BY DEF AllTimely
  <1>2. ASSUME NEW c \in Calls, Begin(c) \/ Outer(c) \/ Body(c) \/ Again(c) PROVE Timely(d)'
    BY <1>1, <1>2, TimelyMove, OthersUntouched, TimelyKept
  <1>3. ASSUME NEW k \in Keys, Expire(k) PROVE Timely(d)'
    BY <1>1, <1>3, TimelyKept DEF Expire, clocks
  <1>4. ASSUME NEW o \in Circuits, HalfOpen(o) \/ Forget(o) PROVE Timely(d)'
    BY <1>1, <1>4, TimelyKept DEF HalfOpen, Forget, guardVars, clocks
  <1>5. ASSUME NEW o \in Circuits, Die(o) PROVE Timely(d)'
    BY <1>1, <1>5 DEF Die, CrashAll, Timely, Asking, Active
  <1>6. CASE Tick
    BY <1>6, TimelyTick
  <1>7. CASE UNCHANGED vars
    BY <1>1, <1>7, TimelyKept DEF vars, guardVars, clocks
  <1>. QED
    BY <1>2, <1>3, <1>4, <1>5, <1>6, <1>7 DEF Next, Finished

\* For any durations: every caller has its answer within one wait for the lock, one timer and
\* three late replies, whatever the database does and however often Retry runs the body.
THEOREM AnswerCorrect == Spec => []AnsweredInTime
  <1>1. Init => TypeInv /\ AllTimely
    <2>1. ASSUME Init, NEW c \in Calls PROVE client[c] = "idle" /\ age[c] = 0
      BY <2>1 DEF Init, GuardInit
    <2>2. Init => AllTimely
      BY <2>1 DEF AllTimely, Timely, Asking, Active
    <2>. QED
      BY <2>2, InitTypeInv
  <1>2. TypeInv /\ AllTimely /\ [Next]_vars => (TypeInv /\ AllTimely)'
    BY NextTypeInv, NextTimely
  <1>3. TypeInv /\ AllTimely => AnsweredInTime
    <2> SUFFICES ASSUME TypeInv, AllTimely, NEW c \in Calls
                 PROVE  age[c] < Wait + 3 * Late + (IF Poll > Timer THEN Poll ELSE Timer)
      BY DEF AnsweredInTime
    <2>1. Timely(c) /\ age[c] \in Nat /\ due[c] \in Nat
      BY DEF AllTimely, TypeInv, TypeOK
    <2>2. poll[c] \in {"none", "taken", "refused", "lost", "nap"}
      BY DEF TypeInv, TypeOK
    <2>. QED
      BY <2>1, <2>2, Durations DEF Timely, Asking, Active
  <1>. QED
    BY <1>1, <1>2, <1>3, PTL DEF Spec

-----------------------------------------------------------------------------
(* The lease.                                                              *)

Covered(c) ==
    /\ (client[c] = "waiting" /\ poll[c] = "taken") =>
        lock[KeyOf[c]] = c /\ ttl[KeyOf[c]] + Late >= Lease + due[c]
    /\ client[c] = "fired" => lock[KeyOf[c]] = c /\ ttl[KeyOf[c]] > due[c]
    /\ client[c] \in {"idle", "fired", "releasing", "answered"} => poll[c] = "none"

OwnKey(k) == lock[k] # None => KeyOf[lock[k]] = k /\ client[lock[k]] # "idle"

LeaseInv == (\A c \in Calls : Covered(c)) /\ (\A k \in Keys : OwnKey(k))

\* A call is covered as long as neither it nor its key is touched.
LEMMA CoveredKept ==
    ASSUME NEW c \in Calls, Covered(c), UNCHANGED <<client[c], poll[c], due[c]>>,
           lock[KeyOf[c]] = c => UNCHANGED <<lock[KeyOf[c]], ttl[KeyOf[c]]>>
    PROVE  Covered(c)'
  BY DEF Covered

\* The actions of one call take no key from another.
LEMMA KeysOfOthers ==
    ASSUME TypeInv, LeaseInv, NEW c \in Calls, NEW d \in Calls, c # d,
           Begin(c) \/ Outer(c) \/ Body(c) \/ Again(c)
    PROVE  lock[KeyOf[d]] = d => UNCHANGED <<lock[KeyOf[d]], ttl[KeyOf[d]]>>
  <1>0. KeyOf[c] \in Keys /\ KeyOf[d] \in Keys /\ d # None
    BY CircuitsAssumption, NoneAssumption
  <1>1. CASE UNCHANGED <<lock, ttl>>
    BY <1>1
  <1>2. CASE SetNX(c)
    BY <1>0, <1>2 DEF SetNX, TypeInv, TypeOK
  <1>3. CASE Answer(c)
    BY <1>0, <1>3 DEF Answer, Release, ReleaseFails, TypeInv, TypeOK
  <1>4. CASE Refused(c) \/ SetFails(c) \/ Fire(c) \/ TimedOut(c) \/ Body(c) \/ Again(c)
    BY <1>1, <1>4, BodyEnds DEF Refused, SetFails, Quit, Fire, TimedOut, Timeout, Again, Retry, guardVars
  <1>. QED
    BY <1>1, <1>2, <1>3, <1>4 DEF Outer, Begin, Wake, Quit

\* What a call does for itself: the SET starts the lease, and the reply, at most Late later,
\* leaves more of it than the timer takes.
LEMMA CoveredMove ==
    ASSUME TypeInv, LeaseInv, NEW c \in Calls, Begin(c) \/ Outer(c) \/ Body(c) \/ Again(c)
    PROVE  Covered(c)'
  <1>0. /\ Covered(c) /\ KeyOf[c] \in Keys /\ due[c] \in Nat /\ ttl[KeyOf[c]] \in Nat
        /\ poll[c] \in {"none", "taken", "refused", "lost", "nap"}
    BY CircuitsAssumption DEF LeaseInv, TypeInv, TypeOK
  <1>1. CASE Begin(c) \/ (Wake(c) /\ age[c] < Wait)
    <2>1. client'[c] = "waiting" /\ due'[c] = Late /\ SetNX(c)
      BY <1>1, Durations DEF Begin, Wake, Within, TypeInv, TypeOK
    <2>2. poll'[c] = "taken" => lock'[KeyOf[c]] = c /\ ttl'[KeyOf[c]] = Lease
      BY <1>0, <2>1 DEF SetNX, TypeInv, TypeOK
    <2>. QED
      BY <2>1, <2>2, Durations DEF Covered
  <1>2. CASE Refused(c)
    BY <1>2 DEF Refused, guardVars, Covered, TypeInv, TypeOK
  <1>3. CASE SetFails(c) \/ (Wake(c) /\ ~(age[c] < Wait))
    BY <1>3 DEF SetFails, Wake, Quit, NotLocked, Covered, TypeInv, TypeOK
  <1>4. CASE Fire(c)
    <2>1. CASE client'[c] = "fired"
      <3>1. due'[c] = Timer + Late
        BY <1>4, <2>1, Durations DEF Fire, Within, TypeInv, TypeOK
      <3>2. UNCHANGED <<lock, ttl>> /\ poll'[c] = "none"
        BY <1>4 DEF Fire, TypeInv, TypeOK
      <3>3. client[c] = "waiting" /\ poll[c] = "taken"
        BY <1>4 DEF Fire
      <3>. QED
        BY <1>0, <2>1, <3>1, <3>2, <3>3, Durations DEF Covered
    <2>2. CASE client'[c] # "fired"
      BY <1>4, <2>2 DEF Fire, Covered, TypeInv, TypeOK
    <2>. QED
      BY <2>1, <2>2
  <1>5. CASE TimedOut(c)
    BY <1>0, <1>5 DEF TimedOut, Timeout, Covered, TypeInv, TypeOK
  <1>6. CASE Answer(c)
    BY <1>0, <1>6 DEF Answer, Release, ReleaseFails, Covered, TypeInv, TypeOK
  <1>7. CASE Body(c)
    <2>1. UNCHANGED <<lock, ttl, poll>>
      BY <1>7, BodyEnds
    <2>2. CASE client'[c] = client[c]
      <3>1. UNCHANGED due
        BY <1>7, <2>2, BodyEnds
           DEF BodyReturns, BodyThrows, BodyContinues, Goto, Settle, TypeInv, TypeOK
      <3>. QED
        BY <1>0, <2>1, <2>2, <3>1, CoveredKept
    <2>3. CASE client'[c] # client[c]
      <3>1. client'[c] = "releasing" /\ client[c] = "fired"
        BY <1>7, <2>3, BodyEnds DEF BodyReturns, BodyThrows, BodyContinues, Settle, TypeInv, TypeOK
      <3>. QED
        BY <1>0, <2>1, <3>1 DEF Covered
    <2>. QED
      BY <2>2, <2>3
  <1>8. CASE Again(c)
    BY <1>0, <1>8, CoveredKept DEF Again, Retry
  <1>. QED
    BY <1>1, <1>2, <1>3, <1>4, <1>5, <1>6, <1>7, <1>8 DEF Outer

\* Every key is its holder's own.
LEMMA OwnKeyMove ==
    ASSUME TypeInv, LeaseInv, NEW k \in Keys, NEW c \in Calls,
           Begin(c) \/ Outer(c) \/ Body(c) \/ Again(c)
    PROVE  OwnKey(k)'
  <1>0. OwnKey(k) /\ lock[k] \in Calls \cup {None} /\ c # None
    BY NoneAssumption DEF LeaseInv, TypeInv, TypeOK
  <1>1. client[c] # "idle" => client'[c] # "idle"
    <2>1. CASE Begin(c) \/ Refused(c) \/ Fire(c) \/ Again(c)
      BY <2>1 DEF Begin, Refused, Fire, Again, Retry, guardVars, TypeInv, TypeOK
    <2>2. CASE Wake(c) \/ SetFails(c)
      BY <2>2 DEF Wake, SetFails, Quit, NotLocked, TypeInv, TypeOK
    <2>3. CASE TimedOut(c) \/ Answer(c)
      BY <2>3 DEF TimedOut, Timeout, Answer, Release, ReleaseFails, TypeInv, TypeOK
    <2>4. CASE Body(c)
      BY <2>4, BodyEnds DEF BodyReturns, BodyThrows, BodyContinues, Settle, TypeInv, TypeOK
    <2>. QED
      BY <2>1, <2>2, <2>3, <2>4 DEF Outer
  <1>2. \A d \in Calls : client[d] # "idle" => client'[d] # "idle"
    BY <1>1, OthersUntouched
  <1>3. lock'[k] \in {lock[k], None} \/ (k = KeyOf[c] /\ lock'[k] = c /\ client'[c] # "idle")
    <2>1. CASE SetNX(c) /\ (Begin(c) \/ (Wake(c) /\ UNCHANGED client))
      <3>1. client'[c] # "idle"
        BY <2>1 DEF Begin, Wake, TypeInv, TypeOK
      <3>. QED
        BY <2>1, <3>1 DEF SetNX, TypeInv, TypeOK
    <2>2. CASE UNCHANGED lock
      BY <2>2
    <2>3. CASE Answer(c)
      BY <2>3 DEF Answer, Release, ReleaseFails, TypeInv, TypeOK
    <2>. QED
      BY <2>1, <2>2, <2>3, BodyEnds
         DEF Begin, Outer, Refused, Wake, SetFails, Quit, Fire, TimedOut, Timeout, Again, Retry, guardVars
  <1>. QED
    BY <1>0, <1>2, <1>3 DEF OwnKey

LEMMA NextLeaseInv ==
    ASSUME TypeInv, LeaseInv, [Next]_vars
    PROVE  LeaseInv'
  <1>1. ASSUME NEW c \in Calls, Begin(c) \/ Outer(c) \/ Body(c) \/ Again(c) PROVE LeaseInv'
    <2>1. ASSUME NEW d \in Calls PROVE Covered(d)'
      <3>1. CASE d = c
        BY <1>1, <3>1, CoveredMove
      <3>2. CASE d # c
        BY <1>1, <3>2, OthersUntouched, KeysOfOthers, CoveredKept DEF LeaseInv
      <3>. QED
        BY <3>1, <3>2
    <2>2. ASSUME NEW k \in Keys PROVE OwnKey(k)'
      BY <1>1, OwnKeyMove
    <2>. QED
      BY <2>1, <2>2 DEF LeaseInv
  <1>2. ASSUME NEW k \in Keys, Expire(k) PROVE LeaseInv'
    <2>1. ASSUME NEW c \in Calls PROVE Covered(c)'
      <3>1. Covered(c) /\ due[c] \in Nat /\ KeyOf[c] \in Keys
        BY CircuitsAssumption DEF LeaseInv, TypeInv, TypeOK
      <3>2. CASE KeyOf[c] # k
        BY <1>2, <3>1, <3>2, CoveredKept DEF Expire, clocks, TypeInv, TypeOK
      <3>3. CASE KeyOf[c] = k
        BY <1>2, <3>1, <3>3, Durations DEF Expire, clocks, Covered
      <3>. QED
        BY <3>2, <3>3
    <2>2. ASSUME NEW l \in Keys PROVE OwnKey(l)'
      BY <1>2 DEF Expire, LeaseInv, OwnKey, TypeInv, TypeOK
    <2>. QED
      BY <2>1, <2>2 DEF LeaseInv
  <1>3. ASSUME NEW o \in Circuits, HalfOpen(o) \/ Forget(o) PROVE LeaseInv'
    BY <1>3 DEF HalfOpen, Forget, guardVars, clocks, LeaseInv, Covered, OwnKey
  <1>4. ASSUME NEW o \in Circuits, Die(o) PROVE LeaseInv'
    <2>1. ASSUME NEW c \in Calls PROVE Covered(c)'
      BY <1>4 DEF Die, CrashAll, LeaseInv, Covered
    <2>2. ASSUME NEW k \in Keys PROVE OwnKey(k)'
      BY <1>4 DEF Die, CrashAll, LeaseInv, OwnKey, TypeInv, TypeOK
    <2>. QED
      BY <2>1, <2>2 DEF LeaseInv
  <1>5. CASE Tick
    <2>1. UNCHANGED <<client, lock, poll>>
      BY <1>5 DEF Tick, guardVars
    <2>2. ASSUME NEW c \in Calls PROVE Covered(c)'
      <3>1. /\ Covered(c) /\ due[c] \in Nat /\ KeyOf[c] \in Keys /\ ttl[KeyOf[c]] \in Nat
            /\ c # None
        BY CircuitsAssumption, NoneAssumption DEF LeaseInv, TypeInv, TypeOK
      <3>2. Active(c) => due'[c] = due[c] - 1
        BY <1>5 DEF Tick, Less, TypeInv, TypeOK
      <3>3. lock[KeyOf[c]] = c => ttl'[KeyOf[c]] = ttl[KeyOf[c]] - 1
        BY <1>5, <3>1 DEF Tick, Less, Held, TypeInv, TypeOK
      <3>. QED
        BY <2>1, <3>1, <3>2, <3>3, Durations DEF Covered, Active
    <2>3. ASSUME NEW k \in Keys PROVE OwnKey(k)'
      BY <2>1 DEF LeaseInv, OwnKey
    <2>. QED
      BY <2>2, <2>3 DEF LeaseInv
  <1>6. CASE UNCHANGED vars
    BY <1>6 DEF vars, guardVars, clocks, LeaseInv, Covered, OwnKey
  <1>. QED
    BY <1>1, <1>2, <1>3, <1>4, <1>5, <1>6 DEF Next, Finished

LEMMA InitLeaseInv == Init => LeaseInv
  BY CircuitsAssumption DEF Init, GuardInit, LeaseInv, Covered, OwnKey

-----------------------------------------------------------------------------
(* Why a circuit is not closed.                                            *)

Failed(d, o) ==
    /\ CircuitOf[d] = o
    /\ answer[d] \in {"error", "timeout"}
    /\ client[d] \in {"releasing", "answered", "crashed"}

Opened == \A o \in Circuits : breaker[o] # "closed" => \E d \in Calls : Failed(d, o)

\* A call that failed stays failed.
LEMMA FailedForEver ==
    ASSUME TypeInv, [Next]_vars, NEW d \in Calls, NEW o \in Circuits, Failed(d, o)
    PROVE  Failed(d, o)'
  <1>1. ASSUME NEW c \in Calls, Begin(c) \/ Outer(c) \/ Body(c) \/ Again(c) PROVE Failed(d, o)'
    <2>1. CASE c # d
      BY <1>1, <2>1, OthersUntouched DEF Failed
    <2>2. CASE c = d /\ (Begin(c) \/ Refused(c) \/ Fire(c) \/ TimedOut(c) \/ Again(c))
      BY <2>2 DEF Begin, Refused, Fire, TimedOut, Timeout, Again, Retry, guardVars, Failed
    <2>3. CASE c = d /\ (Wake(c) \/ SetFails(c) \/ Answer(c))
      BY <2>3 DEF Wake, SetFails, Quit, NotLocked, Answer, Release, ReleaseFails, Failed, TypeInv, TypeOK
    <2>4. CASE c = d /\ Body(c)
      BY <2>4, BodyEnds DEF BodyReturns, BodyThrows, BodyContinues, Settle, Failed
    <2>. QED
      BY <1>1, <2>1, <2>2, <2>3, <2>4 DEF Outer
  <1>2. ASSUME NEW k \in Keys, Expire(k) PROVE Failed(d, o)'
    BY <1>2 DEF Expire, Failed
  <1>3. ASSUME NEW p \in Circuits, HalfOpen(p) \/ Forget(p) \/ Die(p) PROVE Failed(d, o)'
    BY <1>3 DEF HalfOpen, Forget, Die, CrashAll, guardVars, Failed
  <1>4. CASE Tick \/ UNCHANGED vars
    BY <1>4 DEF Tick, vars, guardVars, Failed
  <1>. QED
    BY <1>1, <1>2, <1>3, <1>4 DEF Next, Finished

\* A circuit that was closed opens only for a call that failed in this step.
LEMMA OpensByFailure ==
    ASSUME TypeInv, [Next]_vars, NEW o \in Circuits, breaker[o] = "closed", breaker'[o] # "closed"
    PROVE  \E d \in Calls : Failed(d, o)'
  <1>1. ASSUME NEW c \in Calls, CountFailure(c), client'[c] = "releasing",
               answer'[c] \in {"error", "timeout"}
        PROVE  \E d \in Calls : Failed(d, o)'
    BY <1>1, CircuitsAssumption DEF CountFailure, Failed, TypeInv, TypeOK
  <1>2. ASSUME NEW c \in Calls, TimedOut(c) PROVE \E d \in Calls : Failed(d, o)'
    BY <1>1, <1>2 DEF TimedOut, Timeout, TypeInv, TypeOK
  <1>3. ASSUME NEW c \in Calls, Body(c) PROVE \E d \in Calls : Failed(d, o)'
    <2>1. CASE CountFailure(c) /\ BodyThrows(c) /\ client[c] = "fired" /\ pc'[c] = "off"
      BY <1>1, <2>1 DEF BodyThrows, BodyContinues, Goto, Settle, TypeInv, TypeOK
    <2>2. CASE CountSuccess(c)
      BY <2>2, CircuitsAssumption DEF CountSuccess, TypeInv, TypeOK
    <2>. QED
      BY <1>3, <2>1, <2>2, BodyEnds DEF circuit
  <1>4. ASSUME NEW c \in Calls,
               Begin(c) \/ Refused(c) \/ Wake(c) \/ SetFails(c) \/ Fire(c) \/ Answer(c) \/ Again(c)
        PROVE  breaker'[o] = breaker[o]
    BY <1>4 DEF Begin, Refused, Wake, SetFails, Quit, Fire, Answer, Again, circuit
  <1>5. ASSUME NEW k \in Keys, Expire(k) PROVE breaker'[o] = breaker[o]
    BY <1>5 DEF Expire
  <1>6. ASSUME NEW p \in Circuits, HalfOpen(p) \/ Forget(p) \/ Die(p) PROVE breaker'[o] = "closed"
    BY <1>6 DEF HalfOpen, Forget, Die, TypeInv, TypeOK
  <1>7. CASE Tick \/ UNCHANGED vars
    BY <1>7 DEF Tick, vars
  <1>. QED
    BY <1>2, <1>3, <1>4, <1>5, <1>6, <1>7 DEF Next, Outer, Finished

LEMMA NextOpened ==
    ASSUME TypeInv, Opened, [Next]_vars
    PROVE  Opened'
  <1> SUFFICES ASSUME NEW o \in Circuits, breaker'[o] # "closed"
               PROVE  \E d \in Calls : Failed(d, o)'
    BY DEF Opened
  <1>1. CASE breaker[o] = "closed"
    BY <1>1, OpensByFailure
  <1>2. CASE breaker[o] # "closed"
    BY <1>2, FailedForEver DEF Opened
  <1>. QED
    BY <1>1, <1>2

-----------------------------------------------------------------------------
(* The clocked decorators implement GuardedCall.                           *)

Inv == TypeInv /\ LeaseInv /\ Opened

Untouched == UNCHANGED <<client, answer, KnownLock, pc, attempt>>

\* What the program knows of the locks changes only with a lock or a reply.
LEMMA KnownKept ==
    ASSUME UNCHANGED <<lock, poll>>
    PROVE  UNCHANGED KnownLock
  BY DEF KnownLock, Held

\* Who holds key k, as far as the program knows.
LEMMA KnownValue ==
    ASSUME NEW k \in Keys
    PROVE  KnownLock[k] = IF lock[k] # None /\ poll[lock[k]] = "taken" THEN None ELSE lock[k]
  BY DEF KnownLock, Held

LEMMA KnownFunction == KnownLock = [k \in Keys |-> KnownLock[k]]
  BY DEF KnownLock

\* A SET that is on its way takes nothing that the program knows of.
LEMMA SetUnknown ==
    ASSUME Inv, NEW c \in Calls, SetNX(c), poll[c] # "taken"
    PROVE  UNCHANGED KnownLock
  <1>0. KeyOf[c] \in Keys /\ c # None
    BY CircuitsAssumption, NoneAssumption
  <1>1. SUFFICES ASSUME NEW k \in Keys PROVE KnownLock'[k] = KnownLock[k]
    BY DEF KnownLock
  <1>2. lock[k] \in Calls \cup {None} /\ OwnKey(k)
    BY DEF Inv, LeaseInv, TypeInv, TypeOK
  <1>3. CASE lock'[KeyOf[c]] = c /\ lock[KeyOf[c]] = None
    BY <1>0, <1>1, <1>2, <1>3 DEF SetNX, KnownLock, Held, OwnKey, Inv, TypeInv, TypeOK
  <1>4. CASE UNCHANGED lock /\ poll'[c] \in {"refused", "lost"}
    BY <1>0, <1>1, <1>2, <1>4 DEF SetNX, KnownLock, Held, Inv, TypeInv, TypeOK
  <1>. QED
    BY <1>0, <1>3, <1>4 DEF SetNX, Inv, TypeInv, TypeOK

\* With the reply the program learns that it has the key.
LEMMA ReplyKnown ==
    ASSUME Inv, NEW c \in Calls, client[c] = "waiting", poll[c] = "taken", UNCHANGED lock,
           poll' = [poll EXCEPT ![c] = "none"]
    PROVE  KnownLock[KeyOf[c]] = None /\ KnownLock' = [KnownLock EXCEPT ![KeyOf[c]] = c]
  <1>0. KeyOf[c] \in Keys /\ c # None /\ lock[KeyOf[c]] = c
    BY CircuitsAssumption, NoneAssumption DEF Inv, LeaseInv, Covered
  <1>1. \A k \in Keys : lock[k] = c => k = KeyOf[c]
    BY <1>0 DEF Inv, LeaseInv, OwnKey
  <1>2. \A k \in Keys : KnownLock'[k] = IF k = KeyOf[c] THEN c ELSE KnownLock[k]
    BY <1>0, <1>1 DEF KnownLock, Held, Inv, TypeInv, TypeOK
  <1>3. KnownLock' = [k \in Keys |-> KnownLock'[k]]
    BY DEF KnownLock
  <1>4. KnownLock[KeyOf[c]] = None
    BY <1>0 DEF KnownLock, Held
  <1>. QED
    BY <1>0, <1>2, <1>3, <1>4 DEF KnownLock

LEMMA LoopImplements ==
    ASSUME Inv, NEW c \in Calls, Begin(c) \/ Refused(c) \/ Wake(c) \/ SetFails(c)
    PROVE  UntimedStep \/ Untouched
  <1>1. CASE Begin(c)
    <2>1. UNCHANGED KnownLock
      BY <1>1, SetUnknown DEF Begin, Inv, LeaseInv, Covered
    <2>2. Untimed!Invoke(c)
      BY <1>1, <2>1 DEF Begin, Untimed!Invoke
    <2>. QED
      BY <2>2 DEF UntimedStep
  <1>2. CASE Refused(c)
    <2>1. UNCHANGED KnownLock
      <3>1. \A k \in Keys : KnownLock'[k] = KnownLock[k]
        BY <1>2 DEF Refused, guardVars, KnownLock, Held, Inv, TypeInv, TypeOK
      <3>. QED
        BY <3>1 DEF KnownLock
    <2>. QED
      BY <1>2, <2>1 DEF Refused, guardVars, Untouched
  <1>3. CASE Wake(c) /\ age[c] < Wait
    <2>1. UNCHANGED KnownLock
      BY <1>3, SetUnknown DEF Wake
    <2>. QED
      BY <1>3, <2>1 DEF Wake, Untouched
  <1>4. CASE Wake(c) /\ ~(age[c] < Wait)
    <2>1. UNCHANGED KnownLock
      <3>1. \A k \in Keys : KnownLock'[k] = KnownLock[k]
        BY <1>4 DEF Wake, Quit, KnownLock, Held, Inv, TypeInv, TypeOK
      <3>. QED
        BY <3>1 DEF KnownLock
    <2>2. Untimed!WaitTimeout(c)
      BY <1>4, <2>1 DEF Wake, Quit, NotLocked, Untimed!WaitTimeout, Untimed!NotLocked
    <2>. QED
      BY <2>2 DEF UntimedStep
  <1>5. CASE SetFails(c)
    <2>0. Untimed!NotLocked(c) /\ "redis" \in Faults /\ UNCHANGED <<pc, attempt>>
      BY <1>5 DEF SetFails, Quit, NotLocked, Untimed!NotLocked
    <2>1. CASE poll[c] = "taken"
      <3>1. KnownLock[KeyOf[c]] = None /\ KnownLock' = [KnownLock EXCEPT ![KeyOf[c]] = c]
        BY <1>5, <2>1, ReplyKnown DEF SetFails, Quit, NotLocked
      <3>. QED
        BY <2>0, <3>1 DEF UntimedStep, Untimed!AcquireFails
    <2>2. CASE poll[c] # "taken"
      <3>1. \A k \in Keys : KnownLock'[k] = KnownLock[k]
        BY <1>5, <2>2 DEF SetFails, Quit, KnownLock, Held, Inv, TypeInv, TypeOK
      <3>2. UNCHANGED KnownLock
        BY <3>1 DEF KnownLock
      <3>. QED
        BY <2>0, <3>2 DEF UntimedStep, Untimed!AcquireFails
    <2>. QED
      BY <2>1, <2>2
  <1>. QED
    BY <1>1, <1>2, <1>3, <1>4, <1>5

\* A circuit that lets a call through fires it; one that does not has seen a failure.
LEMMA FireImplements ==
    ASSUME Inv, NEW c \in Calls, Fire(c)
    PROVE  UntimedStep
  <1>1. KnownLock[KeyOf[c]] = None /\ KnownLock' = [KnownLock EXCEPT ![KeyOf[c]] = c]
    BY ReplyKnown DEF Fire
  <1>2. CASE Lets(CircuitOf[c])
    <2>1. Untimed!AcquireAndFire(c, KeyOf[c])
      BY <1>1, <1>2 DEF Fire, Untimed!AcquireAndFire
    <2>. QED
      BY <2>1 DEF UntimedStep
  <1>3. CASE ~Lets(CircuitOf[c])
    <2>1. Untimed!AcquireAndReject(c, KeyOf[c])
      BY <1>1, <1>3 DEF Fire, Untimed!AcquireAndReject
    <2>2. PICK d \in Calls : Failed(d, CircuitOf[c])
      BY <1>3, CircuitsAssumption DEF Lets, Inv, Opened
    <2>3. d # c
      BY <2>2 DEF Failed, Fire
    <2>. QED
      BY <2>1, <2>2, <2>3 DEF UntimedStep, BreakerMayBeOpen, Failed
  <1>. QED
    BY <1>2, <1>3

LEMMA EndImplements ==
    ASSUME Inv, NEW c \in Calls, TimedOut(c) \/ Answer(c) \/ Body(c) \/ Again(c)
    PROVE  UntimedStep
  <1>0. KeyOf[c] \in Keys /\ c # None
    BY CircuitsAssumption, NoneAssumption
  <1>1. CASE TimedOut(c)
    <2>1. Untimed!Timeout(c)
      BY <1>1, KnownKept DEF TimedOut, Timeout, Untimed!Timeout
    <2>. QED
      BY <2>1 DEF UntimedStep
  <1>2. CASE Answer(c) /\ Release(c, KeyOf[c])
    <2>0. poll[c] = "none" /\ UNCHANGED poll
      BY <1>2 DEF Answer, Release, Inv, LeaseInv, Covered
    <2>1. \A k \in Keys : KnownLock'[k] =
            IF k = KeyOf[c] /\ KnownLock[k] = c THEN None ELSE KnownLock[k]
      BY <1>0, <1>2, <2>0 DEF Release, KnownLock, Held, Inv, TypeInv, TypeOK
    <2>2. KnownLock' = [KnownLock EXCEPT ![KeyOf[c]] = IF @ = c THEN None ELSE @]
      BY <1>0, <2>1 DEF KnownLock
    <2>3. Untimed!Release(c, KeyOf[c])
      BY <1>2, <2>2 DEF Release, Untimed!Release
    <2>. QED
      BY <2>3 DEF UntimedStep
  <1>3. CASE Answer(c) /\ ReleaseFails(c)
    <2>1. Untimed!ReleaseFails(c)
      BY <1>3, KnownKept DEF Answer, ReleaseFails, Untimed!ReleaseFails
    <2>. QED
      BY <2>1 DEF UntimedStep
  <1>4. CASE Body(c)
    <2>1. UNCHANGED KnownLock
      BY <1>4, BodyEnds, KnownKept
    <2>2. CASE BodyReturns(c)
      BY <2>1, <2>2 DEF BodyReturns, Goto, Settle, UntimedStep, Untimed!BodyReturns, Untimed!Goto,
                        Untimed!Settle
    <2>3. CASE BodyThrows(c)
      BY <2>1, <2>3 DEF BodyThrows, BodyContinues, Goto, Settle, UntimedStep, Untimed!BodyThrows,
                        Untimed!BodyContinues, Untimed!Goto, Untimed!Settle
    <2>. QED
      BY <1>4, <2>2, <2>3, BodyEnds
  <1>5. CASE Again(c)
    <2>1. Untimed!Retry(c)
      BY <1>5, KnownKept DEF Again, Retry, Goto, Untimed!Retry, Untimed!Goto
    <2>. QED
      BY <2>1 DEF UntimedStep
  <1>. QED
    BY <1>1, <1>2, <1>3, <1>4, <1>5 DEF Answer

\* A lease that ends has a holder that is no longer fired, or not yet answered by Redis.
LEMMA ExpireImplements ==
    ASSUME Inv, NEW k \in Keys, Expire(k)
    PROVE  UntimedStep \/ Untouched
  <1>0. lock[k] \in Calls /\ OwnKey(k) /\ Covered(lock[k]) /\ due[lock[k]] \in Nat
    BY DEF Expire, Inv, LeaseInv, TypeInv, TypeOK
  <1>1. KnownLock' = [KnownLock EXCEPT ![k] = None]
    <2>1. \A l \in Keys : KnownLock'[l] = IF l = k THEN None ELSE KnownLock[l]
      BY DEF Expire, KnownLock, Held, Inv, TypeInv, TypeOK
    <2>. QED
      BY <2>1 DEF KnownLock
  <1>2. CASE KnownLock[k] = None
    BY <1>1, <1>2 DEF KnownLock, Expire, Untouched
  <1>3. CASE KnownLock[k] # None
    <2>1. KnownLock[k] = lock[k]
      BY <1>3, KnownValue
    <2>2. client[lock[k]] # "fired"
      BY <1>0 DEF Expire, OwnKey, Covered
    <2>3. Untimed!LeaseExpires(k)
      BY <1>1, <1>3, <2>1, <2>2 DEF Expire, Untimed!LeaseExpires
    <2>. QED
      BY <2>3 DEF UntimedStep
  <1>. QED
    BY <1>2, <1>3

LEMMA StepImplements == Inv /\ [Next]_vars => UntimedStep \/ Untouched
  <1> SUFFICES ASSUME Inv, [Next]_vars PROVE UntimedStep \/ Untouched
    OBVIOUS
  <1>1. ASSUME NEW o \in Circuits, HalfOpen(o) \/ Forget(o) PROVE Untouched
    BY <1>1, KnownKept DEF HalfOpen, Forget, guardVars, Untouched
  <1>2. ASSUME NEW o \in Circuits, Die(o) PROVE UntimedStep
    BY <1>2, KnownKept DEF Die, Dying, UntimedStep
  <1>3. CASE Tick \/ UNCHANGED vars
    BY <1>3, KnownKept DEF Tick, vars, guardVars, Untouched
  <1>. QED
    BY <1>1, <1>2, <1>3, LoopImplements, FireImplements, EndImplements, ExpireImplements
       DEF Next, Outer, Finished

\* For any durations with a lease that is long enough, any calls, keys and circuits: every step
\* of the decorators with their clocks is one that GuardedCall allows, or none at all.
THEOREM ImplementsCorrect == Spec => ImplementsGuardedCall
  <1>1. Init => Inv
    BY InitTypeInv, InitLeaseInv DEF Init, Inv, Opened
  <1>2. Inv /\ [Next]_vars => Inv'
    BY NextTypeInv, NextLeaseInv, NextOpened DEF Inv
  <1>3. Inv /\ [Next]_vars => [UntimedStep]_(Untimed!guardVars)
    BY StepImplements DEF Untouched, Untimed!guardVars
  <1>. QED
    BY <1>1, <1>2, <1>3, PTL DEF Spec, ImplementsGuardedCall
=============================================================================
