-------------------------- MODULE BrokerRouterProofs --------------------------
(* Machine-checked theorems about BrokerRouter, for every set of requests,   *)
(* keys and brokers and every number of attempts.                            *)
EXTENDS BrokerRouter, TLAPS

Keyed(r) == call[r].key # NoKey
BlamedKey(r) == blame[call[r].key] # {}

\* Where a call is limits what it has done: each attempt executes at most once.
CallInv ==
  \A r \in Request :
    /\ call[r].pc = "idle" => executed[r] = 0 /\ call[r].result = "none"
    /\ call[r].pc = "calling" => executed[r] < call[r].attempt
    /\ call[r].pc = "sleeping" => executed[r] <= call[r].attempt /\ call[r].attempt < Attempts
    /\ InFlight(r) => call[r].broker \in Broker /\ call[r].result = "none" /\ ~call[r].replay
    /\ call[r].kind \notin Orders => ~Keyed(r)

\* Some call with this key has an order at the broker.
Backed(k) == \E q \in Request : executed[q] > 0 /\ call[q].key = k

\* A success, told or stored, has an executed order behind it.
ResultInv ==
  /\ \A r \in Request : call[r].result = "success" =>
       IF call[r].replay THEN Keyed(r) /\ Backed(call[r].key) ELSE executed[r] > 0
  /\ \A k \in Key : cache[k] = "success" => Backed(k)

\* How the cache keeps the executions of a blameless key apart.
KeyInv ==
  /\ \A r \in Request : Keyed(r) /\ executed[r] > 0 =>
       /\ InFlight(r) \/ executed[r] > 1 => BlamedKey(r)
       /\ call[r].pc = "done" => cache[call[r].key] # "none" \/ BlamedKey(r)
  /\ \A r, q \in Request : r # q /\ Keyed(r) /\ call[q].key = call[r].key =>
       /\ InFlight(r) /\ InFlight(q) => BlamedKey(r)
       /\ InFlight(r) /\ executed[q] > 0 => BlamedKey(r)
       /\ executed[r] > 0 /\ executed[q] > 0 => BlamedKey(r)

IInv == TypeOK /\ CallInv /\ ResultInv /\ KeyInv

-----------------------------------------------------------------------------
(* What a step does to one call *)

\* r moves to the record c, having executed its order x times.
Moves(r, c, x) ==
  /\ c \in CallRecord /\ x \in 0..Attempts
  /\ call' = [call EXCEPT ![r] = c]
  /\ executed' = [executed EXCEPT ![r] = x]

SameCall(r, c) == /\ c.kind = call[r].kind /\ c.key = call[r].key
                  /\ c.broker = call[r].broker /\ c.replay = call[r].replay

\* A call returns at once, with a failure or with the stored result of its key.
Returned(r, c) ==
  /\ call[r].pc = "idle" /\ c.pc = "done" /\ Moves(r, c, executed[r])
  /\ c.kind \notin Orders => c.key = NoKey
  /\ \/ c.result = "failure"
     \/ c.replay /\ c.key # NoKey /\ c.result = cache[c.key]
  /\ UNCHANGED <<cache, blame>>

\* A call reaches the connector for the first time.
Called(r, c) ==
  /\ call[r].pc = "idle" /\ Moves(r, c, executed[r])
  /\ c.pc = "calling" /\ c.attempt = 1 /\ c.result = "none" /\ ~c.replay /\ c.broker \in Broker
  /\ c.kind \notin Orders => c.key = NoKey
  /\ c.key # NoKey => cache[c.key] = "none"
  /\ UNCHANGED cache
  /\ blame' = IF Overlaps(c.key) THEN Blamed(c.key, "overlap") ELSE blame

\* An attempt, or the timer after it, that leaves the call in flight.
Continued(r, c, x) ==
  /\ Moves(r, c, x) /\ SameCall(r, c) /\ c.result = call[r].result
  /\ \/ /\ call[r].pc = "calling" /\ c.pc = "sleeping"
        /\ c.attempt = call[r].attempt /\ c.attempt < Attempts
     \/ /\ call[r].pc = "sleeping" /\ c.pc = "calling" /\ c.attempt = call[r].attempt + 1
        /\ x = executed[r]
  /\ \/ x = executed[r] /\ UNCHANGED blame
     \/ x = executed[r] + 1 /\ blame' = Blamed(c.key, "lost")
  /\ UNCHANGED cache

\* The last answer: the call returns and its result is stored.
Settled(r, c, x) ==
  /\ Moves(r, c, x) /\ SameCall(r, c)
  /\ call[r].pc = "calling" /\ c.pc = "done" /\ c.result \in Outcome
  /\ cache' = IF c.kind \in Orders THEN Stored(c.key, c.result) ELSE cache
  /\ x \in {executed[r], executed[r] + 1}
  /\ c.result = "success" => x > 0
  /\ \/ c.kind \notin Orders /\ UNCHANGED blame
     \/ c.result = "success" /\ UNCHANGED blame
     \/ x = executed[r] /\ UNCHANGED blame
     \/ blame' = Blamed(c.key, "lost")

-----------------------------------------------------------------------------
(* Types *)

LEMMA CallUpdates ==
  /\ NewCall \in CallRecord
  /\ \A c \in CallRecord :
       /\ \A p \in {"calling", "sleeping", "done"} : [c EXCEPT !.pc = p] \in CallRecord
       /\ \A o \in Outcome : [c EXCEPT !.pc = "done", !.result = o] \in CallRecord
       /\ c.attempt < Attempts => [c EXCEPT !.pc = "calling", !.attempt = @ + 1] \in CallRecord
<1>1. NewCall \in CallRecord
  BY RouterAssumption DEF NewCall, CallRecord, AllKinds
<1>2. ASSUME NEW c \in CallRecord
      PROVE  /\ \A p \in {"calling", "sleeping", "done"} : [c EXCEPT !.pc = p] \in CallRecord
             /\ \A o \in Outcome : [c EXCEPT !.result = o] \in CallRecord
             /\ c.attempt < Attempts => [c EXCEPT !.attempt = @ + 1] \in CallRecord
  BY RouterAssumption DEF CallRecord
<1>3. ASSUME NEW c \in CallRecord, NEW o \in Outcome
      PROVE  [c EXCEPT !.pc = "done", !.result = o] \in CallRecord
  <2>1. [c EXCEPT !.pc = "done"] \in CallRecord
    BY <1>2
  <2> QED
    BY <2>1, <1>2
<1>4. ASSUME NEW c \in CallRecord, c.attempt < Attempts
      PROVE  [c EXCEPT !.pc = "calling", !.attempt = @ + 1] \in CallRecord
  <2>1. [c EXCEPT !.pc = "calling"] \in CallRecord /\ [c EXCEPT !.pc = "calling"].attempt = c.attempt
    BY <1>2 DEF CallRecord
  <2> QED
    BY <2>1, <1>2, <1>4 
<1> QED
  BY <1>1, <1>2, <1>3, <1>4

LEMMA BreakerUpdates ==
  /\ ClosedBreaker \in BreakerRecord
  /\ \A e \in BreakerRecord :
       /\ BreakerFailed(e) \in BreakerRecord
       /\ [e EXCEPT !.expired = TRUE] \in BreakerRecord
<1>1. ClosedBreaker \in BreakerRecord
  BY RouterAssumption DEF ClosedBreaker, BreakerRecord
<1>2. ASSUME NEW e \in BreakerRecord
      PROVE  BreakerFailed(e) \in BreakerRecord
  <2>1. e.failures \in 0..Threshold
    BY DEF BreakerRecord
  <2>2. CASE e.failures + 1 >= Threshold
    BY <2>2, RouterAssumption DEF BreakerRecord, BreakerFailed
  <2>3. CASE ~(e.failures + 1 >= Threshold)
    <3>1. \A f \in 0..Threshold : [e EXCEPT !.failures = f] \in BreakerRecord
      BY DEF BreakerRecord
    <3> QED
      BY <2>1, <2>3, <3>1, RouterAssumption DEF BreakerFailed
  <2> QED
    BY <2>2, <2>3
<1>3. ASSUME NEW e \in BreakerRecord
      PROVE  [e EXCEPT !.expired = TRUE] \in BreakerRecord
  BY DEF BreakerRecord
<1> QED
  BY <1>1, <1>2, <1>3

LEMMA LogStaysBounded ==
  ASSUME TypeOK, NEW r \in Request
  PROVE  Logged(r) \in Seq(Request) /\ Len(Logged(r)) <= AuditLimit
<1> DEFINE log == Append(orderLog, r)
<1>1. log \in Seq(Request) /\ Len(log) = Len(orderLog) + 1 /\ Len(orderLog) <= AuditLimit
  BY DEF TypeOK
<1>2. log # <<>> /\ Tail(log) \in Seq(Request) /\ Len(Tail(log)) = Len(log) - 1
  BY <1>1
<1> QED
  BY <1>1, <1>2, RouterAssumption DEF Logged

-----------------------------------------------------------------------------
(* Every action moves one call in one of the four ways above, or none *)

LEMMA RejectsRecord ==
  ASSUME NEW r \in Request, NEW kind \in AllKinds, NEW k \in Key \cup {NoKey},
         NEW b \in Broker, Rejects(r, kind, k, b)
  PROVE  \E c \in CallRecord :
           /\ call' = [call EXCEPT ![r] = c]
           /\ c.pc = "done" /\ c.kind = kind /\ c.key = k /\ c.result = "failure"
<1> DEFINE c == [pc |-> "done", kind |-> kind, key |-> k, broker |-> b,
                 attempt |-> 0, result |-> "failure", replay |-> FALSE]
<1>1. c \in CallRecord
  BY RouterAssumption DEF CallRecord, Outcome
<1>2. call' = [call EXCEPT ![r] = c]
  BY DEF Rejects
<1>3. c.pc = "done" /\ c.kind = kind /\ c.key = k /\ c.result = "failure"
  OBVIOUS
<1> QED
  BY <1>1, <1>2, <1>3

LEMMA ReplaysRecord ==
  ASSUME NEW r \in Request, NEW kind \in AllKinds, NEW k \in Key,
         NEW b \in Broker, cache[k] \in Outcome, Replays(r, kind, k, b)
  PROVE  \E c \in CallRecord :
           /\ call' = [call EXCEPT ![r] = c]
           /\ c.pc = "done" /\ c.kind = kind /\ c.key = k /\ c.result = cache[k]
           /\ c.replay
<1> DEFINE c == [pc |-> "done", kind |-> kind, key |-> k, broker |-> b,
                 attempt |-> 0, result |-> cache[k], replay |-> TRUE]
<1>1. c \in CallRecord
  BY RouterAssumption DEF CallRecord
<1>2. call' = [call EXCEPT ![r] = c]
  BY DEF Replays
<1>3. /\ c.pc = "done" /\ c.kind = kind /\ c.key = k /\ c.result = cache[k]
      /\ c.replay
  OBVIOUS
<1> QED
  BY <1>1, <1>2, <1>3

LEMMA CallsRecord ==
  ASSUME NEW r \in Request, NEW kind \in AllKinds, NEW k \in Key \cup {NoKey},
         NEW b \in Broker, Calls(r, kind, k, b)
  PROVE  \E c \in CallRecord :
           /\ call' = [call EXCEPT ![r] = c]
           /\ c.pc = "calling" /\ c.kind = kind /\ c.key = k /\ c.broker = b
           /\ c.attempt = 1 /\ c.result = "none" /\ ~c.replay
<1> DEFINE c == [pc |-> "calling", kind |-> kind, key |-> k, broker |-> b,
                 attempt |-> 1, result |-> "none", replay |-> FALSE]
<1>1. c \in CallRecord
  BY RouterAssumption DEF CallRecord
<1>2. call' = [call EXCEPT ![r] = c]
  BY DEF Calls
<1>3. /\ c.pc = "calling" /\ c.kind = kind /\ c.key = k /\ c.broker = b
      /\ c.attempt = 1 /\ c.result = "none" /\ ~c.replay
  OBVIOUS
<1> QED
  BY <1>1, <1>2, <1>3

LEMMA EnterOrderMoves ==
  ASSUME TypeOK, NEW r \in Request, NEW b \in Broker, NEW kind \in Orders,
         NEW k \in Key \cup {NoKey}, EnterOrder(r, kind, k, b)
  PROVE  \E c \in CallRecord : Returned(r, c) \/ Called(r, c)
<1>1. kind \in AllKinds /\ call[r].pc = "idle" /\ executed[r] \in 0..Attempts
  BY DEF EnterOrder, TypeOK, AllKinds, Orders
<1>2. k # NoKey => k \in Key /\ cache[k] \in Outcome \cup {"none"}
  BY DEF TypeOK
<1>3. executed' = [executed EXCEPT ![r] = executed[r]] /\ UNCHANGED cache
  BY DEF EnterOrder, TypeOK
<1>4. CASE Rejects(r, kind, k, b) /\ UNCHANGED blame
  <2>1. PICK c \in CallRecord : /\ call' = [call EXCEPT ![r] = c]
                                /\ c.pc = "done" /\ c.kind = kind /\ c.result = "failure"
    BY <1>1, <1>4, RejectsRecord
  <2> QED
    BY <1>1, <1>3, <1>4, <2>1 DEF Returned, Moves
<1>5. CASE k \in Key /\ cache[k] \in Outcome /\ Replays(r, kind, k, b) /\ UNCHANGED blame
  <2>1. PICK c \in CallRecord :
          /\ call' = [call EXCEPT ![r] = c]
          /\ c.pc = "done" /\ c.kind = kind /\ c.key = k /\ c.result = cache[k] /\ c.replay
    BY <1>1, <1>5, ReplaysRecord
  <2> QED
    BY <1>1, <1>3, <1>5, <2>1, RouterAssumption DEF Returned, Moves
<1>6. CASE /\ k # NoKey => cache[k] = "none"
           /\ Calls(r, kind, k, b)
           /\ blame' = IF Overlaps(k) THEN Blamed(k, "overlap") ELSE blame
  <2>1. PICK c \in CallRecord :
          /\ call' = [call EXCEPT ![r] = c]
          /\ c.pc = "calling" /\ c.kind = kind /\ c.key = k /\ c.broker = b
          /\ c.attempt = 1 /\ c.result = "none" /\ ~c.replay
    BY <1>1, <1>6, CallsRecord
  <2> QED
    BY <1>1, <1>3, <1>6, <2>1 DEF Called, Moves
<1> QED
  BY <1>2, <1>4, <1>5, <1>6 DEF EnterOrder

LEMMA EnterPositionCallMoves ==
  ASSUME TypeOK, NEW r \in Request, NEW b \in Broker, NEW kind \in {"close", "modify"},
         EnterPositionCall(r, kind, b)
  PROVE  \E c \in CallRecord : Returned(r, c) \/ Called(r, c)
<1>1. kind \in AllKinds /\ call[r].pc = "idle" /\ executed[r] \in 0..Attempts
  BY DEF EnterPositionCall, TypeOK, AllKinds
<1>2. executed' = [executed EXCEPT ![r] = executed[r]] /\ UNCHANGED <<cache, blame>>
  BY DEF EnterPositionCall, TypeOK
<1>3. CASE Rejects(r, kind, NoKey, b)
  <2>1. PICK c \in CallRecord : /\ call' = [call EXCEPT ![r] = c]
                                /\ c.pc = "done" /\ c.key = NoKey /\ c.result = "failure"
    BY <1>1, <1>3, RejectsRecord
  <2> QED
    BY <1>1, <1>2, <2>1 DEF Returned, Moves
<1>4. CASE Calls(r, kind, NoKey, b)
  <2>1. PICK c \in CallRecord :
          /\ call' = [call EXCEPT ![r] = c]
          /\ c.pc = "calling" /\ c.key = NoKey /\ c.broker = b
          /\ c.attempt = 1 /\ c.result = "none" /\ ~c.replay
    BY <1>1, <1>4, CallsRecord
  <2> QED
    BY <1>1, <1>2, <2>1 DEF Called, Moves, Overlaps
<1> QED
  BY <1>3, <1>4 DEF EnterPositionCall

\* The record of a call whose connector has answered for good.
LEMMA SettleRecord ==
  ASSUME TypeOK, NEW r \in Request, NEW o \in Outcome, Settle(r, o)
  PROVE  \E c \in CallRecord :
           /\ call' = [call EXCEPT ![r] = c] /\ SameCall(r, c) /\ c.pc = "done" /\ c.result = o
           /\ cache' = IF c.kind \in Orders THEN Stored(c.key, o) ELSE cache
<1> DEFINE c == [call[r] EXCEPT !.pc = "done", !.result = o]
<1>1. call[r] \in CallRecord
  BY DEF TypeOK
<1>2. c \in CallRecord
  BY <1>1, CallUpdates
<1>3. call' = [call EXCEPT ![r] = c]
  BY DEF Settle, TypeOK
<1>4. SameCall(r, c) /\ c.pc = "done" /\ c.result = o
  BY <1>1 DEF SameCall, CallRecord
<1> QED
  BY <1>2, <1>3, <1>4 DEF Settle, SameCall

LEMMA InFlightCall ==
  ASSUME TypeOK, CallInv, NEW r \in Request, call[r].pc = "calling"
  PROVE  /\ call[r] \in CallRecord /\ call[r].broker \in Broker
         /\ call[r].attempt \in Nat /\ call[r].attempt <= Attempts
         /\ executed[r] \in Nat /\ executed[r] < call[r].attempt
         /\ executed[r] + 1 \in 0..Attempts /\ executed[r] \in 0..Attempts
<1>1. call[r] \in CallRecord /\ executed[r] \in 0..Attempts
  BY DEF TypeOK
<1>2. call[r].attempt \in 0..Attempts
  BY <1>1 DEF CallRecord
<1>3. executed[r] < call[r].attempt /\ call[r].broker \in Broker
  BY DEF CallInv, InFlight
<1> QED
  BY <1>1, <1>2, <1>3, RouterAssumption

LEMMA OrderSucceedsMoves ==
  ASSUME TypeOK, CallInv, NEW r \in Request, OrderSucceeds(r)
  PROVE  \E c \in CallRecord, x \in 0..Attempts : Settled(r, c, x)
<1>1. call[r].pc = "calling" /\ Settle(r, "success") /\ UNCHANGED blame
      /\ executed' = [executed EXCEPT ![r] = executed[r] + 1]
  BY DEF OrderSucceeds
<1>2. executed[r] \in Nat /\ executed[r] + 1 \in 0..Attempts
  BY <1>1, InFlightCall
<1>3. "success" \in Outcome
  BY DEF Outcome
<1>4. PICK c \in CallRecord :
        /\ call' = [call EXCEPT ![r] = c] /\ SameCall(r, c)
        /\ c.pc = "done" /\ c.result = "success"
        /\ cache' = IF c.kind \in Orders THEN Stored(c.key, "success") ELSE cache
  BY <1>1, <1>3, SettleRecord
<1>5. Settled(r, c, executed[r] + 1)
  BY <1>1, <1>2, <1>3, <1>4 DEF Settled, Moves
<1> QED
  BY <1>2, <1>5

LEMMA OrderAttemptFailsMoves ==
  ASSUME TypeOK, CallInv, NEW r \in Request, NEW lost \in BOOLEAN, OrderAttemptFails(r, lost)
  PROVE  \E c \in CallRecord, x \in 0..Attempts : Continued(r, c, x) \/ Settled(r, c, x)
<1>1. call[r].pc = "calling"
  BY DEF OrderAttemptFails
<1>2. /\ call[r] \in CallRecord /\ executed[r] \in Nat
      /\ executed[r] + 1 \in 0..Attempts /\ executed[r] \in 0..Attempts
  BY <1>1, InFlightCall
<1>3. PICK x \in 0..Attempts :
        /\ executed' = [executed EXCEPT ![r] = x]
        /\ \/ x = executed[r] /\ UNCHANGED blame
           \/ x = executed[r] + 1 /\ blame' = Blamed(call[r].key, "lost")
  <2>1. CASE lost
    BY <2>1, <1>2 DEF OrderAttemptFails
  <2>2. CASE ~lost
    <3>1. executed' = [executed EXCEPT ![r] = executed[r]]
      BY <2>2 DEF OrderAttemptFails, TypeOK
    <3> QED
      BY <2>2, <3>1, <1>2 DEF OrderAttemptFails
  <2> QED
    BY <2>1, <2>2
<1>4. CASE call[r].attempt < Attempts
  <2> DEFINE c == [call[r] EXCEPT !.pc = "sleeping"]
  <2>1. c \in CallRecord
    BY <1>2, CallUpdates
  <2>2. call' = [call EXCEPT ![r] = c] /\ UNCHANGED cache
    BY <1>4 DEF OrderAttemptFails, TypeOK
  <2>3. /\ SameCall(r, c) /\ c.pc = "sleeping" /\ c.attempt = call[r].attempt
        /\ c.result = call[r].result
    BY <1>2 DEF SameCall, CallRecord
  <2> HIDE DEF c
  <2>4. c.key = call[r].key
    BY <2>3 DEF SameCall
  <2>5. Continued(r, c, x)
    BY <1>1, <1>3, <1>4, <2>1, <2>2, <2>3, <2>4 DEF Continued, Moves
  <2> QED
    BY <2>1, <2>5
<1>5. CASE ~(call[r].attempt < Attempts)
  <2>1. Settle(r, "failure") /\ "failure" \in Outcome
    BY <1>5 DEF OrderAttemptFails, Outcome
  <2>2. PICK c \in CallRecord :
          /\ call' = [call EXCEPT ![r] = c] /\ SameCall(r, c)
          /\ c.pc = "done" /\ c.result = "failure"
          /\ cache' = IF c.kind \in Orders THEN Stored(c.key, "failure") ELSE cache
    BY <2>1, SettleRecord
  <2>3. c.key = call[r].key
    BY <2>2 DEF SameCall
  <2>4. Settled(r, c, x)
    BY <1>1, <1>3, <2>1, <2>2, <2>3 DEF Settled, Moves
  <2> QED
    BY <2>4
<1> QED
  BY <1>4, <1>5

LEMMA RetryMoves ==
  ASSUME TypeOK, CallInv, NEW r \in Request, Retry(r)
  PROVE  \E c \in CallRecord, x \in 0..Attempts : Continued(r, c, x)
<1> DEFINE c == [call[r] EXCEPT !.pc = "calling", !.attempt = @ + 1]
<1>1. call[r] \in CallRecord /\ executed[r] \in 0..Attempts /\ call[r].pc = "sleeping"
  BY DEF TypeOK, Retry
<1>2. call[r].attempt < Attempts
  BY <1>1 DEF CallInv
<1>3. c \in CallRecord
  BY <1>1, <1>2, CallUpdates
<1>4. call' = [call EXCEPT ![r] = c]
  BY DEF Retry, TypeOK
<1>5. executed' = [executed EXCEPT ![r] = executed[r]] /\ UNCHANGED cache /\ UNCHANGED blame
  BY DEF Retry, TypeOK
<1>6. /\ SameCall(r, c) /\ c.pc = "calling" /\ c.attempt = call[r].attempt + 1
      /\ c.result = call[r].result
  BY <1>1 DEF SameCall, CallRecord
<1> HIDE DEF c
<1>7. Continued(r, c, executed[r])
  BY <1>1, <1>3, <1>4, <1>5, <1>6 DEF Continued, Moves
<1> QED
  BY <1>1, <1>3, <1>7

LEMMA PositionCallAnsweredMoves ==
  ASSUME TypeOK, CallInv, NEW r \in Request, NEW o \in Outcome, PositionCallAnswered(r, o)
  PROVE  \E c \in CallRecord, x \in 0..Attempts : Settled(r, c, x)
<1>1. /\ call[r].pc = "calling" /\ call[r].kind \in {"close", "modify"}
      /\ Settle(r, o) /\ UNCHANGED blame
  BY DEF PositionCallAnswered
<1>2. executed[r] \in Nat /\ executed[r] + 1 \in 0..Attempts /\ executed[r] \in 0..Attempts
  BY <1>1, InFlightCall
<1>3. PICK x \in 0..Attempts : /\ executed' = [executed EXCEPT ![r] = x]
                               /\ x \in {executed[r], executed[r] + 1}
                               /\ o = "success" => x > 0
  <2>1. CASE executed' = [executed EXCEPT ![r] = @ + 1]
    <3>1. executed[r] + 1 > 0 /\ executed[r] + 1 \in {executed[r], executed[r] + 1}
      BY <1>2
    <3> QED
      BY <2>1, <3>1, <1>2
  <2>2. CASE o = "failure" /\ UNCHANGED executed
    <3>1. executed' = [executed EXCEPT ![r] = executed[r]]
      BY <2>2 DEF TypeOK
    <3> QED
      BY <2>2, <3>1, <1>2
  <2> QED
    BY <2>1, <2>2 DEF PositionCallAnswered
<1>4. PICK c \in CallRecord :
        /\ call' = [call EXCEPT ![r] = c] /\ SameCall(r, c) /\ c.pc = "done" /\ c.result = o
        /\ cache' = IF c.kind \in Orders THEN Stored(c.key, o) ELSE cache
  BY <1>1, SettleRecord
<1>5. c.kind \notin Orders
  BY <1>1, <1>4 DEF SameCall, Orders
<1>6. Settled(r, c, x)
  BY <1>1, <1>3, <1>4, <1>5 DEF Settled, Moves
<1> QED
  BY <1>6

-----------------------------------------------------------------------------
(* The invariant, one kind of move at a time *)

\* What a move leaves alone.
LEMMA MovesOneCall ==
  ASSUME TypeOK, NEW r \in Request, NEW c, NEW x, Moves(r, c, x)
  PROVE  /\ call'[r] = c /\ executed'[r] = x
         /\ \A q \in Request \ {r} : call'[q] = call[q] /\ executed'[q] = executed[q]
         /\ call' \in [Request -> CallRecord] /\ executed' \in [Request -> 0..Attempts]
  BY DEF TypeOK, Moves

\* Types of what the proofs below read.
LEMMA FieldTypes ==
  ASSUME TypeOK
  PROVE  /\ \A r \in Request : /\ call[r].key \in Key \cup {NoKey}
                               /\ call[r].attempt \in Nat /\ executed[r] \in Nat
                               /\ call[r].pc \in {"idle", "calling", "sleeping", "done"}
         /\ \A k \in Key : cache[k] \in Outcome \cup {"none"}
<1>1. \A c \in CallRecord : /\ c.key \in Key \cup {NoKey} /\ c.attempt \in Nat
                            /\ c.pc \in {"idle", "calling", "sleeping", "done"}
  BY RouterAssumption DEF CallRecord
<1> QED
  BY <1>1, RouterAssumption DEF TypeOK

\* Blame is never taken back.
LEMMA BlameGrows ==
  ASSUME TypeOK, NEW k \in Key \cup {NoKey}, NEW why \in {"lost", "overlap", "expired"}
  PROVE  /\ Blamed(k, why) \in [Key -> SUBSET {"lost", "overlap", "expired"}]
         /\ \A j \in Key : blame[j] # {} => Blamed(k, why)[j] # {}
         /\ k \in Key => Blamed(k, why)[k] # {}
  BY RouterAssumption DEF TypeOK, Blamed

LEMMA ReturnedKeepsCallInv ==
  ASSUME TypeOK, CallInv, NEW r \in Request, NEW c \in CallRecord, Returned(r, c)
  PROVE  CallInv'
  BY MovesOneCall DEF Returned, CallInv, InFlight, Keyed

LEMMA CalledKeepsCallInv ==
  ASSUME TypeOK, CallInv, NEW r \in Request, NEW c \in CallRecord, Called(r, c)
  PROVE  CallInv'
<1>1. executed[r] = 0
  BY DEF Called, CallInv
<1> QED
  BY <1>1, MovesOneCall DEF Called, CallInv, InFlight, Keyed

LEMMA ContinuedKeepsCallInv ==
  ASSUME TypeOK, CallInv, NEW r \in Request, NEW c \in CallRecord, NEW x \in 0..Attempts,
         Continued(r, c, x)
  PROVE  CallInv'
<1>1. call[r].attempt \in Nat /\ executed[r] \in Nat
  BY FieldTypes
<1>2. /\ c.pc = "calling" => x < c.attempt
      /\ c.pc = "sleeping" => x <= c.attempt /\ c.attempt < Attempts
      /\ c.broker \in Broker /\ c.result = "none" /\ ~c.replay
      /\ c.pc \in {"calling", "sleeping"}
  BY <1>1 DEF Continued, CallInv, SameCall, InFlight
<1>3. c.kind \notin Orders => c.key = NoKey
  BY DEF Continued, CallInv, SameCall, Keyed
<1>4. Moves(r, c, x)
  BY DEF Continued
<1> QED
  BY <1>2, <1>3, <1>4, MovesOneCall DEF CallInv, InFlight, Keyed

LEMMA SettledKeepsCallInv ==
  ASSUME TypeOK, CallInv, NEW r \in Request, NEW c \in CallRecord, NEW x \in 0..Attempts,
         Settled(r, c, x)
  PROVE  CallInv'
<1>1. c.kind \notin Orders => c.key = NoKey
  BY DEF Settled, CallInv, SameCall, Keyed
<1>2. Moves(r, c, x) /\ c.pc = "done"
  BY DEF Settled
<1> QED
  BY <1>1, <1>2, MovesOneCall DEF CallInv, InFlight, Keyed

\* A move that keeps the call's key once it has executed something keeps every
\* key backed.
LEMMA BackedStays ==
  ASSUME TypeOK, CallInv, NEW r \in Request, NEW c \in CallRecord, NEW x \in 0..Attempts,
         Moves(r, c, x), call[r].pc = "idle" \/ SameCall(r, c), x >= executed[r]
  PROVE  \A k : Backed(k) => Backed(k)'
<1>1. \A q \in Request : executed[q] > 0 => executed'[q] > 0 /\ call'[q].key = call[q].key
  BY MovesOneCall, FieldTypes DEF CallInv, SameCall
<1> QED
  BY <1>1 DEF Backed

LEMMA ReturnedKeepsResultInv ==
  ASSUME TypeOK, CallInv, ResultInv, NEW r \in Request, NEW c \in CallRecord, Returned(r, c)
  PROVE  ResultInv'
<1>1. /\ Moves(r, c, executed[r]) /\ call[r].pc = "idle" /\ UNCHANGED cache
      /\ executed[r] \in 0..Attempts /\ executed[r] >= executed[r]
  BY DEF Returned, TypeOK
<1>2. \A k : Backed(k) => Backed(k)'
  BY <1>1, BackedStays
<1>3. c.result = "success" => c.replay /\ c.key \in Key /\ Backed(c.key)'
  <2>1. c.result = "success" => c.replay /\ c.key # NoKey /\ cache[c.key] = "success"
    BY DEF Returned
  <2> QED
    BY <2>1, <1>2 DEF ResultInv, CallRecord
<1> QED
  BY <1>1, <1>2, <1>3, MovesOneCall, RouterAssumption DEF ResultInv, Keyed

LEMMA CalledKeepsResultInv ==
  ASSUME TypeOK, CallInv, ResultInv, NEW r \in Request, NEW c \in CallRecord, Called(r, c)
  PROVE  ResultInv'
<1>1. /\ Moves(r, c, executed[r]) /\ call[r].pc = "idle" /\ UNCHANGED cache
      /\ executed[r] \in 0..Attempts /\ executed[r] >= executed[r] /\ c.result = "none"
  BY DEF Called, TypeOK
<1>2. \A k : Backed(k) => Backed(k)'
  BY <1>1, BackedStays
<1> QED
  BY <1>1, <1>2, MovesOneCall DEF ResultInv, Keyed

LEMMA ContinuedKeepsResultInv ==
  ASSUME TypeOK, CallInv, ResultInv, NEW r \in Request, NEW c \in CallRecord,
         NEW x \in 0..Attempts, Continued(r, c, x)
  PROVE  ResultInv'
<1>1. Moves(r, c, x) /\ SameCall(r, c) /\ UNCHANGED cache /\ x >= executed[r]
  BY FieldTypes DEF Continued
<1>2. \A k : Backed(k) => Backed(k)'
  BY <1>1, BackedStays
<1>3. c.result = "none"
  BY DEF Continued, CallInv, InFlight
<1> QED
  BY <1>1, <1>2, <1>3, MovesOneCall DEF ResultInv, Keyed

LEMMA SettledKeepsResultInv ==
  ASSUME TypeOK, CallInv, ResultInv, NEW r \in Request, NEW c \in CallRecord,
         NEW x \in 0..Attempts, Settled(r, c, x)
  PROVE  ResultInv'
<1>1. Moves(r, c, x) /\ SameCall(r, c) /\ x >= executed[r] /\ (c.result = "success" => x > 0)
  BY FieldTypes DEF Settled
<1>2. \A k : Backed(k) => Backed(k)'
  BY <1>1, BackedStays
<1>3. c.result = "success" => Backed(c.key)'
  BY <1>1, MovesOneCall DEF Backed
<1>4. ~c.replay
  BY <1>1 DEF SameCall, Settled, CallInv, InFlight
<1>5. \A k \in Key : cache'[k] = "success" =>
        cache[k] = "success" \/ (k = c.key /\ c.result = "success")
  BY DEF Settled, Stored, TypeOK
<1>6. (\A k \in Key : cache[k] = "success" => Backed(k))'
  BY <1>2, <1>3, <1>5 DEF ResultInv
<1>7. ASSUME NEW q \in Request, call'[q].result = "success"
      PROVE  (IF call[q].replay THEN Keyed(q) /\ Backed(call[q].key) ELSE executed[q] > 0)'
  <2>1. CASE q = r
    BY <2>1, <1>1, <1>4, <1>7, MovesOneCall
  <2>2. CASE q # r
    BY <2>2, <1>1, <1>2, <1>7, MovesOneCall DEF ResultInv, Keyed
  <2> QED
    BY <2>1, <2>2
<1> QED
  BY <1>6, <1>7 DEF ResultInv

LEMMA ReturnedKeepsKeyInv ==
  ASSUME TypeOK, CallInv, KeyInv, NEW r \in Request, NEW c \in CallRecord, Returned(r, c)
  PROVE  KeyInv'
<1>1. Moves(r, c, executed[r]) /\ c.pc = "done" /\ UNCHANGED cache /\ UNCHANGED blame
  BY DEF Returned
<1>2. executed[r] = 0 /\ executed'[r] = 0
  BY <1>1, MovesOneCall DEF Returned, CallInv
<1> QED
  BY <1>1, <1>2, MovesOneCall DEF KeyInv, Keyed, BlamedKey, InFlight

\* The only way two calls with one key are in flight together is that one
\* entered while the other was; the only way one enters after the other
\* executed something is that the stored result has expired.
LEMMA CalledKeepsKeyInv ==
  ASSUME TypeOK, CallInv, KeyInv, NEW r \in Request, NEW c \in CallRecord, Called(r, c)
  PROVE  KeyInv'
<1>1. Moves(r, c, executed[r]) /\ c.pc = "calling" /\ UNCHANGED cache
      /\ (c.key # NoKey => c.key \in Key /\ cache[c.key] = "none")
  BY DEF Called, CallRecord
<1>2. executed[r] = 0 /\ executed'[r] = 0
  BY <1>1, MovesOneCall DEF Called, CallInv
<1>3. \A k \in Key : blame[k] # {} => blame'[k] # {}
  BY BlameGrows DEF Called, CallRecord
<1>4. ASSUME c.key # NoKey, NEW q \in Request \ {r}, call[q].key = c.key,
             InFlight(q) \/ executed[q] > 0
      PROVE  blame'[c.key] # {}
  <2>1. CASE InFlight(q)
    <3>1. Overlaps(c.key)
      BY <1>4, <2>1 DEF Overlaps
    <3>2. blame' = Blamed(c.key, "overlap") /\ c.key \in Key
      BY <3>1, <1>1, <1>4 DEF Called
    <3> QED
      BY <3>2, BlameGrows
  <2>2. CASE ~InFlight(q)
    <3>1. executed[q] > 0 /\ call[q].pc = "done" /\ Keyed(q) /\ cache[call[q].key] = "none"
      BY <1>1, <1>4, <2>2, FieldTypes DEF CallInv, InFlight, Keyed
    <3>2. blame[c.key] # {}
      BY <3>1, <1>4 DEF KeyInv, BlamedKey
    <3> QED
      BY <3>2, <1>1, <1>3, <1>4
  <2> QED
    BY <2>1, <2>2
<1>5. ASSUME NEW q \in Request, Keyed(q)', executed'[q] > 0
      PROVE  (/\ InFlight(q) \/ executed[q] > 1 => BlamedKey(q)
              /\ call[q].pc = "done" => cache[call[q].key] # "none" \/ BlamedKey(q))'
  <2>1. q # r /\ call'[q] = call[q] /\ executed'[q] = executed[q] /\ call[q].key \in Key
    BY <1>1, <1>2, <1>5, MovesOneCall, FieldTypes DEF Keyed
  <2> QED
    BY <2>1, <1>1, <1>3, <1>5 DEF KeyInv, Keyed, BlamedKey, InFlight
<1>6. ASSUME NEW p \in Request, NEW q \in Request, p # q, Keyed(p)', call'[q].key = call'[p].key
      PROVE  (/\ InFlight(p) /\ InFlight(q) => BlamedKey(p)
              /\ InFlight(p) /\ executed[q] > 0 => BlamedKey(p)
              /\ executed[p] > 0 /\ executed[q] > 0 => BlamedKey(p))'
  <2>1. CASE p = r
    BY <2>1, <1>1, <1>2, <1>4, <1>6, MovesOneCall DEF Keyed, BlamedKey, InFlight
  <2>2. CASE q = r
    BY <2>2, <1>1, <1>2, <1>4, <1>6, MovesOneCall DEF Keyed, BlamedKey, InFlight
  <2>3. CASE p # r /\ q # r
    <3>1. /\ call'[p] = call[p] /\ executed'[p] = executed[p] /\ call[p].key \in Key
          /\ call'[q] = call[q] /\ executed'[q] = executed[q]
      BY <1>1, <1>6, <2>3, MovesOneCall, FieldTypes DEF Keyed
    <3> QED
      BY <3>1, <1>3, <1>6 DEF KeyInv, Keyed, BlamedKey, InFlight
  <2> QED
    BY <2>1, <2>2, <2>3
<1> QED
  BY <1>5, <1>6 DEF KeyInv

\* A lost answer is blamed on the key; nothing else changes in flight.
LEMMA ContinuedKeepsKeyInv ==
  ASSUME TypeOK, CallInv, KeyInv, NEW r \in Request, NEW c \in CallRecord,
         NEW x \in 0..Attempts, Continued(r, c, x)
  PROVE  KeyInv'
<1>1. /\ Moves(r, c, x) /\ UNCHANGED cache /\ c.key = call[r].key
      /\ c.pc \in {"calling", "sleeping"} /\ InFlight(r)
      /\ x = executed[r] \/ (x = executed[r] + 1 /\ blame' = Blamed(c.key, "lost"))
      /\ call[r].key \in Key \cup {NoKey}
  BY FieldTypes DEF Continued, SameCall, InFlight
<1>2. \A k \in Key : blame[k] # {} => blame'[k] # {}
  BY <1>1, BlameGrows DEF Continued
<1>3. Keyed(r) /\ x > 0 => blame'[c.key] # {}
  BY <1>1, <1>2, BlameGrows DEF KeyInv, Keyed, BlamedKey
<1>4. ASSUME NEW q \in Request, Keyed(q)', executed'[q] > 0
      PROVE  (/\ InFlight(q) \/ executed[q] > 1 => BlamedKey(q)
              /\ call[q].pc = "done" => cache[call[q].key] # "none" \/ BlamedKey(q))'
  <2>1. CASE q = r
    BY <2>1, <1>1, <1>3, <1>4, MovesOneCall DEF Keyed, BlamedKey, InFlight
  <2>2. CASE q # r
    <3>1. call'[q] = call[q] /\ executed'[q] = executed[q] /\ call[q].key \in Key
      BY <1>1, <1>4, <2>2, MovesOneCall, FieldTypes DEF Keyed
    <3> QED
      BY <3>1, <1>1, <1>2, <1>4 DEF KeyInv, Keyed, BlamedKey, InFlight
  <2> QED
    BY <2>1, <2>2
<1>5. ASSUME NEW p \in Request, NEW q \in Request, p # q, Keyed(p)', call'[q].key = call'[p].key
      PROVE  (/\ InFlight(p) /\ InFlight(q) => BlamedKey(p)
              /\ InFlight(p) /\ executed[q] > 0 => BlamedKey(p)
              /\ executed[p] > 0 /\ executed[q] > 0 => BlamedKey(p))'
  <2>1. /\ call'[p].key = call[p].key /\ call'[q].key = call[q].key
        /\ Keyed(p) /\ Keyed(q) /\ call[p].key \in Key
        /\ InFlight(p)' <=> InFlight(p)
        /\ InFlight(q)' <=> InFlight(q)
    BY <1>1, <1>5, MovesOneCall, FieldTypes DEF Keyed, InFlight
  <2>2. p # r => executed'[p] = executed[p]
    BY <1>1, MovesOneCall
  <2>3. q # r => executed'[q] = executed[q]
    BY <1>1, MovesOneCall
  <2>4. p = r /\ executed'[p] > 0 => BlamedKey(p)'
    BY <1>1, <1>3, <1>5, <2>1, MovesOneCall DEF BlamedKey
  <2>5. q = r /\ executed'[q] > 0 => BlamedKey(p)'
    BY <1>1, <1>3, <1>5, <2>1, MovesOneCall DEF BlamedKey
  <2>6. BlamedKey(p) => BlamedKey(p)'
    BY <1>2, <2>1 DEF BlamedKey
  <2> QED
    BY <1>5, <2>1, <2>2, <2>3, <2>4, <2>5, <2>6 DEF KeyInv
<1> QED
  BY <1>4, <1>5 DEF KeyInv

\* A call returns with its result stored under its key.
LEMMA SettledKeepsKeyInv ==
  ASSUME TypeOK, CallInv, KeyInv, NEW r \in Request, NEW c \in CallRecord,
         NEW x \in 0..Attempts, Settled(r, c, x)
  PROVE  KeyInv'
<1>1. /\ Moves(r, c, x) /\ c.key = call[r].key /\ c.pc = "done" /\ InFlight(r)
      /\ x \in {executed[r], executed[r] + 1} /\ executed[r] \in Nat
      /\ call[r].key \in Key \cup {NoKey}
  BY FieldTypes DEF Settled, SameCall, InFlight
<1>2. \A k \in Key : blame[k] # {} => blame'[k] # {}
  BY <1>1, BlameGrows DEF Settled
<1>3. Keyed(r) => /\ call[r].key \in Key /\ cache'[call[r].key] # "none"
                  /\ \A k \in Key : cache[k] # "none" => cache'[k] # "none"
  <2>1. Keyed(r) => c.kind \in Orders /\ c.key \in Key /\ c.key # NoKey
    BY <1>1, RouterAssumption DEF CallInv, Settled, SameCall, Keyed
  <2> QED
    BY <1>1, <2>1 DEF Settled, Stored, TypeOK, Outcome
<1>4. ~Keyed(r) => UNCHANGED cache
  BY <1>1 DEF Settled, Stored, Keyed
<1>5. Keyed(r) /\ executed[r] > 0 => blame'[c.key] # {}
  BY <1>1, <1>2, <1>3 DEF KeyInv, BlamedKey
<1>6. ASSUME NEW q \in Request, Keyed(q)', executed'[q] > 0
      PROVE  (/\ InFlight(q) \/ executed[q] > 1 => BlamedKey(q)
              /\ call[q].pc = "done" => cache[call[q].key] # "none" \/ BlamedKey(q))'
  <2>1. CASE q = r
    BY <2>1, <1>1, <1>3, <1>5, <1>6, MovesOneCall DEF Keyed, BlamedKey, InFlight
  <2>2. CASE q # r
    <3>1. call'[q] = call[q] /\ executed'[q] = executed[q] /\ call[q].key \in Key
      BY <1>1, <1>6, <2>2, MovesOneCall, FieldTypes DEF Keyed
    <3> QED
      BY <3>1, <1>2, <1>3, <1>4, <1>6 DEF KeyInv, Keyed, BlamedKey, InFlight
  <2> QED
    BY <2>1, <2>2
<1>7. ASSUME NEW p \in Request, NEW q \in Request, p # q, Keyed(p)', call'[q].key = call'[p].key
      PROVE  (/\ InFlight(p) /\ InFlight(q) => BlamedKey(p)
              /\ InFlight(p) /\ executed[q] > 0 => BlamedKey(p)
              /\ executed[p] > 0 /\ executed[q] > 0 => BlamedKey(p))'
  <2>1. /\ call'[p].key = call[p].key /\ call'[q].key = call[q].key
        /\ Keyed(p) /\ Keyed(q) /\ call[p].key \in Key
        /\ InFlight(p)' => InFlight(p) /\ p # r
        /\ InFlight(q)' => InFlight(q) /\ q # r
    BY <1>1, <1>7, MovesOneCall, FieldTypes DEF Keyed, InFlight
  <2>2. p # r => executed'[p] = executed[p]
    BY <1>1, MovesOneCall
  <2>3. q # r => executed'[q] = executed[q]
    BY <1>1, MovesOneCall
  <2>4. BlamedKey(p) => BlamedKey(p)'
    BY <1>2, <2>1 DEF BlamedKey
  <2>5. BlamedKey(q) <=> BlamedKey(p)
    BY <1>7, <2>1 DEF BlamedKey
  <2> QED
    BY <1>1, <1>7, <2>1, <2>2, <2>3, <2>4, <2>5 DEF KeyInv
<1> QED
  BY <1>6, <1>7 DEF KeyInv

\* A stored result that expires is blamed on its key.
LEMMA CacheExpiresKeepsInv ==
  ASSUME TypeOK, CallInv, ResultInv, KeyInv, NEW k \in Key, CacheExpires(k)
  PROVE  CallInv' /\ ResultInv' /\ KeyInv'
<1>1. /\ cache' = [cache EXCEPT ![k] = "none"] /\ blame' = Blamed(k, "expired")
      /\ UNCHANGED <<call, executed>>
  BY DEF CacheExpires
<1>2. /\ \A j \in Key : blame[j] # {} => blame'[j] # {}
      /\ blame'[k] # {}
  BY <1>1, BlameGrows
<1>3. \A j \in Key : j = k \/ cache'[j] = cache[j]
  BY <1>1 DEF TypeOK
<1>4. cache'[k] # "success"
  BY <1>1 DEF TypeOK
<1>5. \A r \in Request : Keyed(r) => call[r].key \in Key
  BY FieldTypes DEF Keyed
<1>6. CallInv'
  BY <1>1 DEF CallInv, InFlight, Keyed
<1>7. ResultInv'
  BY <1>1, <1>3, <1>4 DEF ResultInv, Backed, Keyed
<1>8. KeyInv'
  BY <1>1, <1>2, <1>3, <1>5 DEF KeyInv, Keyed, BlamedKey, InFlight
<1> QED
  BY <1>6, <1>7, <1>8

-----------------------------------------------------------------------------
(* Types of the state the calls share *)

LEMMA SettleTypes ==
  ASSUME TypeOK, NEW r \in Request, NEW o \in Outcome, Settle(r, o)
  PROVE  /\ cache' \in [Key -> Outcome \cup {"none"}]
         /\ orderLog' \in Seq(Request) /\ Len(orderLog') <= AuditLimit
<1>1. cache' \in [Key -> Outcome \cup {"none"}]
  BY DEF TypeOK, Settle, Stored
<1>2. orderLog' = Logged(r)
  BY DEF Settle
<1> QED
  BY <1>1, <1>2, LogStaysBounded

\* The types that do not depend on which call moved.
SharedTypeOK ==
  /\ killSwitch \in BOOLEAN
  /\ cache \in [Key -> Outcome \cup {"none"}]
  /\ breaker \in [Broker -> BreakerRecord]
  /\ orderLog \in Seq(Request) /\ Len(orderLog) <= AuditLimit
  /\ blame \in [Key -> SUBSET {"lost", "overlap", "expired"}]

LEMMA SharedTypeStep == TypeOK /\ CallInv /\ [Next]_vars => SharedTypeOK'
<1> SUFFICES ASSUME TypeOK, CallInv, [Next]_vars PROVE SharedTypeOK'
  OBVIOUS
<1>1. ASSUME NEW r \in Request, NEW b \in Broker, NEW kind \in Orders,
             NEW k \in Key \cup {NoKey}, EnterOrder(r, kind, k, b)
      PROVE  SharedTypeOK'
  <2>1. breaker' \in [Broker -> BreakerRecord]
    <3>1. BreakerRead(b) \in BreakerRecord
      BY BreakerUpdates DEF BreakerRead, TypeOK
    <3> QED
      BY <1>1, <3>1 DEF EnterOrder, TypeOK
  <2>2. blame' \in [Key -> SUBSET {"lost", "overlap", "expired"}]
    <3>1. blame' = blame \/ blame' = Blamed(k, "overlap")
      BY <1>1 DEF EnterOrder
    <3> QED
      BY <3>1, BlameGrows DEF TypeOK
  <2> QED
    BY <1>1, <2>1, <2>2 DEF EnterOrder, SharedTypeOK, TypeOK
<1>2. ASSUME NEW r \in Request, NEW b \in Broker, NEW kind \in {"close", "modify"},
             EnterPositionCall(r, kind, b)
      PROVE  SharedTypeOK'
  BY <1>2 DEF EnterPositionCall, SharedTypeOK, TypeOK
<1>3. ASSUME NEW r \in Request, OrderSucceeds(r) PROVE SharedTypeOK'
  <2>1. Settle(r, "success") /\ "success" \in Outcome
    BY <1>3 DEF OrderSucceeds, Outcome
  <2>2. breaker' \in [Broker -> BreakerRecord]
    BY <1>3, BreakerUpdates DEF OrderSucceeds, TypeOK
  <2> QED
    BY <1>3, <2>1, <2>2, SettleTypes DEF OrderSucceeds, SharedTypeOK, TypeOK
<1>4. ASSUME NEW r \in Request, NEW lost \in BOOLEAN, OrderAttemptFails(r, lost)
      PROVE  SharedTypeOK'
  <2>1. call[r].broker \in Broker /\ call[r].key \in Key \cup {NoKey}
    BY <1>4, InFlightCall, FieldTypes DEF OrderAttemptFails
  <2>2. breaker' \in [Broker -> BreakerRecord]
    BY <1>4, <2>1, BreakerUpdates DEF OrderAttemptFails, TypeOK
  <2>3. blame' \in [Key -> SUBSET {"lost", "overlap", "expired"}]
    BY <1>4, <2>1, BlameGrows DEF OrderAttemptFails, TypeOK
  <2>4. /\ cache' \in [Key -> Outcome \cup {"none"}]
        /\ orderLog' \in Seq(Request) /\ Len(orderLog') <= AuditLimit
    <3>1. Settle(r, "failure") \/ UNCHANGED <<cache, orderLog>>
      BY <1>4 DEF OrderAttemptFails
    <3> QED
      BY <3>1, SettleTypes DEF TypeOK, Outcome
  <2> QED
    BY <1>4, <2>2, <2>3, <2>4 DEF OrderAttemptFails, SharedTypeOK, TypeOK
<1>5. ASSUME NEW r \in Request, NEW o \in Outcome, PositionCallAnswered(r, o)
      PROVE  SharedTypeOK'
  BY <1>5, SettleTypes DEF PositionCallAnswered, SharedTypeOK, TypeOK
<1>6. ASSUME NEW r \in Request, Retry(r) PROVE SharedTypeOK'
  BY <1>6 DEF Retry, SharedTypeOK, TypeOK
<1>7. ASSUME NEW enabled \in BOOLEAN, SetKillSwitch(enabled) PROVE SharedTypeOK'
  BY <1>7 DEF SetKillSwitch, SharedTypeOK, TypeOK
<1>8. ASSUME NEW k \in Key, CacheExpires(k) PROVE SharedTypeOK'
  BY <1>8, BlameGrows DEF CacheExpires, SharedTypeOK, TypeOK
<1>9. ASSUME NEW b \in Broker, BreakerCoolsDown(b) PROVE SharedTypeOK'
  <2>1. [breaker[b] EXCEPT !.expired = TRUE] \in BreakerRecord
    BY BreakerUpdates DEF TypeOK
  <2> QED
    BY <1>9, <2>1 DEF BreakerCoolsDown, SharedTypeOK, TypeOK
<1>10. CASE UNCHANGED vars
  BY <1>10 DEF vars, SharedTypeOK, TypeOK
<1> QED
  BY <1>1, <1>2, <1>3, <1>4, <1>5, <1>6, <1>7, <1>8, <1>9, <1>10 DEF Next, Answered

-----------------------------------------------------------------------------
(* The invariant of the router *)

\* Every step moves one call in one of the four ways, or expires a stored
\* result, or touches neither the calls nor the cache.
LEMMA EveryStepMoves ==
  ASSUME TypeOK, CallInv, [Next]_vars
  PROVE  \/ \E r \in Request, c \in CallRecord : Returned(r, c) \/ Called(r, c)
         \/ \E r \in Request, c \in CallRecord, x \in 0..Attempts :
              Continued(r, c, x) \/ Settled(r, c, x)
         \/ \E k \in Key : CacheExpires(k)
         \/ UNCHANGED <<call, executed, cache, blame>>
<1>1. ASSUME NEW r \in Request, NEW b \in Broker, NEW kind \in Orders,
             NEW k \in Key \cup {NoKey}, EnterOrder(r, kind, k, b)
      PROVE  \E c \in CallRecord : Returned(r, c) \/ Called(r, c)
  BY <1>1, EnterOrderMoves
<1>2. ASSUME NEW r \in Request, NEW b \in Broker, NEW kind \in {"close", "modify"},
             EnterPositionCall(r, kind, b)
      PROVE  \E c \in CallRecord : Returned(r, c) \/ Called(r, c)
  BY <1>2, EnterPositionCallMoves
<1>3. ASSUME NEW r \in Request, Answered(r) \/ Retry(r)
      PROVE  \E c \in CallRecord, x \in 0..Attempts : Continued(r, c, x) \/ Settled(r, c, x)
  BY <1>3, OrderSucceedsMoves, OrderAttemptFailsMoves, PositionCallAnsweredMoves, RetryMoves
  DEF Answered
<1>4. ASSUME \/ \E enabled \in BOOLEAN : SetKillSwitch(enabled)
             \/ \E b \in Broker : BreakerCoolsDown(b)
             \/ UNCHANGED vars
      PROVE  UNCHANGED <<call, executed, cache, blame>>
  BY <1>4 DEF SetKillSwitch, BreakerCoolsDown, vars
<1> QED
  BY <1>1, <1>2, <1>3, <1>4 DEF Next

LEMMA InductiveInit == Init => IInv
<1> SUFFICES ASSUME Init PROVE IInv
  OBVIOUS
<1>1. \A r \in Request : call[r] = NewCall
  BY DEF Init
<1>2. /\ NewCall.pc = "idle" /\ NewCall.key = NoKey /\ NewCall.result = "none"
  BY DEF NewCall
<1>3. TypeOK
  <2>1. killSwitch \in BOOLEAN /\ call \in [Request -> CallRecord]
    BY CallUpdates DEF Init
  <2>2. breaker \in [Broker -> BreakerRecord]
    BY BreakerUpdates DEF Init
  <2>3. orderLog \in Seq(Request) /\ Len(orderLog) <= AuditLimit
    BY RouterAssumption DEF Init
  <2>4. /\ cache \in [Key -> Outcome \cup {"none"}]
        /\ blame \in [Key -> SUBSET {"lost", "overlap", "expired"}]
    BY DEF Init
  <2>5. executed \in [Request -> 0..Attempts]
    BY RouterAssumption DEF Init
  <2> QED
    BY <2>1, <2>2, <2>3, <2>4, <2>5 DEF TypeOK
<1>4. CallInv /\ ResultInv /\ KeyInv
  BY <1>1, <1>2 DEF Init, CallInv, ResultInv, KeyInv, InFlight, Keyed
<1> QED
  BY <1>3, <1>4 DEF IInv

LEMMA InductiveStep == IInv /\ [Next]_vars => IInv'
<1> SUFFICES ASSUME TypeOK, CallInv, ResultInv, KeyInv, [Next]_vars PROVE IInv'
  BY DEF IInv
<1>1. call' \in [Request -> CallRecord] /\ executed' \in [Request -> 0..Attempts]
  <2>1. ASSUME NEW r \in Request, NEW c, NEW x, Moves(r, c, x)
        PROVE  call' \in [Request -> CallRecord] /\ executed' \in [Request -> 0..Attempts]
    BY <2>1, MovesOneCall
  <2>2. UNCHANGED <<call, executed>>
          => call' \in [Request -> CallRecord] /\ executed' \in [Request -> 0..Attempts]
    BY DEF TypeOK
  <2> QED
    BY <2>1, <2>2, EveryStepMoves DEF Returned, Called, Continued, Settled, CacheExpires
<1>2. TypeOK'
  BY <1>1, SharedTypeStep DEF SharedTypeOK, TypeOK
<1>3. CASE UNCHANGED <<call, executed, cache, blame>>
  <2>1. CallInv'
    BY <1>3 DEF CallInv, InFlight, Keyed
  <2>2. ResultInv'
    BY <1>3 DEF ResultInv, Backed, Keyed
  <2>3. KeyInv'
    BY <1>3 DEF KeyInv, InFlight, Keyed, BlamedKey
  <2> QED
    BY <1>2, <2>1, <2>2, <2>3 DEF IInv
<1>4. (CallInv' /\ ResultInv' /\ KeyInv') \/ UNCHANGED <<call, executed, cache, blame>>
  BY EveryStepMoves, CacheExpiresKeepsInv,
     ReturnedKeepsCallInv, ReturnedKeepsResultInv, ReturnedKeepsKeyInv,
     CalledKeepsCallInv, CalledKeepsResultInv, CalledKeepsKeyInv,
     ContinuedKeepsCallInv, ContinuedKeepsResultInv, ContinuedKeepsKeyInv,
     SettledKeepsCallInv, SettledKeepsResultInv, SettledKeepsKeyInv
<1> QED
  BY <1>2, <1>3, <1>4 DEF IInv

LEMMA IInvHolds == Spec => []IInv
  BY InductiveInit, InductiveStep, PTL DEF Spec

\* Type correctness: in particular no order is executed more often than it was
\* attempted, and the order log keeps within its limit.
THEOREM TypeCorrect == Spec => []TypeOK
<1>1. IInv => TypeOK
  BY DEF IInv
<1> QED
  BY <1>1, IInvHolds, PTL

\* The idempotency cache leaves three ways to execute one key twice: an answer
\* lost on the way, two calls that overlap, and a stored result that expired.
THEOREM DuplicatesAreExplained == Spec => []DuplicateExplained
<1>1. IInv => DuplicateExplained
  <2> SUFFICES ASSUME TypeOK, KeyInv, NEW r \in Request, NEW q \in Request,
                      call[r].key = call[q].key, call[r].key # NoKey,
                      IF r = q THEN executed[r] > 1 ELSE executed[r] > 0 /\ executed[q] > 0
               PROVE  blame[call[r].key] # {}
    BY DEF IInv, DuplicateExplained
  <2>1. CASE r = q
    BY <2>1, FieldTypes DEF KeyInv, Keyed, BlamedKey
  <2>2. CASE r # q
    BY <2>2 DEF KeyInv, Keyed, BlamedKey
  <2> QED
    BY <2>1, <2>2
<1> QED
  BY <1>1, IInvHolds, PTL

\* Nobody is told of a success that has no executed order behind it, neither by
\* the call itself nor by a replay from the cache.
THEOREM SuccessesAreExecuted == Spec => []SuccessMeansExecuted
<1>1. IInv => SuccessMeansExecuted
  BY DEF IInv, ResultInv, Backed, SuccessMeansExecuted
<1> QED
  BY <1>1, IInvHolds, PTL

\* r is the call whose answer the cache holds for the key k.
Tells(r, k) == call[r].key = k /\ call[r].pc = "done" /\ ~call[r].replay /\ call[r].result = cache[k]

\* A call that has returned never moves again, so it goes on telling its key.
LEMMA ReturnedCallsStay ==
  ASSUME TypeOK, NEW r \in Request, NEW c, NEW x, Moves(r, c, x), call[r].pc # "done",
         NEW q \in Request, NEW k \in Key, Tells(q, k), cache'[k] = cache[k]
  PROVE  Tells(q, k)'
<1>1. q # r
  BY DEF Tells
<1> QED
  BY <1>1, MovesOneCall DEF Tells

LEMMA TruthStep ==
  ASSUME IInv, StoredWasTold, [Next]_vars
  PROVE  StoredWasTold'
<1> USE DEF IInv
<1> SUFFICES ASSUME NEW k \in Key, cache'[k] # "none"
             PROVE  \E q \in Request : Tells(q, k)'
  BY DEF StoredWasTold, Told, Tells
<1>1. cache[k] # "none" => \E q \in Request : Tells(q, k)
  BY DEF StoredWasTold, Told, Tells
<1>2. ASSUME NEW r \in Request, NEW c, NEW x, Moves(r, c, x), call[r].pc # "done",
             cache'[k] = cache[k]
      PROVE  \E q \in Request : Tells(q, k)'
  BY <1>1, <1>2, ReturnedCallsStay
<1>3. ASSUME NEW r \in Request, NEW c \in CallRecord, Returned(r, c) \/ Called(r, c)
      PROVE  \E q \in Request : Tells(q, k)'
  <2>1. Moves(r, c, executed[r]) /\ call[r].pc # "done" /\ UNCHANGED cache
    BY <1>3 DEF Returned, Called
  <2> QED
    BY <2>1, <1>2
<1>4. ASSUME NEW r \in Request, NEW c \in CallRecord, NEW x \in 0..Attempts, Continued(r, c, x)
      PROVE  \E q \in Request : Tells(q, k)'
  <2>1. Moves(r, c, x) /\ call[r].pc # "done" /\ UNCHANGED cache
    BY <1>4 DEF Continued
  <2> QED
    BY <2>1, <1>2
<1>5. ASSUME NEW r \in Request, NEW c \in CallRecord, NEW x \in 0..Attempts, Settled(r, c, x)
      PROVE  \E q \in Request : Tells(q, k)'
  <2>1. /\ Moves(r, c, x) /\ SameCall(r, c) /\ call[r].pc = "calling" /\ c.pc = "done"
        /\ cache' = IF c.kind \in Orders THEN Stored(c.key, c.result) ELSE cache
    BY <1>5 DEF Settled
  <2>2. cache'[k] = cache[k] \/ (c.key = k /\ cache'[k] = c.result)
    BY <2>1 DEF Stored, TypeOK
  <2>3. CASE c.key = k /\ cache'[k] = c.result
    <3>1. ~c.replay
      BY <2>1 DEF CallInv, InFlight, SameCall
    <3>2. call'[r] = c
      BY <2>1, MovesOneCall
    <3> QED
      BY <2>1, <2>3, <3>1, <3>2 DEF Tells
  <2> QED
    BY <2>1, <2>2, <2>3, <1>2
<1>6. ASSUME NEW j \in Key, CacheExpires(j)
      PROVE  \E q \in Request : Tells(q, k)'
  <2>1. UNCHANGED call /\ cache'[k] = cache[k]
    BY <1>6 DEF CacheExpires, TypeOK
  <2> QED
    BY <2>1, <1>1 DEF Tells
<1>7. CASE UNCHANGED <<call, executed, cache, blame>>
  BY <1>7, <1>1 DEF Tells
<1> QED
  BY <1>3, <1>4, <1>5, <1>6, <1>7, EveryStepMoves

-----------------------------------------------------------------------------
(* A success that was told stays in the cache *)

Excused(k) == blame[k] \cap {"overlap", "expired"} # {}

InFlightWith(r, k) == InFlight(r) /\ call[r].key = k
ToldSuccess(r, k) == Told(r, k) /\ call[r].result = "success"

\* Of a key that is not excused, at most one call is in flight, nothing is stored while
\* it is, and what it may overwrite is therefore no success that was told.
Orderly(k) ==
  /\ \A r \in Request : ToldSuccess(r, k) => cache[k] = "success"
  /\ \A r \in Request : InFlightWith(r, k) => cache[k] = "none"
  /\ \A r, q \in Request : InFlightWith(r, k) /\ InFlightWith(q, k) => r = q

KeptInv == \A k \in Key : Excused(k) \/ Orderly(k)

LEMMA ExcuseStays ==
  ASSUME TypeOK, NEW j \in Key \cup {NoKey}, NEW why \in {"lost", "overlap", "expired"},
         NEW k \in Key
  PROVE  /\ blame[k] \subseteq Blamed(j, why)[k]
         /\ j = k => why \in Blamed(j, why)[k]
  BY RouterAssumption DEF TypeOK, Blamed

LEMMA ReturnedKeepsOrder ==
  ASSUME IInv, NEW k \in Key, Orderly(k),
         NEW r \in Request, NEW c \in CallRecord, Returned(r, c)
  PROVE  Orderly(k)'
<1>1. /\ Moves(r, c, executed[r]) /\ call[r].pc = "idle" /\ c.pc = "done" /\ UNCHANGED cache
      /\ c.result = "failure" \/ c.replay
  BY DEF Returned
<1>2. call'[r] = c /\ \A q \in Request \ {r} : call'[q] = call[q]
  BY <1>1, MovesOneCall DEF IInv
<1>3. \A q \in Request : InFlightWith(q, k)' => InFlightWith(q, k)
  BY <1>1, <1>2 DEF InFlightWith, InFlight
<1>4. \A q \in Request : ToldSuccess(q, k)' => ToldSuccess(q, k)
  BY <1>1, <1>2 DEF ToldSuccess, Told
<1> QED
  BY <1>1, <1>3, <1>4 DEF Orderly

LEMMA CalledKeepsOrder ==
  ASSUME IInv, NEW k \in Key, Orderly(k),
         NEW r \in Request, NEW c \in CallRecord, Called(r, c)
  PROVE  Excused(k)' \/ Orderly(k)'
<1>1. /\ Moves(r, c, executed[r]) /\ call[r].pc = "idle" /\ c.pc = "calling" /\ UNCHANGED cache
      /\ c.key # NoKey => cache[c.key] = "none"
      /\ blame' = IF Overlaps(c.key) THEN Blamed(c.key, "overlap") ELSE blame
  BY DEF Called
<1>2. call'[r] = c /\ \A q \in Request \ {r} : call'[q] = call[q]
  BY <1>1, MovesOneCall DEF IInv
<1>3. k # NoKey
  BY RouterAssumption
<1>4. \A q \in Request : ToldSuccess(q, k)' => ToldSuccess(q, k)
  BY <1>1, <1>2 DEF ToldSuccess, Told
<1>5. CASE c.key # k
  <2>1. \A q \in Request : InFlightWith(q, k)' => InFlightWith(q, k)
    BY <1>2, <1>5 DEF InFlightWith, InFlight
  <2> QED
    BY <1>1, <1>4, <2>1 DEF Orderly
<1>6. CASE c.key = k /\ Overlaps(k)
  <2>1. "overlap" \in blame'[k]
    BY <1>1, <1>6, ExcuseStays DEF IInv
  <2> QED
    BY <2>1 DEF Excused
<1>7. CASE c.key = k /\ ~Overlaps(k)
  <2>1. cache'[k] = "none" /\ UNCHANGED cache
    BY <1>1, <1>3, <1>7
  <2>2. \A q \in Request : InFlightWith(q, k)' => q = r
    BY <1>2, <1>3, <1>7 DEF InFlightWith, InFlight, Overlaps
  <2> QED
    BY <1>4, <2>1, <2>2 DEF Orderly
<1> QED
  BY <1>5, <1>6, <1>7

LEMMA ContinuedKeepsOrder ==
  ASSUME IInv, NEW k \in Key, Orderly(k),
         NEW r \in Request, NEW c \in CallRecord, NEW x \in 0..Attempts, Continued(r, c, x)
  PROVE  Orderly(k)'
<1>1. /\ Moves(r, c, x) /\ c.key = call[r].key /\ InFlight(r) /\ UNCHANGED cache
      /\ c.pc \in {"calling", "sleeping"}
  BY DEF Continued, SameCall, InFlight
<1>2. call'[r] = c /\ \A q \in Request \ {r} : call'[q] = call[q]
  BY <1>1, MovesOneCall DEF IInv
<1>3. \A q \in Request : InFlightWith(q, k)' => InFlightWith(q, k)
  BY <1>1, <1>2 DEF InFlightWith, InFlight
<1>4. \A q \in Request : ToldSuccess(q, k)' => ToldSuccess(q, k)
  BY <1>1, <1>2 DEF ToldSuccess, Told
<1> QED
  BY <1>1, <1>3, <1>4 DEF Orderly

LEMMA SettledKeepsOrder ==
  ASSUME IInv, NEW k \in Key, Orderly(k),
         NEW r \in Request, NEW c \in CallRecord, NEW x \in 0..Attempts, Settled(r, c, x)
  PROVE  Orderly(k)'
<1>1. /\ Moves(r, c, x) /\ c.key = call[r].key /\ c.kind = call[r].kind
      /\ call[r].pc = "calling" /\ c.pc = "done"
      /\ cache' = IF c.kind \in Orders THEN Stored(c.key, c.result) ELSE cache
  BY DEF Settled, SameCall
<1>2. call'[r] = c /\ \A q \in Request \ {r} : call'[q] = call[q]
  BY <1>1, MovesOneCall DEF IInv
<1>3. k # NoKey
  BY RouterAssumption
<1>4. \A q \in Request : InFlightWith(q, k)' => q # r /\ InFlightWith(q, k)
  BY <1>1, <1>2 DEF InFlightWith, InFlight
<1>5. CASE c.key # k
  <2>1. cache'[k] = cache[k]
    BY <1>1, <1>5 DEF Stored, IInv, TypeOK
  <2>2. \A q \in Request : ToldSuccess(q, k)' => ToldSuccess(q, k)
    BY <1>1, <1>2, <1>5 DEF ToldSuccess, Told
  <2> QED
    BY <1>4, <2>1, <2>2 DEF Orderly
<1>6. CASE c.key = k
  <2>1. c.kind \in Orders
    BY <1>1, <1>3, <1>6 DEF IInv, CallInv, Keyed
  <2>2. cache'[k] = c.result
    BY <1>1, <1>3, <1>6, <2>1 DEF Stored, IInv, TypeOK
  <2>3. InFlightWith(r, k) /\ cache[k] = "none"
    BY <1>1, <1>6 DEF InFlightWith, InFlight, Orderly
  <2>4. \A q \in Request : ~InFlightWith(q, k)'
    BY <1>4, <2>3 DEF Orderly
  <2>5. \A q \in Request : ToldSuccess(q, k)' => q = r
    BY <1>2, <2>3 DEF Orderly, ToldSuccess, Told
  <2>6. ToldSuccess(r, k)' => cache'[k] = "success"
    BY <1>2, <2>2 DEF ToldSuccess
  <2> QED
    BY <2>4, <2>5, <2>6 DEF Orderly
<1> QED
  BY <1>5, <1>6

LEMMA KeptStep ==
  ASSUME IInv, KeptInv, [Next]_vars
  PROVE  KeptInv'
<1> SUFFICES ASSUME NEW k \in Key PROVE Excused(k)' \/ Orderly(k)'
  BY DEF KeptInv
<1>1. Excused(k) \/ Orderly(k)
  BY DEF KeptInv
<1>2. ASSUME NEW r \in Request, NEW c \in CallRecord, Returned(r, c)
      PROVE  Excused(k)' \/ Orderly(k)'
  BY <1>1, <1>2, ReturnedKeepsOrder DEF Returned, Excused
<1>3. ASSUME NEW r \in Request, NEW c \in CallRecord, Called(r, c)
      PROVE  Excused(k)' \/ Orderly(k)'
  <2>1. blame[k] \subseteq blame'[k]
    BY <1>3, ExcuseStays DEF Called, IInv, CallRecord
  <2> QED
    BY <1>1, <1>3, <2>1, CalledKeepsOrder DEF Excused
<1>4. ASSUME NEW r \in Request, NEW c \in CallRecord, NEW x \in 0..Attempts, Continued(r, c, x)
      PROVE  Excused(k)' \/ Orderly(k)'
  <2>1. blame[k] \subseteq blame'[k]
    BY <1>4, ExcuseStays DEF Continued, IInv, CallRecord
  <2> QED
    BY <1>1, <1>4, <2>1, ContinuedKeepsOrder DEF Excused
<1>5. ASSUME NEW r \in Request, NEW c \in CallRecord, NEW x \in 0..Attempts, Settled(r, c, x)
      PROVE  Excused(k)' \/ Orderly(k)'
  <2>1. blame[k] \subseteq blame'[k]
    BY <1>5, ExcuseStays DEF Settled, IInv, CallRecord
  <2> QED
    BY <1>1, <1>5, <2>1, SettledKeepsOrder DEF Excused
<1>6. ASSUME NEW j \in Key, CacheExpires(j)
      PROVE  Excused(k)' \/ Orderly(k)'
  <2>1. UNCHANGED call /\ blame' = Blamed(j, "expired")
        /\ cache' = [cache EXCEPT ![j] = "none"]
    BY <1>6 DEF CacheExpires
  <2>2. blame[k] \subseteq blame'[k] /\ (j = k => "expired" \in blame'[k])
    BY <2>1, ExcuseStays DEF IInv
  <2>3. j # k => cache'[k] = cache[k]
    BY <2>1 DEF IInv, TypeOK
  <2> QED
    BY <1>1, <2>1, <2>2, <2>3
       DEF Excused, Orderly, ToldSuccess, Told, InFlightWith, InFlight
<1>7. CASE UNCHANGED <<call, executed, cache, blame>>
  BY <1>1, <1>7 DEF Excused, Orderly, ToldSuccess, Told, InFlightWith, InFlight
<1> QED
  BY <1>2, <1>3, <1>4, <1>5, <1>6, <1>7, EveryStepMoves DEF IInv

\* What the idempotency cache replays is what a call with that key was told, also when
\* several calls with it overlap and store their results in any order; and a success
\* that was told goes on being replayed until calls overlap or a result expires.
THEOREM CacheIsTruthful == Spec => []CacheTellsTheTruth
<1>1. Init => StoredWasTold /\ KeptInv
  BY DEF Init, StoredWasTold, KeptInv, Orderly, ToldSuccess, Told, InFlightWith, InFlight, NewCall
<1>2. IInv /\ IInv' /\ StoredWasTold /\ KeptInv /\ [Next]_vars => StoredWasTold' /\ KeptInv'
  BY TruthStep, KeptStep
<1>3. StoredWasTold /\ KeptInv => CacheTellsTheTruth
  BY DEF CacheTellsTheTruth, SuccessIsReplayed, KeptInv, Excused, Orderly, ToldSuccess
<1> QED
  BY <1>1, <1>2, <1>3, IInvHolds, PTL DEF Spec
=============================================================================
