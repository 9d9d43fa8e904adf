----------------------------- MODULE BrokerRouter -----------------------------
(***************************************************************************)
(* src/infrastructure/services/brokers/broker-router.js: the calls to      *)
(* placeOrder, manualOrder, closePosition and modifyPosition, with the     *)
(* kill switch, the idempotency cache, the per-broker circuit breaker, the *)
(* retries with backoff and the order log they share.                      *)
(*                                                                         *)
(* A request is one call.  From its entry to the first await it is one     *)
(* atomic step; then it waits for the connector ("calling") or for the     *)
(* backoff timer ("sleeping"), and other calls run meanwhile.  The broker  *)
(* is external: it may execute an order whose answer is then lost, or      *)
(* arrives after the HTTP timeout; the connectors report both as failures. *)
(***************************************************************************)
EXTENDS Integers, Sequences

CONSTANTS
  Request,     \* calls to the router
  Key,         \* idempotency keys
  Broker,      \* connector ids
  Kinds,       \* operations in play, a subset of AllKinds
  NoKey, NoBroker,
  Attempts,    \* brokerRetryAttempts + 1
  Threshold,   \* brokerBreakerThreshold
  AuditLimit   \* auditLimit

\* "bypass" is manualOrder with bypassKillSwitch; without it manualOrder and
\* placeOrder make the same checks in the same order.
AllKinds == {"place", "bypass", "close", "modify"}
Orders == {"place", "bypass"}

ASSUME RouterAssumption ==
  /\ NoKey \notin Key /\ NoBroker \notin Broker
  /\ Kinds \subseteq AllKinds
  /\ Attempts \in Nat \ {0} /\ Threshold \in Nat \ {0} /\ AuditLimit \in Nat \ {0}

VARIABLES
  killSwitch,  \* killSwitchEnabled
  cache,       \* idempotencyCache: the stored outcome of each key, or "none"
  breaker,     \* brokerBreakers; an absent entry behaves like ClosedBreaker
               \* and failures, only compared with Threshold, stop there
  call,        \* the state of each call
  orderLog,    \* orderLog, as the requests logged
  executed,    \* how often the broker executed each request
  blame        \* history: why a key may have been executed more than once

vars == <<killSwitch, cache, breaker, call, orderLog, executed, blame>>

Outcome == {"success", "failure"}

BreakerRecord == [failures : 0..Threshold, active : BOOLEAN, expired : BOOLEAN]
CallRecord ==
  [pc : {"idle", "calling", "sleeping", "done"}, kind : AllKinds, key : Key \cup {NoKey},
   broker : Broker \cup {NoBroker}, attempt : 0..Attempts, result : Outcome \cup {"none"},
   replay : BOOLEAN]

ClosedBreaker == [failures |-> 0, active |-> FALSE, expired |-> FALSE]
NewCall == [pc |-> "idle", kind |-> "place", key |-> NoKey, broker |-> NoBroker,
            attempt |-> 0, result |-> "none", replay |-> FALSE]

Init ==
  /\ killSwitch = FALSE
  /\ cache = [k \in Key |-> "none"]
  /\ breaker = [b \in Broker |-> ClosedBreaker]
  /\ call = [r \in Request |-> NewCall]
  /\ orderLog = <<>>
  /\ executed = [r \in Request |-> 0]
  /\ blame = [k \in Key |-> {}]

InFlight(r) == call[r].pc \in {"calling", "sleeping"}

-----------------------------------------------------------------------------
(* Shared state of the calls *)

\* recordOrder keeps the last auditLimit entries.
Logged(r) ==
  LET log == Append(orderLog, r)
  IN  IF Len(log) > AuditLimit THEN Tail(log) ELSE log

\* isBrokerBreakerActive deletes an entry whose cooldown is over.
BreakerRead(b) == IF breaker[b].expired THEN ClosedBreaker ELSE breaker[b]

\* recordBrokerFailure: an entry past its cooldown that nobody has read since
\* still counts, and a new failure starts its cooldown again.
BreakerFailed(e) ==
  IF e.failures + 1 >= Threshold
    THEN [failures |-> Threshold, active |-> TRUE, expired |-> FALSE]
    ELSE [e EXCEPT !.failures = @ + 1]

\* storeIdempotentResult
Stored(k, result) == IF k = NoKey THEN cache ELSE [cache EXCEPT ![k] = result]

Blamed(k, why) == IF k = NoKey THEN blame ELSE [blame EXCEPT ![k] = @ \cup {why}]

-----------------------------------------------------------------------------
(* Entering a call *)

Rejects(r, kind, k, b) ==
  call' = [call EXCEPT ![r] = [pc |-> "done", kind |-> kind, key |-> k, broker |-> b,
                               attempt |-> 0, result |-> "failure", replay |-> FALSE]]

Replays(r, kind, k, b) ==
  call' = [call EXCEPT ![r] = [pc |-> "done", kind |-> kind, key |-> k, broker |-> b,
                               attempt |-> 0, result |-> cache[k], replay |-> TRUE]]

Calls(r, kind, k, b) ==
  call' = [call EXCEPT ![r] = [pc |-> "calling", kind |-> kind, key |-> k, broker |-> b,
                               attempt |-> 1, result |-> "none", replay |-> FALSE]]

\* The calls made with the same key that have not returned yet.
Overlaps(k) == k # NoKey /\ \E q \in Request : InFlight(q) /\ call[q].key = k

\* (faulty variant: the stored result of a key is not looked up)
EnterOrderUncached(r, kind, k, b) ==
  /\ call[r].pc = "idle" /\ kind \in Orders \cap Kinds
  /\ ~killSwitch \/ kind = "bypass"
  /\ breaker' = [breaker EXCEPT ![b] = BreakerRead(b)]
  /\ IF breaker'[b].active
       THEN Rejects(r, kind, k, b) /\ UNCHANGED blame
       ELSE /\ Calls(r, kind, k, b)
            /\ blame' = IF Overlaps(k) THEN Blamed(k, "overlap") ELSE blame
  /\ UNCHANGED <<killSwitch, cache, orderLog, executed>>

\* placeOrder and manualOrder up to the await of retryBrokerCall: kill switch,
\* market rules, cache, breaker, in this order.
EnterOrder(r, kind, k, b) ==
  /\ call[r].pc = "idle" /\ kind \in Orders \cap Kinds
  /\ \/ /\ killSwitch /\ kind # "bypass"
        /\ Rejects(r, kind, k, b)
        /\ UNCHANGED <<breaker, blame>>
     \/ /\ ~killSwitch \/ kind = "bypass"
        /\ \/ \* market rules
              /\ Rejects(r, kind, k, b)
              /\ UNCHANGED <<breaker, blame>>
           \/ /\ k # NoKey /\ cache[k] # "none"
              /\ Replays(r, kind, k, b)
              /\ UNCHANGED <<breaker, blame>>
           \/ /\ k # NoKey => cache[k] = "none"
              /\ breaker' = [breaker EXCEPT ![b] = BreakerRead(b)]
              /\ IF breaker'[b].active
                   THEN Rejects(r, kind, k, b) /\ UNCHANGED blame
                   ELSE /\ Calls(r, kind, k, b)
                        /\ blame' = IF Overlaps(k) THEN Blamed(k, "overlap") ELSE blame
  /\ UNCHANGED <<killSwitch, cache, orderLog, executed>>

\* modifyPosition looks at the kill switch, closePosition does not; neither
\* has a key, a breaker or a retry.
EnterPositionCall(r, kind, b) ==
  /\ call[r].pc = "idle" /\ kind \in {"close", "modify"} \cap Kinds
  /\ IF killSwitch /\ kind = "modify" THEN Rejects(r, kind, NoKey, b)
                                      ELSE Calls(r, kind, NoKey, b)
  /\ UNCHANGED <<killSwitch, cache, breaker, orderLog, executed, blame>>

-----------------------------------------------------------------------------
(* The connector answers *)

\* (faulty variant: a result once stored is not replaced by the true one)
SettleStoresSuccess(r, result) ==
  /\ call' = [call EXCEPT ![r].pc = "done", ![r].result = result]
  /\ orderLog' = Logged(r)
  /\ cache' = IF call[r].kind \in Orders THEN Stored(call[r].key, "success") ELSE cache

\* What follows the last answer: log, store, return.
Settle(r, result) ==
  /\ call' = [call EXCEPT ![r].pc = "done", ![r].result = result]
  /\ orderLog' = Logged(r)
  /\ cache' = IF call[r].kind \in Orders THEN Stored(call[r].key, result) ELSE cache

OrderSucceeds(r) ==
  /\ call[r].pc = "calling" /\ call[r].kind \in Orders
  /\ executed' = [executed EXCEPT ![r] = @ + 1]
  /\ breaker' = [breaker EXCEPT ![call[r].broker] = ClosedBreaker]
  /\ Settle(r, "success")
  /\ UNCHANGED <<killSwitch, blame>>

\* One attempt fails: refused, or executed with the answer lost.  The call
\* sleeps before the next attempt or, after the last, settles as a failure.
OrderAttemptFails(r, lost) ==
  /\ call[r].pc = "calling" /\ call[r].kind \in Orders
  /\ IF lost THEN /\ executed' = [executed EXCEPT ![r] = @ + 1]
                  /\ blame' = Blamed(call[r].key, "lost")
             ELSE UNCHANGED <<executed, blame>>
  /\ breaker' = [breaker EXCEPT ![call[r].broker] = BreakerFailed(@)]
  /\ IF call[r].attempt < Attempts
       THEN /\ call' = [call EXCEPT ![r].pc = "sleeping"]
            /\ UNCHANGED <<cache, orderLog>>
       ELSE Settle(r, "failure")
  /\ UNCHANGED killSwitch

\* The backoff timer fires.  Neither the kill switch nor the breaker nor the
\* cache is looked at again.
Retry(r) ==
  /\ call[r].pc = "sleeping"
  /\ call' = [call EXCEPT ![r].pc = "calling", ![r].attempt = @ + 1]
  /\ UNCHANGED <<killSwitch, cache, breaker, orderLog, executed, blame>>

PositionCallAnswered(r, result) ==
  /\ call[r].pc = "calling" /\ call[r].kind \in {"close", "modify"}
  /\ \/ executed' = [executed EXCEPT ![r] = @ + 1]
     \/ result = "failure" /\ UNCHANGED executed
  /\ Settle(r, result)
  /\ UNCHANGED <<killSwitch, breaker, blame>>

-----------------------------------------------------------------------------
(* The operator and the clock *)

SetKillSwitch(enabled) ==
  /\ killSwitch # enabled
  /\ killSwitch' = enabled
  /\ UNCHANGED <<cache, breaker, call, orderLog, executed, blame>>

\* The TTL of a stored result passes; getIdempotentResult will not return it.
CacheExpires(k) ==
  /\ cache[k] # "none"
  /\ cache' = [cache EXCEPT ![k] = "none"]
  /\ blame' = Blamed(k, "expired")
  /\ UNCHANGED <<killSwitch, breaker, call, orderLog, executed>>

BreakerCoolsDown(b) ==
  /\ breaker[b].active /\ ~breaker[b].expired
  /\ breaker' = [breaker EXCEPT ![b].expired = TRUE]
  /\ UNCHANGED <<killSwitch, cache, call, orderLog, executed, blame>>

-----------------------------------------------------------------------------
Answered(r) ==
  \/ OrderSucceeds(r)
  \/ \E lost \in BOOLEAN : OrderAttemptFails(r, lost)
  \/ \E result \in Outcome : PositionCallAnswered(r, result)

Next ==
  \/ \E r \in Request, b \in Broker :
       \/ \E kind \in Orders, k \in Key \cup {NoKey} : EnterOrder(r, kind, k, b)
       \/ \E kind \in {"close", "modify"} : EnterPositionCall(r, kind, b)
  \/ \E r \in Request : Answered(r) \/ Retry(r)
  \/ \E enabled \in BOOLEAN : SetKillSwitch(enabled)
  \/ \E k \in Key : CacheExpires(k)
  \/ \E b \in Broker : BreakerCoolsDown(b)

Spec == Init /\ [][Next]_vars

-----------------------------------------------------------------------------
(* Properties *)

TypeOK ==
  /\ killSwitch \in BOOLEAN
  /\ cache \in [Key -> Outcome \cup {"none"}]
  /\ breaker \in [Broker -> BreakerRecord]
  /\ call \in [Request -> CallRecord]
  /\ orderLog \in Seq(Request) /\ Len(orderLog) <= AuditLimit
  /\ executed \in [Request -> 0..Attempts]
  /\ blame \in [Key -> SUBSET {"lost", "overlap", "expired"}]

\* A key whose order was executed twice had a lost answer, two overlapping
\* calls, or a stored result whose TTL passed.  The idempotency cache excludes
\* every other way.
DuplicateExplained ==
  \A r, q \in Request :
    /\ call[r].kind \in Orders /\ call[q].kind \in Orders
    /\ call[r].key = call[q].key /\ call[r].key # NoKey
    /\ IF r = q THEN executed[r] > 1 ELSE executed[r] > 0 /\ executed[q] > 0
    => blame[call[r].key] # {}

\* A caller that is told "success" has an order at the broker: its own or, for
\* a replay, the one of an earlier call with the same key.
SuccessMeansExecuted ==
  \A r \in Request :
    call[r].result = "success"
      => \E q \in Request : /\ executed[q] > 0
                            /\ \/ q = r
                               \/ call[r].replay /\ call[q].key = call[r].key

\* The call r with the key k has returned with an answer of its own.
Told(r, k) == call[r].key = k /\ call[r].pc = "done" /\ ~call[r].replay

\* A stored result is what some returned call with that key was told, even when
\* calls with that key overlap.
StoredWasTold ==
  \A k \in Key :
    cache[k] # "none" => \E r \in Request : Told(r, k) /\ call[r].result = cache[k]

\* Once a caller was told "success", the key replays it.
SuccessIsReplayed ==
  \A k \in Key, r \in Request :
    Told(r, k) /\ call[r].result = "success"
      => cache[k] = "success" \/ blame[k] \cap {"overlap", "expired"} # {}

\* The idempotency cache holds what some call was told, and a success stays in it: a
\* later failure takes its place, or nothing does, only when calls with the key
\* overlapped or the TTL of a stored result passed.  A lost answer alone is no excuse.
CacheTellsTheTruth == StoredWasTold /\ SuccessIsReplayed

=============================================================================
