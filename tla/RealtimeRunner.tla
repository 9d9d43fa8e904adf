---------------------------- MODULE RealtimeRunner ----------------------------
(***************************************************************************)
(* RealtimeEaSignalRunner                                                  *)
(* (src/infrastructure/services/realtime-ea-signal-runner.js): turns the   *)
(* market data of a terminal into signals for the dashboard and for        *)
(* automatic trading.  Symbols that received data wait in a set; a timer   *)
(* starts a flush, which takes a batch of them and generates a signal for  *)
(* each, one after the other, awaiting the engine.  A second timer         *)
(* revalidates what was published.  Neither timer waits for an earlier     *)
(* task to end, so tasks overlap wherever one of them awaits.              *)
(*                                                                         *)
(* One broker is modelled: brokers share only the timer.  A bar is its     *)
(* number, time is whether the minimum interval since a generation has     *)
(* passed, and a signal is what the publishing decision reads of it.       *)
(***************************************************************************)
EXTENDS Integers, Sequences, FiniteSets

CONSTANTS
  Symbol,           \* symbols of the terminal
  Flush,            \* flushes under way at once (a bound)
  Reval,            \* revalidations under way at once (a bound)
  Signals,          \* signals the engine may return: [state, price, ready, directional, analyzed]
  MaxPerFlush,      \* maxSymbolsPerFlush
  EntryOnly,        \* dashboardEntryOnly
  AllowCandidates,  \* dashboardAllowCandidates
  MaxBar,           \* bars a symbol receives (a bound)
  None              \* nothing recorded

VARIABLES
  pending,    \* pendingByBroker: the waiting symbols, in insertion order
  timer,      \* flushTimer is set
  cursor,     \* cursorByBroker
  bar,        \* newest bar of each symbol; 0: none yet
  task,       \* what each flush and revalidation is doing
  recent,     \* keys whose lastGeneratedAt is younger than minIntervalMs
  lastFp,     \* lastFingerprint
  lastBar,    \* lastPublishedBarTime; 0: none
  lastMeta,   \* lastPublishedMeta
  up,         \* the server runs; an unhandled rejection shuts it down
  since,      \* history: how the last generation of a symbol went, "long" ago if the interval has passed
  repeated,   \* history: keys for which a bar was announced twice
  announced,  \* history: bars announced for each key, lifecycle updates apart
  regressed   \* history: keys an overtaken task took back to an older bar

vars == <<pending, timer, cursor, bar, task, recent, lastFp, lastBar, lastMeta, up,
          since, repeated, announced, regressed>>
-----------------------------------------------------------------------------
Task == Flush \cup Reval

\* The main stream and the candidates of a symbol have keys of their own.
Main(s) == <<s, "signal">>
Candidate(s) == <<s, "candidate">>
Key == Symbol \X {"signal", "candidate"}

Idle == [pc |-> "idle", todo |-> {}, cur |-> None, bar |-> 0, stale |-> FALSE]

\* What is remembered of a published signal, and what tells two signals apart.
Meta(sig) == sig.state
Fingerprint(sig) == <<sig.state, sig.price>>

TypeOK ==
  /\ pending \in Seq(Symbol) /\ Len(pending) <= Cardinality(Symbol)
  /\ timer \in BOOLEAN /\ up \in BOOLEAN
  /\ cursor \in 0..Cardinality(Symbol)
  /\ bar \in [Symbol -> 0..MaxBar]
  /\ \A t \in Task :
       /\ task[t].pc \in {"idle", "loop", "await"}
       /\ task[t].todo \subseteq Key
       /\ task[t].bar \in 0..MaxBar
  /\ recent \subseteq Key /\ regressed \subseteq Key /\ repeated \subseteq Key
  /\ lastBar \in [Key -> 0..MaxBar]
  /\ announced \in [Key -> SUBSET (1..MaxBar)]
  /\ since \in [Symbol -> {"long", "running", "recorded", "candidate", "dropped"}]

Init ==
  /\ pending = <<>> /\ timer = FALSE /\ cursor = 0
  /\ bar = [s \in Symbol |-> 0]
  /\ task = [t \in Task |-> Idle]
  /\ recent = {}
  /\ lastFp = [k \in Key |-> None]
  /\ lastBar = [k \in Key |-> 0]
  /\ lastMeta = [k \in Key |-> None]
  /\ up = TRUE
  /\ since = [s \in Symbol |-> "long"]
  /\ repeated = {} /\ regressed = {}
  /\ announced = [k \in Key |-> {}]

published == <<lastFp, lastBar, lastMeta, repeated, announced, regressed>>
-----------------------------------------------------------------------------
Waiting(s) == \E i \in DOMAIN pending : pending[i] = s

\* Data of a symbol arrives: a new bar, a quote, or the background scan.
Ingest(s) ==
  /\ up
  /\ pending' = IF Waiting(s) THEN pending ELSE Append(pending, s)
  /\ timer' = TRUE
  /\ \E b \in {bar[s], bar[s] + 1} \cap 0..MaxBar : bar' = [bar EXCEPT ![s] = b]
  /\ UNCHANGED <<cursor, task, recent, published, up, since>>

\* The minimum interval since the last generation of a symbol passes.
IntervalPasses(s) ==
  /\ up /\ since[s] # "running"
  /\ recent' = recent \ {Main(s), Candidate(s)}
  /\ since' = [since EXCEPT ![s] = "long"]
  /\ UNCHANGED <<pending, timer, cursor, bar, task, published, up>>

\* The waiting symbols in the order the cursor gives them.
Rotated ==
  [i \in 1..Len(pending) |-> pending[((cursor + i - 1) % Len(pending)) + 1]]

BatchSize == IF Len(pending) < MaxPerFlush THEN Len(pending) ELSE MaxPerFlush

NextCursor == (cursor + BatchSize) % Len(pending)

\* The timer fires: a flush takes its batch and leaves the rest waiting.
StartFlush(f) ==
  /\ up /\ timer /\ task[f].pc = "idle"
  /\ timer' = FALSE
  /\ IF pending = <<>>
     THEN UNCHANGED <<pending, cursor, task>>
     ELSE /\ task' = [task EXCEPT ![f] =
                       [Idle EXCEPT !.pc = "loop",
                                    !.todo = {Main(Rotated[i]) : i \in 1..BatchSize}]]
          /\ pending' = SubSeq(Rotated, BatchSize + 1, Len(pending))
          /\ cursor' = NextCursor
  /\ UNCHANGED <<bar, recent, published, up, since>>

\* (faulty variant: the end of a flush does not set the timer again)
EndFlushUntimed(f) ==
  /\ up /\ task[f].pc = "loop" /\ task[f].todo = {}
  /\ task' = [task EXCEPT ![f] = Idle]
  /\ UNCHANGED <<pending, timer, cursor, bar, recent, published, up, since>>

\* A flush that leaves symbols waiting, or finds new ones, sets the timer again.
EndFlush(f) ==
  /\ up /\ task[f].pc = "loop" /\ task[f].todo = {}
  /\ task' = [task EXCEPT ![f] = Idle]
  /\ timer' = (timer \/ pending # <<>>)
  /\ UNCHANGED <<pending, cursor, bar, recent, published, up, since>>

\* The revalidation timer fires: every published key is due, candidates included.
StartReval(r) ==
  /\ up /\ task[r].pc = "idle"
  /\ \E k \in Key : lastMeta[k] # None
  /\ task' = [task EXCEPT ![r] =
               [Idle EXCEPT !.pc = "loop", !.todo = {k \in Key : lastMeta[k] # None}]]
  /\ UNCHANGED <<pending, timer, cursor, bar, recent, published, up, since>>

EndReval(r) ==
  /\ up /\ task[r].pc = "loop" /\ task[r].todo = {}
  /\ task' = [task EXCEPT ![r] = Idle]
  /\ UNCHANGED <<pending, timer, cursor, bar, recent, published, up, since>>
-----------------------------------------------------------------------------
\* Task t goes on to its next key.
Proceeds(t, k) == task[t].pc = "loop" /\ k \in task[t].todo
Done(t, k) == [task EXCEPT ![t].todo = @ \ {k}]

Throttled(t, s) == t \in Flush /\ Main(s) \in recent

\* The symbol is passed over: it was generated a moment ago (unless revalidation
\* forces it, which passes over keys it revalidated a moment ago), or its data
\* does not allow an analysis yet.
PassOver(t, k) ==
  /\ up /\ Proceeds(t, k)
  /\ task' = Done(t, k)
  /\ UNCHANGED <<pending, timer, cursor, bar, recent, published, up, since>>

\* The data is incomplete in a way that counts as an attempt.
HoldBack(t, k) ==
  /\ up /\ Proceeds(t, k) /\ ~Throttled(t, k[1])
  /\ task' = Done(t, k)
  /\ recent' = recent \cup {Main(k[1])}
  /\ since' = [since EXCEPT ![k[1]] = IF @ = "running" THEN @ ELSE "recorded"]
  /\ UNCHANGED <<pending, timer, cursor, bar, published, up>>

\* The newest bar is read, then the engine is awaited.
Generate(t, k) ==
  LET s == k[1] IN
  /\ up /\ Proceeds(t, k) /\ ~Throttled(t, s)
  /\ task' = [task EXCEPT ![t] = [pc |-> "await", todo |-> @.todo \ {k}, cur |-> s,
                                  bar |-> bar[s], stale |-> FALSE]]
  /\ since' = [since EXCEPT ![s] = "running"]
  /\ UNCHANGED <<pending, timer, cursor, bar, recent, published, up>>
-----------------------------------------------------------------------------
\* After the await: t goes back to its loop, having analysed its symbol.
Awaits(t) == up /\ task[t].pc = "await"
Back(t) == [task EXCEPT ![t].pc = "loop", ![t].cur = None, ![t].bar = 0, ![t].stale = FALSE]
\* The last of the generations of a symbol decides how it went.
Went(t, how) ==
  since' = [since EXCEPT ![task[t].cur] =
             IF \E u \in Task \ {t} : task[u].pc = "await" /\ task[u].cur = task[t].cur
             THEN @ ELSE how]

\* generateSignal throws: nothing is recorded.
Fails(t) ==
  /\ Awaits(t)
  /\ task' = Back(t)
  /\ Went(t, "dropped")
  /\ UNCHANGED <<pending, timer, cursor, bar, recent, published, up>>

\* A lifecycle update differs from what was last published on the main stream.
Lifecycle(s, sig) == lastMeta[Main(s)] # None /\ lastMeta[Main(s)] # Meta(sig)

\* The stream a signal is published on, if any.
Channel(s, sig) ==
  IF sig.ready \/ (Lifecycle(s, sig) /\ (EntryOnly \/ sig.directional)) THEN {Main(s)}
  ELSE IF AllowCandidates /\ sig.analyzed THEN {Candidate(s)}
  ELSE {}

\* (faulty variant: the attempt is not recorded)
WithholdUnrecorded(t, sigs) ==
  /\ Awaits(t)
  /\ \A sig \in sigs : Channel(task[t].cur, sig) = {}
  /\ task' = Back(t)
  /\ Went(t, "recorded")
  /\ UNCHANGED <<pending, timer, cursor, bar, recent, published, up>>

\* No signal, or one that is not for publication.
Withhold(t, sigs) ==
  /\ Awaits(t)
  /\ \A sig \in sigs : Channel(task[t].cur, sig) = {}
  /\ task' = Back(t)
  /\ recent' = recent \cup {Main(task[t].cur)}
  /\ Went(t, "recorded")
  /\ UNCHANGED <<pending, timer, cursor, bar, published, up>>

\* At most once per new bar, unless it is a lifecycle update.
SameBar(t, k, sig) ==
  /\ ~Lifecycle(task[t].cur, sig)
  /\ task[t].bar # 0
  /\ task[t].bar = lastBar[k]

\* (faulty variant: only the fingerprint is compared)
SuppressedByFingerprint(t, k, sig) == Fingerprint(sig) = lastFp[k]

Suppressed(t, k, sig) == SameBar(t, k, sig) \/ Fingerprint(sig) = lastFp[k]

HowPublished(k) == IF k[2] = "signal" THEN "recorded" ELSE "candidate"

\* A signal that was already announced is not announced again.
Suppress(t, k, sig) ==
  /\ Awaits(t)
  /\ k \in Channel(task[t].cur, sig) /\ Suppressed(t, k, sig)
  /\ task' = Back(t)
  /\ recent' = recent \cup {k}
  /\ Went(t, HowPublished(k))
  /\ UNCHANGED <<pending, timer, cursor, bar, published, up>>

\* The signal is recorded under its key and broadcast.  The bar recorded is the
\* one read before the await; other tasks awaiting the symbol have become stale.
Publish(t, k, sig) ==
  LET s == task[t].cur
      b == task[t].bar IN
  /\ Awaits(t)
  /\ k \in Channel(s, sig) /\ ~Suppressed(t, k, sig)
  /\ task' = [u \in Task |-> IF u = t THEN Back(t)[t]
                             ELSE IF task[u].cur = s THEN [task[u] EXCEPT !.stale = TRUE]
                             ELSE task[u]]
  /\ recent' = recent \cup {k}
  /\ lastFp' = [lastFp EXCEPT ![k] = Fingerprint(sig)]
  /\ lastBar' = IF b # 0 THEN [lastBar EXCEPT ![k] = b] ELSE lastBar
  /\ lastMeta' = [lastMeta EXCEPT ![k] = Meta(sig)]
  /\ regressed' = IF task[t].stale /\ b # 0 /\ b < lastBar[k] THEN regressed \cup {k} ELSE regressed
  /\ repeated' = IF ~Lifecycle(s, sig) /\ b \in announced[k] THEN repeated \cup {k} ELSE repeated
  /\ announced' = IF ~Lifecycle(s, sig) /\ b # 0
                  THEN [announced EXCEPT ![k] = @ \cup {b}] ELSE announced
  /\ Went(t, HowPublished(k))
  /\ UNCHANGED <<pending, timer, cursor, bar, up>>

\* The signal does not pass the validation of its transfer object: the rejection
\* of the flush or revalidation is handled by nobody and the server shuts down.
Malformed(t, k, sig) ==
  /\ Awaits(t)
  /\ k \in Channel(task[t].cur, sig) /\ ~Suppressed(t, k, sig)
  /\ up' = FALSE
  /\ UNCHANGED <<pending, timer, cursor, bar, task, recent, published, since>>
-----------------------------------------------------------------------------
Finish(t) ==
  \/ Fails(t)
  \/ Withhold(t, {})
  \/ \E sig \in Signals :
       \/ Withhold(t, {sig})
       \/ \E k \in Key : Suppress(t, k, sig) \/ Publish(t, k, sig) \/ Malformed(t, k, sig)

Step(t) ==
  \/ Finish(t)
  \/ \E k \in Key : PassOver(t, k) \/ HoldBack(t, k) \/ Generate(t, k)

Next ==
  \/ \E s \in Symbol : Ingest(s) \/ IntervalPasses(s)
  \/ \E f \in Flush : StartFlush(f) \/ EndFlush(f)
  \/ \E r \in Reval : StartReval(r) \/ EndReval(r)
  \/ \E t \in Task : Step(t)

Spec == Init /\ [][Next]_vars
-----------------------------------------------------------------------------
(***************************************************************************)
(* Properties.                                                             *)
(***************************************************************************)

\* A symbol that waits has a flush to come: the timer is set, or a flush is
\* under way that will look again before it ends.
WaitingHasFlush ==
  up /\ pending # <<>> => timer \/ \E f \in Flush : task[f].pc # "idle"

\* A bar is announced twice on a stream only after a task that had read its bar
\* before another one published took the stream back to an older bar.
RepeatExplained == repeated \subseteq regressed

\* A flush analyses a symbol again within the minimum interval only when the last
\* analysis ended on the candidate stream, whose key the throttle does not read,
\* threw, or has not returned.
ThrottleMissesOnlyCandidates ==
  [][\A f \in Flush : task[f].pc = "loop" /\ task'[f].pc = "await"
       => since[task'[f].cur] # "recorded"]_vars
=============================================================================
