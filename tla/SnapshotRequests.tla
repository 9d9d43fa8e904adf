--------------------------- MODULE SnapshotRequests ---------------------------
(***************************************************************************)
(* On-demand snapshots of the EA bridge (ea-bridge-service.js).  The       *)
(* dashboard and the realtime runner ask for a snapshot of a symbol; the   *)
(* terminal polls for what was asked, computes the snapshots one by one    *)
(* and posts them, as it also does unasked from time to time.  Every chart *)
(* of a terminal runs its own expert with its own polls.                   *)
(*                                                                         *)
(* Time is what has passed: an entry expires, a guard runs out, a snapshot *)
(* is no longer fresh.                                                     *)
(***************************************************************************)
EXTENDS Integers, Sequences, FiniteSets, SequencesExt

CONSTANTS
  SnapSymbol,   \* symbols
  Chart,        \* experts that poll
  MaxPerPoll    \* the max of a poll

VARIABLES
  asked,       \* snapshotRequests: the symbols asked for, in insertion order
  inflight,    \* snapshotInflight: symbols a poll took less than 25 s ago
  fresh,       \* latestSnapshots younger than 45 s
  working,     \* symbols each chart has still to send
  overtaken    \* history: symbols whose snapshot came while they were asked for

snapVars == <<asked, inflight, fresh, working, overtaken>>

Asked(s) == Contains(asked, s)

Init ==
  /\ asked = <<>>
  /\ inflight = {} /\ fresh = {} /\ overtaken = {}
  /\ working = [c \in Chart |-> {}]
-----------------------------------------------------------------------------
\* (faulty variant: what is under way is asked for again)
RequestUnguarded(s) ==
  /\ s \notin fresh
  /\ ~Asked(s)
  /\ asked' = Append(asked, s)
  /\ UNCHANGED <<inflight, fresh, working, overtaken>>

\* requestMarketSnapshot: not while a snapshot is fresh or under way.  A symbol
\* asked for again keeps its place.
Request(s) ==
  /\ s \notin fresh /\ s \notin inflight
  /\ ~Asked(s)
  /\ asked' = Append(asked, s)
  /\ UNCHANGED <<inflight, fresh, working, overtaken>>

\* An entry that was not taken in time is dropped by the next poll.
Expire(s) ==
  /\ \E i \in DOMAIN asked : asked[i] = s /\ asked' = RemoveAt(asked, i)
  /\ overtaken' = overtaken \ {s}
  /\ UNCHANGED <<inflight, fresh, working>>

Batch == IF Len(asked) < MaxPerPoll THEN Len(asked) ELSE MaxPerPoll

\* What a poll takes leaves the queue and is guarded for a while, whether or not the
\* answer reaches the chart.
HandsOut(taken, c, lost) ==
  /\ working[c] = {} /\ asked # <<>>
  /\ inflight' = inflight \cup taken
  /\ working' = IF lost THEN working ELSE [working EXCEPT ![c] = taken]
  /\ overtaken' = overtaken \ taken
  /\ UNCHANGED fresh

\* (faulty variant: the newest requests first)
PollNewest(c, lost) ==
  /\ HandsOut(ToSet(SubSeq(asked, Len(asked) - Batch + 1, Len(asked))), c, lost)
  /\ asked' = SubSeq(asked, 1, Len(asked) - Batch)

\* consumeMarketSnapshotRequests
Poll(c, lost) ==
  /\ HandsOut(ToSet(SubSeq(asked, 1, Batch)), c, lost)
  /\ asked' = SubSeq(asked, Batch + 1, Len(asked))

\* A chart has computed a snapshot, asked for or not; it may fail to, or to post it.
Computed(c, s) ==
  \/ s \in working[c]
  \/ working[c] = {}

SnapshotArrives(c, s) ==
  /\ Computed(c, s)
  /\ working' = [working EXCEPT ![c] = @ \ {s}]
  /\ fresh' = fresh \cup {s}
  /\ inflight' = inflight \ {s}
  /\ overtaken' = IF Asked(s) THEN overtaken \cup {s} ELSE overtaken
  /\ UNCHANGED asked

SnapshotFails(c, s) ==
  /\ s \in working[c]
  /\ working' = [working EXCEPT ![c] = @ \ {s}]
  /\ UNCHANGED <<asked, inflight, fresh, overtaken>>

GuardRunsOut(s) ==
  /\ s \in inflight
  /\ inflight' = inflight \ {s}
  /\ UNCHANGED <<asked, fresh, working, overtaken>>

Ages(s) ==
  /\ s \in fresh
  /\ fresh' = fresh \ {s}
  /\ overtaken' = overtaken \ {s}
  /\ UNCHANGED <<asked, inflight, working>>
-----------------------------------------------------------------------------
ChartStep(c) ==
  \/ \E lost \in BOOLEAN : Poll(c, lost)
  \/ \E s \in working[c] : SnapshotArrives(c, s) \/ SnapshotFails(c, s)

Next ==
  \/ \E s \in SnapSymbol : Request(s) \/ Expire(s) \/ GuardRunsOut(s) \/ Ages(s)
  \/ \E c \in Chart : ChartStep(c) \/ \E s \in SnapSymbol : SnapshotArrives(c, s)

Spec == Init /\ [][Next]_snapVars

\* Charts poll, and send or give up what they took.
Fairness == \A c \in Chart : WF_snapVars(ChartStep(c))

FairSpec == Spec /\ Fairness
-----------------------------------------------------------------------------
\* The terminal is never asked for a symbol it was asked for a moment ago, as long
\* as the guard stands: nothing guarded is in the queue.
GuardedAreNotAsked == \A s \in inflight : ~Asked(s)

\* A poll hands out a symbol of which a fresh snapshot is at hand only if that
\* snapshot came after it was asked for: nothing takes a symbol out of the queue
\* when its snapshot arrives.
AskedFreshExplained == \A s \in fresh : Asked(s) => s \in overtaken

\* What is asked for is handed to the terminal, or expires: no symbol is passed over
\* for ever while charts poll, however many others are asked for.
RequestsReachTerminal == \A s \in SnapSymbol : Asked(s) ~> ~Asked(s)
=============================================================================
