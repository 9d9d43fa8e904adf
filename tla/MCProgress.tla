------------------------------ MODULE MCProgress ------------------------------
(***************************************************************************)
(* What must go on happening, for TLC: the job queue, the trade manager,   *)
(* on-demand snapshots, the price fetcher and alerts.  They share no       *)
(* state, so a behaviour moves one of them, which its initial state picks; *)
(* the others stay as they start.                                          *)
(***************************************************************************)
EXTENDS JobQueue, Sequences, TLC

CONSTANTS
  j1, j2, j3, j4,        \* jobs
  b1, p1, p2, t1, s1, f1, f2, Manual, None,   \* trade manager
  y1, y2, c1, c2,        \* symbols and charts of snapshots
  q1, q2, k1, k2         \* providers and keys

\* j1 has no handler; j2 may be retried once and shares its id with j3.
MCJobs == {j1, j2, j3, j4}
MCHandled == Job \ {j1}
MCAttempts == [j \in Job |-> IF j = j2 THEN 1 ELSE 0]
MCIds == [j \in Job |-> IF j = j3 THEN j2 ELSE j]

VARIABLES
  active,                                                    \* who moves
  enabled, interval, starting, checked, scan, queue, flushTimer, cooldown, flush, trade,
  asked, inflight, fresh, working, overtaken,
  fetch, usage, breaker, backoff,
  stands, window, sending, undelivered

managerVars == <<enabled, interval, starting, checked, scan, queue, flushTimer, cooldown, flush, trade>>
snapVars == <<asked, inflight, fresh, working, overtaken>>
fetcherVars == <<fetch, usage, breaker, backoff>>
alertVars == <<stands, window, sending, undelivered>>

Manager == INSTANCE TradeManager WITH
  Broker <- {b1}, Pair <- {p1}, Trade <- {t1}, Scan <- {s1}, Flush <- {f1, f2},
  MaxNew <- 1, timer <- flushTimer
Snapshots == INSTANCE SnapshotRequests WITH
  SnapSymbol <- {y1, y2}, Chart <- {c1, c2}, MaxPerPoll <- 1
\* The second provider serves only one of the keys, and counts twice.
Fetcher == INSTANCE PriceFetcher WITH
  Provider <- {q1, q2}, Key <- {k1, k2}, MaxRequests <- 1, Cooldown <- 2,
  Serves <- (q1 :> {k1, k2} @@ q2 :> {k1}), TellsItself <- {q2}
Alerts == INSTANCE AlertBus WITH AlertChannel <- {c1, c2}, DedupeTime <- 2
-----------------------------------------------------------------------------
Service == {"jobs", "manager", "snapshots", "fetcher", "alerts"}

MCInit ==
  /\ active \in Service
  /\ Init
  /\ Manager!Init
  /\ Snapshots!Init
  /\ Fetcher!Init
  /\ Alerts!Init

\* Service x moves.
Moves(x) ==
  /\ active = x /\ UNCHANGED active
  /\ IF x = "jobs" THEN TRUE ELSE UNCHANGED vars
  /\ IF x = "manager" THEN TRUE ELSE UNCHANGED managerVars
  /\ IF x = "snapshots" THEN TRUE ELSE UNCHANGED snapVars
  /\ IF x = "fetcher" THEN TRUE ELSE UNCHANGED fetcherVars
  /\ IF x = "alerts" THEN TRUE ELSE UNCHANGED alertVars

MCNext ==
  \/ Moves("jobs") /\ Next
  \/ Moves("manager") /\ Manager!Next
  \/ Moves("snapshots") /\ Snapshots!Next
  \/ Moves("fetcher") /\ Fetcher!Next
  \/ Moves("alerts") /\ Alerts!Next

\* Nothing that fairness is about can happen in the initial state of a service, so the
\* fairness of one that does not move asks for nothing.
MCSpec ==
  /\ MCInit /\ [][MCNext]_<<active, vars, managerVars, snapVars, fetcherVars, alertVars>>
  /\ Fairness /\ Manager!Fairness /\ Snapshots!Fairness /\ Fetcher!Fairness /\ Alerts!Fairness
-----------------------------------------------------------------------------
\* Manager: every realtime signal in a queue leaves it, executed or dropped.
CandidatesAreFlushed == Manager!CandidatesAreFlushed

\* Snapshots: no symbol that was asked for is passed over for ever.
RequestsReachTerminal == Snapshots!RequestsReachTerminal

\* Price fetcher: an open breaker of a provider closes.
BreakerEnds == Fetcher!BreakerEnds

\* Alert bus: what a channel failed to deliver is sent again while its condition stands.
AlertsAreRepeated == Alerts!AlertsAreRepeated
=============================================================================
