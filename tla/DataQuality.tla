------------------------------ MODULE DataQuality ------------------------------
(***************************************************************************)
(* The data quality guard of a pair                                        *)
(* (src/core/engine/modules/data-quality-guard.js) and its caller, the     *)
(* signal generation of orchestration-coordinator.js.  A signal uses the   *)
(* latest report of its pair and has a new one made when that is too old;  *)
(* making one awaits the prices of several timeframes, and the scan of the *)
(* trade manager and requests of the dashboard generate signals of a pair  *)
(* at once.  A bad report opens the circuit breaker of the pair.           *)
(*                                                                         *)
(* Time is in units of which the code has a fixed number for each          *)
(* duration.  Synthetic data, for which the guard relaxes, is off.         *)
(***************************************************************************)
EXTENDS Integers, FiniteSets

CONSTANTS
  Signal,       \* signal generations of the pair under way at once (a bound)
  Quality,      \* what an assessment may find: [score, issue, spread, gap]
  Ttl,          \* dataQualityTtlMs: age up to which a report is used again
  Window,       \* autoReenableWindowMs
  MinHealthy,   \* autoReenableMinHealthyCount
  MinScore,     \* autoReenableMinScore
  Duration,     \* how long a breaker stays open
  MaxNow        \* the time at which the model stops (a bound)

NoReport == [at |-> -1, blocks |-> FALSE]

VARIABLES
  now,          \* Date.now()
  breaker,      \* expiresAt in marketDataCircuitBreakers; 0: no entry
  streak,       \* marketDataQualityStreaks: healthy results in a row and the first of them
  report,       \* dataQualityAssessments: assessedAt and whether it recommends to block
  job,          \* assessments under way: [at, breaker]; none otherwise
  overlapped,   \* history: an assessment finished, since the breaker opened, beside another
  cut           \* history: the breaker was cleared before it expired

qualityVars == <<now, breaker, streak, report, job, overlapped, cut>>

Free == [at |-> -1, breaker |-> FALSE]
Assessing(g) == job[g].at # -1

Init ==
  /\ now = 0 /\ breaker = 0
  /\ streak = [count |-> 0, since |-> 0]
  /\ report = NoReport
  /\ job = [g \in Signal |-> Free]
  /\ overlapped = FALSE /\ cut = FALSE
-----------------------------------------------------------------------------
\* The status of a report, from its score and what was found.
Critical(q) == q.score < 60 \/ q.issue = "stale" \/ "critical" \in {q.spread, q.gap}
Healthy(q) ==
  /\ ~Critical(q) /\ q.score >= 80 /\ q.issue = "none"
  /\ "elevated" \notin {q.spread, q.gap}

\* What opens the breaker.
Trips(q) == (Critical(q) /\ q.score < 55) \/ "critical" \in {q.spread, q.gap}

\* getPairCircuitBreaker: an expired entry is dropped.
Open == breaker > now
Pruned == IF Open THEN breaker ELSE 0

\* A signal finds a report that is fresh enough and uses it.
UsesReport == report.at # -1 /\ now - report.at <= Ttl

\* Otherwise it starts an assessment; the breaker it finds is kept over the awaits.
Assess(g) ==
  /\ ~Assessing(g) /\ ~UsesReport
  /\ job' = [job EXCEPT ![g] = [at |-> now, breaker |-> Open]]
  /\ breaker' = Pruned
  /\ UNCHANGED <<now, streak, report, overlapped, cut>>

\* updatePairQualityStreak
NextStreak(q, at) ==
  IF ~Healthy(q) THEN [count |-> 0, since |-> 0]
  ELSE [count |-> streak.count + 1, since |-> IF streak.count = 0 THEN at ELSE streak.since]

\* The breaker after the result and before it is cleared; one that was open when the
\* assessment started counts, even if it has gone since.
Opened(q) == IF Trips(q) THEN now + Duration ELSE Pruned
\* (faulty variant: only the breaker found when the assessment started counts)
CountsFound(g, q) == job[g].breaker

Counts(g, q) == Opened(q) # 0 \/ job[g].breaker

\* (faulty variant: the window is not looked at)
ReenabledAnyTime(g, q) ==
  /\ Counts(g, q) /\ Healthy(q) /\ q.score >= MinScore
  /\ NextStreak(q, job[g].at).count >= MinHealthy

Reenabled(g, q) ==
  /\ Counts(g, q) /\ Healthy(q) /\ q.score >= MinScore
  /\ NextStreak(q, job[g].at).count >= MinHealthy
  /\ job[g].at - NextStreak(q, job[g].at).since <= Window

\* The prices have arrived: from the score to the report there is no await.
Finish(g, q) ==
  /\ Assessing(g)
  /\ breaker' = IF Reenabled(g, q) THEN 0 ELSE Opened(q)
  /\ streak' = NextStreak(q, job[g].at)
  /\ report' = [at |-> job[g].at,
                blocks |-> Critical(q) \/ (Counts(g, q) /\ ~Reenabled(g, q))]
  /\ job' = [job EXCEPT ![g] = Free]
  /\ overlapped' = IF Trips(q) THEN FALSE
                   ELSE overlapped \/ \E h \in Signal \ {g} : Assessing(h)
  /\ cut' = (~Trips(q) /\ (cut \/ (Reenabled(g, q) /\ Open)))
  /\ UNCHANGED now

TimePasses ==
  /\ now < MaxNow
  /\ now' = now + 1
  /\ UNCHANGED <<breaker, streak, report, job, overlapped, cut>>
-----------------------------------------------------------------------------
Next ==
  \/ \E g \in Signal : Assess(g)
  \/ \E g \in Signal, q \in Quality : Finish(g, q)
  \/ TimePasses

Spec == Init /\ [][Next]_qualityVars
-----------------------------------------------------------------------------
\* While the breaker of a pair is open, the report every signal uses says to block,
\* whatever assessments finish late and in whatever order.
OpenBreakerBlocks == Open => report.blocks

\* A breaker is cleared before its time only by assessments that ran side by side:
\* one after the other they are further apart (a report is used for Ttl) than the
\* window within which two healthy ones count.
ReenabledOnlyByOverlap == cut => overlapped
=============================================================================
