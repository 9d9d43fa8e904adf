------------------------------ MODULE Components ------------------------------
(***************************************************************************)
(* The components beside the life of a trade, each with the state of its   *)
(* own that it keeps in the server: what the EA bridge records and answers *)
(* (market series, learning, data quality and answers, snapshots), the     *)
(* realtime runner, and the services (reconciliation, cache, persistence   *)
(* backoff, prefetching, price fetcher).  They share no variable, so the   *)
(* constants and variables below are those of the modules named there.     *)
(***************************************************************************)
EXTENDS Integers, FiniteSets, Sequences

CONSTANTS
  Symbol, Flush, Reval, Signals, MaxPerFlush, EntryOnly, AllowCandidates, MaxBar,
  None,                                                                \* RealtimeRunner
  Prices, MaxAge, MaxCandles, MaxSeries, Depth, MaxTime, MaxQuotes,    \* MarketSeries
  Session, MaxHistory, MaxLosses, MaxTransactions,                     \* EaLearning
  Signal, Quality, Ttl, Window, MinHealthy, MinScore, Duration, MaxNow, \* DataQuality
  Asker,                                                               \* ExecutionAnswer
  SnapSymbol, Chart, MaxPerPoll,                                       \* SnapshotRequests
  MaxChains,                                                           \* Reconciliation
  CachedKey, Getter, MaxSize, MaxVersion,                              \* CacheService
  Write, RetryMax,                                                     \* PersistenceBackoff
  Series, Cycle, Cadence, MaxPairs, MaxTick,                           \* PrefetchScheduler
  Provider, FetchKey, Serves, TellsItself, MaxRequests, Cooldown       \* PriceFetcher

\* Flushes and revalidations are different tasks.
ASSUME RunnerAssumption ==
  /\ Flush \cap Reval = {} /\ None \notin Symbol
  /\ MaxBar \in Nat /\ MaxPerFlush \in Nat \ {0}

\* Prices are positive (quotes without one are dropped), and so are the sizes of series
\* and payloads.
ASSUME SeriesAssumption ==
  /\ Prices \subseteq Nat \ {0} /\ Depth \subseteq Nat \ {0}
  /\ {MaxCandles, MaxSeries, MaxTime} \subseteq Nat \ {0}

\* maxConsecutiveLosses is 3, and a pause is at twice as many.
ASSUME LearningAssumption == MaxLosses \in Nat /\ MaxLosses >= 3 /\ MaxTransactions \in Nat

\* The defaults: a report is used for 5 minutes, and two healthy ones within 4 minutes
\* clear a breaker.
ASSUME QualityAssumption ==
  /\ {Ttl, Window, MinHealthy, MinScore, Duration, MaxNow} \subseteq Nat
  /\ \A q \in Quality : q.score \in Int
  /\ Window <= Ttl /\ MinHealthy >= 2

\* maxSize is positive (0 selects the default).
ASSUME CacheAssumption == MaxSize \in Nat \ {0} /\ MaxVersion \in Nat

ASSUME PrefetchAssumption == Cadence \in Nat /\ MaxTick \in Nat

\* Calls under way, keys and quotas are finite.
ASSUME FetcherAssumption ==
  IsFiniteSet(FetchKey) /\ MaxRequests \in Nat \ {0} /\ Cooldown \in Nat

ASSUME SnapshotAssumption == MaxPerPoll \in Nat \ {0}

ASSUME ReconciliationAssumption == MaxChains \in Nat

VARIABLES
  pending, timer, cursor, bar, task, recent, lastFp, lastBar, lastMeta, up,
  since, repeated, announced, regressed,                               \* RealtimeRunner
  minute, market, candles, quote, recentQ, bars, quotes, sent,         \* MarketSeries
  connected, trades, wins, losses, risk, stop, reported,               \* EaLearning
  now, breaker, streak, report, job, overlapped, cut,                  \* DataQuality
  asking, followed, halted, told, dropped,                             \* ExecutionAnswer
  asked, inflight, fresh, working, overtaken,                          \* SnapshotRequests
  timers, handle, runs, wanted, doubled, outlived,                     \* Reconciliation
  version, entries, getter, newer, back,                               \* CacheService
  waits, failures, writing, older, cutBackoff,                         \* PersistenceBackoff
  tick, last, cycle, beside, twice,                                    \* PrefetchScheduler
  fetch, usage, providerBreaker, backoff                               \* PriceFetcher

runnerVars == <<pending, timer, cursor, bar, task, recent, lastFp, lastBar, lastMeta, up,
                since, repeated, announced, regressed>>
seriesVars == <<minute, market, candles, quote, recentQ, bars, quotes, sent>>
learnVars == <<connected, trades, wins, losses, risk, stop, reported>>
answerVars == <<now, breaker, streak, report, job, overlapped, cut,
                asking, followed, halted, told, dropped>>
snapVars == <<asked, inflight, fresh, working, overtaken>>
reconVars == <<timers, handle, runs, wanted, doubled, outlived>>
cacheVars == <<version, entries, getter, newer, back>>
persistVars == <<waits, failures, writing, older, cutBackoff>>
prefetchVars == <<tick, last, cycle, beside, twice>>
fetcherVars == <<fetch, usage, providerBreaker, backoff>>

Runner == INSTANCE RealtimeRunner
MarketData == INSTANCE MarketSeries
Learning == INSTANCE EaLearning
Bridge == INSTANCE ExecutionAnswer WITH Poll <- Asker
Snapshots == INSTANCE SnapshotRequests
Recon == INSTANCE Reconciliation
Cache == INSTANCE CacheService
Persistence == INSTANCE PersistenceBackoff
Prefetch == INSTANCE PrefetchScheduler
Fetcher == INSTANCE PriceFetcher WITH Key <- FetchKey, breaker <- providerBreaker

\* All of them beside each other.
ComponentsSpec ==
  /\ Runner!Spec
  /\ MarketData!Spec
  /\ Learning!Spec
  /\ Bridge!AnswerSpec
  /\ Snapshots!Spec
  /\ Recon!Spec
  /\ Cache!Spec
  /\ Persistence!Spec
  /\ Prefetch!Spec
  /\ Fetcher!Spec
-----------------------------------------------------------------------------
\* Realtime runner: a symbol that waits has a flush to come.
WaitingHasFlush == Runner!WaitingHasFlush

\* Realtime runner: a bar is announced twice only after a task that had read an older
\* one before another task published took the stream back.
RepeatExplained == Runner!RepeatExplained

\* Realtime runner: the minimum interval is missed only after a candidate, an error, or
\* while an analysis has not returned.
ThrottleMissesOnlyCandidates == Runner!ThrottleMissesOnlyCandidates

\* Market series: a candle built from quotes is that of its minute unless quotes of
\* several minutes were mixed.
CandlesAreExact == MarketData!CandlesAreExact

\* Market series: the bars kept are the newest of all that came, each as it came last.
BarsAreNewest == MarketData!BarsAreNewest

\* Learning: a losing streak that pauses trading has lowered the risk before.
PausedRiskIsLow == Learning!PausedRiskIsLow

\* Data quality guard: while a breaker is open the report says to block.
OpenBreakerBlocks == Bridge!OpenBreakerBlocks

\* Data quality guard: a breaker is cleared early only by overlapping assessments.
ReenabledOnlyByOverlap == Bridge!ReenabledOnlyByOverlap

\* EA bridge: nobody is told to execute while a guard pauses or the breaker is open.
NoEntryWhilePaused == Bridge!NoEntryWhilePaused

\* Reconciliation: several chains of runs, or one that goes on after stop, only when
\* start or stop came while a run was under way.
ChainsExplained == Recon!ChainsExplained

\* Cache, persistence backoff and prefetching: a result that comes late undoes a newer
\* one, ends a backoff or repeats a fetch only where two operations overlapped; and
\* the cache keeps its limit.
LateResultsExplained ==
  Cache!CacheIsExact /\ Persistence!BackoffExplained /\ Prefetch!FetchedOnce

\* Snapshots: nothing that was just handed to the terminal is asked for again, and what
\* is asked for in spite of a fresh snapshot was asked for before that came.
SnapshotsAskedExplained == Snapshots!GuardedAreNotAsked /\ Snapshots!AskedFreshExplained

\* Price fetcher: the quota of a provider is exceeded by no more than the requests that
\* can be under way at once.
QuotaNearlyKept == Fetcher!QuotaNearlyKept
=============================================================================
